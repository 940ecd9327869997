---------------------------- MODULE ReplyDelivery ----------------------------
(***************************************************************************)
(* The delivery of an agent's replies on a channel                         *)
(* (src/agents/communications/delivery.ts, with its ledger in              *)
(* src/agents/ledgers.ts and store.ts): the row of each reply, the first   *)
(* attempt, the sweeps that retry what is due, a person who resends or     *)
(* confirms, and a host that stops in the middle of a send.                *)
(*                                                                         *)
(* An action is what runs between two awaits: a claim and the start of its *)
(* send are one action, the outcome of the send is another.  The provider  *)
(* is external: a send ends in any of the ways classifySendFailure sorts.  *)
(***************************************************************************)
EXTENDS Integers, FiniteSets

CONSTANTS
    Replies,     \* finished turns with a reply to send
    Sweeps,      \* sweeps that may overlap
    Backoffs,    \* length of the list of waits before a retry
    MaxManual,   \* bound: times a person resends
    MaxCrashes   \* bound: restarts of the host

ASSUME DeliveryAssumption ==
    /\ {Backoffs, MaxManual, MaxCrashes} \subseteq Nat
    /\ Sweeps \cap {"first", "manual"} = {}

VARIABLES
    row,       \* the delivery row of each reply
    turn,      \* the outcome of its turn
    waiting,   \* replies whose conversation is about to call deliver
    flights,   \* sends under way
    todo,      \* what each sweep has still to look at
    manual,    \* times a person resent
    crashes,
    arrived    \* history: replies that a send may have taken to the person

vars == <<row, turn, waiting, flights, todo, manual, crashes, arrived>>

States == {"none", "pending", "sending", "delivered", "failed", "unknown"}

\* retry: a next attempt is planned; due: its time has come.
Row(s, n, retry) == [state |-> s, attempts |-> n, retry |-> retry, due |-> FALSE]

Init ==
    /\ row = [r \in Replies |-> Row("none", 0, FALSE)]
    /\ turn \in [Replies -> {"succeeded", "cancelled"}]
    /\ waiting = Replies
    /\ flights = {}
    /\ todo = [s \in Sweeps |-> {}]
    /\ manual = 0
    /\ crashes = 0
    /\ arrived = {}

-----------------------------------------------------------------------------
(* One attempt                                                             *)

\* The states an attempt of a kind may start from.
ClaimStates(kind) ==
    CASE kind = "first"  -> {"pending"}
      [] kind = "manual" -> {"failed", "unknown"}
      [] OTHER           -> {"failed"}

\* Mutant: a sweep trusts its list.
MutantClaimFromList(r, kind) ==
    kind \in Sweeps \/ row[r].state \in ClaimStates(kind)

\* claim succeeds: one UPDATE that matches the allowed states, and for a
\* retry the planned time.
CanClaim(r, kind) ==
    /\ row[r].state \in ClaimStates(kind)
    /\ kind \in Sweeps => row[r].retry /\ row[r].due

\* The claimed row, and the send that starts with it.
Claim(r, kind) ==
    /\ row' = [row EXCEPT ![r] = Row("sending", row[r].attempts + 1, FALSE)]
    /\ flights' = flights \cup {[reply |-> r, kind |-> kind]}

\* Mutant: a reply that got through does not put its turn right.
MutantMarkerStays(r, delivered) ==
    [turn EXCEPT ![r] =
        IF ~delivered /\ turn[r] = "succeeded" THEN "undelivered" ELSE turn[r]]

\* lifecycle.replyDelivery: only the marker of an undelivered reply moves.
Marked(r, delivered) ==
    [turn EXCEPT ![r] =
        CASE delivered /\ turn[r] = "undelivered" -> "succeeded"
          [] ~delivered /\ turn[r] = "succeeded"  -> "undelivered"
          [] OTHER -> turn[r]]

\* deliver: the row is created and the first attempt made.
Deliver(r) ==
    /\ r \in waiting
    /\ waiting' = waiting \ {r}
    /\ row' = [row EXCEPT ![r] = Row("sending", 1, FALSE)]
    /\ flights' = flights \cup {[reply |-> r, kind |-> "first"]}
    /\ UNCHANGED <<turn, todo, manual, crashes, arrived>>

\* The reply went out.
Sent(f) ==
    /\ row' = [row EXCEPT ![f.reply] = Row("delivered", @.attempts, FALSE)]
    /\ turn' = Marked(f.reply, TRUE)
    /\ arrived' = arrived \cup {f.reply}

\* Mutant: an unknown outcome is planned again like a failure.
MutantRetryUnknown(f, outcome) ==
    LET n     == row[f.reply].attempts
        retry == f.kind # "manual" /\ outcome # "failed" /\ n <= Backoffs
    IN  /\ row' = [row EXCEPT ![f.reply] = Row("failed", n, retry)]
        /\ turn' = IF retry THEN turn ELSE Marked(f.reply, FALSE)
        /\ arrived' = IF outcome = "unknown" THEN arrived \cup {f.reply} ELSE arrived

\* The send failed: for good, for now ("transient"), or nobody knows.  A
\* transient failure of an automatic attempt is planned again while there is
\* a wait left; the turn fails when nothing is planned.
NotSent(f, outcome) ==
    LET n     == row[f.reply].attempts
        retry == f.kind # "manual" /\ outcome = "transient" /\ n <= Backoffs
        state == IF outcome = "unknown" THEN "unknown" ELSE "failed"
    IN  /\ row' = [row EXCEPT ![f.reply] = Row(state, n, retry)]
        /\ turn' = IF retry THEN turn ELSE Marked(f.reply, FALSE)
        /\ arrived' = IF outcome = "unknown" THEN arrived \cup {f.reply} ELSE arrived

\* The send of an attempt ends, and its row is patched whatever it holds now.
SendEnds(f) ==
    /\ f \in flights
    /\ flights' = flights \ {f}
    /\ Sent(f) \/ \E o \in {"failed", "transient", "unknown"} : NotSent(f, o)
    /\ UNCHANGED <<waiting, todo, manual, crashes>>

-----------------------------------------------------------------------------
(* Retries                                                                 *)

\* The planned time of a retry comes.
Due(r) ==
    /\ row[r].retry /\ ~row[r].due
    /\ row' = [row EXCEPT ![r].due = TRUE]
    /\ UNCHANGED <<turn, waiting, flights, todo, manual, crashes, arrived>>

Busy(s) == \E f \in flights : f.kind = s

\* A sweep, of the interval or of a retry's own timer, reads what is due.
Sweep(s) ==
    LET due == {r \in Replies : row[r].state = "failed" /\ row[r].due}
    IN  /\ todo[s] = {} /\ ~Busy(s)
        /\ due # {}
        /\ todo' = [todo EXCEPT ![s] = due]
        /\ UNCHANGED <<row, turn, waiting, flights, manual, crashes, arrived>>

\* The sweep comes to a reply of its list, which may be out of date: it is
\* attempted if it can still be claimed.
SweepNext(s, r) ==
    /\ r \in todo[s] /\ ~Busy(s)
    /\ todo' = [todo EXCEPT ![s] = @ \ {r}]
    /\ IF CanClaim(r, s) THEN Claim(r, s) ELSE UNCHANGED <<row, flights>>
    /\ UNCHANGED <<turn, waiting, manual, crashes, arrived>>

-----------------------------------------------------------------------------
(* A person; the host                                                      *)

Resend(r) ==
    /\ manual < MaxManual
    /\ CanClaim(r, "manual")
    /\ Claim(r, "manual")
    /\ manual' = manual + 1
    /\ UNCHANGED <<turn, waiting, todo, crashes, arrived>>

\* markDelivered, also while a send of the reply is under way.
MarkDelivered(r) ==
    /\ row[r].state \notin {"none", "delivered"}
    /\ row' = [row EXCEPT ![r] = Row("delivered", @.attempts, FALSE)]
    /\ turn' = Marked(r, TRUE)
    /\ UNCHANGED <<waiting, flights, todo, manual, crashes, arrived>>

\* Mutant: the sends a restart cut off are left as they are.
MutantRestartForgets ==
    /\ crashes < MaxCrashes /\ crashes' = crashes + 1
    /\ arrived' = arrived \cup {f.reply : f \in flights}
    /\ flights' = {}
    /\ waiting' = {}
    /\ todo' = [s \in Sweeps |-> {}]
    /\ UNCHANGED <<row, turn, manual>>

\* The host stops and starts: what was in memory is gone, and the sends that
\* were cut off are unknown and fail their turns (settleInterruptedDeliveries).
Restart ==
    LET cut == {r \in Replies : row[r].state = "sending"}
    IN  /\ crashes < MaxCrashes /\ crashes' = crashes + 1
        /\ arrived' = arrived \cup {f.reply : f \in flights}
        /\ row' = [r \in Replies |->
                     IF r \in cut THEN Row("unknown", row[r].attempts, FALSE)
                     ELSE row[r]]
        /\ turn' = [r \in Replies |->
                      IF r \in cut /\ turn[r] = "succeeded" THEN "undelivered"
                      ELSE turn[r]]
        /\ flights' = {}
        /\ waiting' = {}
        /\ todo' = [s \in Sweeps |-> {}]
        /\ UNCHANGED manual

Next ==
    \/ \E r \in Replies : Deliver(r) \/ Due(r) \/ Resend(r) \/ MarkDelivered(r)
    \/ \E f \in flights : SendEnds(f)
    \/ \E s \in Sweeps : Sweep(s) \/ \E r \in Replies : SweepNext(s, r)
    \/ Restart

Spec == Init /\ [][Next]_vars

Kinds == {"first", "manual"} \cup Sweeps

\* A send has a timeout, time passes, and the interval starts a sweep again
\* and again; a person is not forced to do anything.
FairSpec ==
    /\ Spec
    /\ \A r \in Replies : WF_vars(Due(r))
    /\ \A r \in Replies, k \in Kinds :
          WF_vars(SendEnds([reply |-> r, kind |-> k]))
    /\ \A s \in Sweeps :
          /\ WF_vars(Sweep(s))
          /\ \A r \in Replies : WF_vars(SweepNext(s, r))

-----------------------------------------------------------------------------
(* Properties                                                              *)

\* Rows, turns and sends are in states the code knows.
TypeOK ==
    /\ row \in [Replies -> [state : States, attempts : Nat, retry : BOOLEAN,
                            due : BOOLEAN]]
    /\ turn \in [Replies -> {"succeeded", "undelivered", "cancelled"}]
    /\ waiting \subseteq Replies
    /\ flights \subseteq [reply : Replies, kind : Kinds]
    /\ todo \in [Sweeps -> SUBSET Replies]
    /\ manual \in 0..MaxManual
    /\ crashes \in 0..MaxCrashes
    /\ arrived \subseteq Replies

\* However sweeps, timers, resends and restarts overlap, a reply has at most
\* one send under way, and a row that says "sending" has exactly one.
SingleFlight ==
    \A r \in Replies :
        LET n == Cardinality({f \in flights : f.reply = r})
        IN  /\ n <= 1
            /\ row[r].state = "sending" => n = 1

\* The turn says what became of a reply that has a row: a delivered reply has
\* not failed its turn, and one that is neither delivered nor tried again has.
MarkerAgrees ==
    \A r \in Replies :
        /\ row[r].state = "delivered" => turn[r] # "undelivered"
        /\ row[r].state \in {"failed", "unknown"} /\ ~row[r].retry
             => turn[r] # "succeeded"

\* A reply that may have arrived is not sent again by itself: an automatic
\* attempt only starts when every earlier one is known to have failed.
NeverResentUnasked ==
    [][\A f \in flights' \ flights :
          f.kind # "manual" => f.reply \notin arrived]_vars

\* A reply is not attempted more often than the waits allow and a person asks
\* for, whatever lists the sweeps still hold.
AttemptsBounded == \A r \in Replies : row[r].attempts <= Backoffs + 1 + manual

\* Every reply that is being sent comes to rest: delivered, or with a failed
\* turn that a person can see.
DeliverySettles ==
    \A r \in Replies :
        row[r].state # "none" ~>
            \/ row[r].state = "delivered"
            \/ row[r].state \in {"failed", "unknown"} /\ ~row[r].retry
=============================================================================
