----------------------------- MODULE AgentTurns -----------------------------
(***************************************************************************)
(* The turns of one agent session and the approvals they ask for:          *)
(* src/agents/turnLifecycle.ts, approvalBroker.ts, chatTurn.ts, the turn   *)
(* half of sessions.ts and the exclusive sections of service.ts.           *)
(*                                                                         *)
(* AgentService serialises its work per project, so an exclusive section   *)
(* is one action; what a conversation does between two of them is another. *)
(* The first turn, which opens the session, waits in the chain of its      *)
(* agent, every later one in the chain of the session: the two are not     *)
(* serialised with each other.                                             *)
(***************************************************************************)
EXTENDS Integers, Sequences, SequencesExt, FiniteSets, FiniteSetsExt

CONSTANTS
    Turns,
    Opener,        \* the turn that opens the session
    Tools,         \* ask-first tools
    Payloads,      \* arguments of their calls, as their hash tells them apart
    MaxCalls,      \* bound: ask-first calls of all turns
    MaxApprovals,  \* bound: approval rows
    MaxCrashes,    \* bound: restarts of the host
    MaxSwitches,   \* bound: times the agent is switched on or off
    None

ASSUME TurnsAssumption ==
    /\ Opener \in Turns
    /\ None \notin Turns
    /\ {MaxCalls, MaxApprovals, MaxCrashes, MaxSwitches} \subseteq Nat

VARIABLES
    session,     \* status of the session row
    turn,        \* status of each turn row
    approvals,   \* the approval rows, oldest first
    executed,    \* the payloads approved for the session, whatever the tool
    enabled,     \* the agent is enabled
    conv,        \* the conversation of each turn, in memory
    chain,       \* the turns sent to the session, the running one first
    registered,  \* activeBySession: the conversation that stop reaches
    calls,       \* ask-first calls made
    crashes,     \* restarts of the host
    switches     \* times the agent was switched on or off

rows == <<session, turn, approvals, executed>>
vars == <<session, turn, approvals, executed, enabled, conv, chain,
          registered, calls, crashes, switches>>

counts == <<calls, crashes, switches>>

\* An undelivered turn is stored as failed with agent.reply_undelivered.
TerminalTurn == {"succeeded", "failed", "cancelled", "undelivered"}
ActiveTurn == {"running", "waiting"}
Outcomes == {"approved", "denied", "expired", "aborted"}
Stages == {"idle", "queued", "starting", "thinking", "requested", "parked",
           "woken", "tool", "ending", "leaving", "over"}

\* at: progress; tool, payload: the gated call; ask: the row it waits on;
\* outcome: what the wait returned; aborted: its abort signal.
Idle == [at |-> "idle", tool |-> None, payload |-> None, ask |-> 0,
         outcome |-> None, aborted |-> FALSE]

Init ==
    /\ session = "none"
    /\ turn = [t \in Turns |-> "none"]
    /\ approvals = << >>
    /\ executed = {}
    /\ enabled = TRUE
    /\ conv = [t \in Turns |-> Idle]
    /\ chain = << >>
    /\ registered = None
    /\ calls = 0 /\ crashes = 0 /\ switches = 0

\* The rows that wait for a person; a due one has passed its deadline.
Pending == {a \in DOMAIN approvals : approvals[a].status = "pending"}
Due == {a \in Pending : approvals[a].due}

\* Mutant: the update does not ask for a pending row.
MutantDecidedAnyway(A, s) ==
    [a \in DOMAIN approvals |->
        IF a \in A THEN [approvals[a] EXCEPT !.status = s, !.due = FALSE]
        ELSE approvals[a]]

\* The rows of A get status s, if they are still pending; the deadline of a
\* decided row is of no more interest.
Decided(A, s) ==
    [a \in DOMAIN approvals |->
        IF a \in A \cap Pending
        THEN [approvals[a] EXCEPT !.status = s, !.due = FALSE]
        ELSE approvals[a]]

\* The conversations after the broker has settled the approvals A as s: only
\* those that wait on one at that moment hear of it.
Settled(A, s) ==
    [t \in Turns |->
        IF conv[t].at = "parked" /\ conv[t].ask \in A
        THEN [conv[t] EXCEPT !.at = "woken", !.outcome = s] ELSE conv[t]]

-----------------------------------------------------------------------------
(* Sending a message: the chains of AgentChatController                    *)

\* The first message opens the session; stop reaches its conversation from
\* then on.
OpenSession ==
    /\ session = "none" /\ enabled
    /\ conv[Opener].at = "idle"
    /\ session' = "open"
    /\ conv' = [conv EXCEPT ![Opener].at = "starting"]
    /\ registered' = Opener
    /\ UNCHANGED <<turn, approvals, executed, enabled, chain, counts>>

Send(t) ==
    /\ session # "none" /\ t # Opener
    /\ conv[t].at = "idle"
    /\ conv' = [conv EXCEPT ![t].at = "queued"]
    /\ chain' = Append(chain, t)
    /\ UNCHANGED <<rows, enabled, registered, counts>>

\* The turn at the head of the chain gets its conversation, which replaces
\* the one stop reached so far.
Start(t) ==
    /\ chain # << >> /\ Head(chain) = t
    /\ conv[t].at = "queued"
    /\ conv' = [conv EXCEPT ![t].at = "starting"]
    /\ registered' = t
    /\ UNCHANGED <<rows, enabled, chain, counts>>

\* The finally of send.
Leave(t) ==
    /\ conv[t].at = "leaving"
    /\ conv' = [conv EXCEPT ![t] = [Idle EXCEPT !.at = "over"]]
    /\ chain' = IF t = Opener THEN chain ELSE Tail(chain)
    /\ registered' = IF registered = t THEN None ELSE registered
    /\ UNCHANGED <<rows, enabled, counts>>

\* What an abort does to a conversation: its wait, if it is in one, ends.
Aborted(c) ==
    IF c.at = "parked"
    THEN [c EXCEPT !.aborted = TRUE, !.at = "woken", !.outcome = "aborted"]
    ELSE [c EXCEPT !.aborted = TRUE]

\* stop(sessionId), and stopOpening for the turn that opens the session.
Stop(t) ==
    /\ t \in {registered, Opener}
    /\ conv[t].at \notin {"idle", "queued", "over"}
    /\ ~conv[t].aborted
    /\ conv' = [conv EXCEPT ![t] = Aborted(@)]
    /\ UNCHANGED <<rows, enabled, chain, registered, counts>>

-----------------------------------------------------------------------------
(* A turn                                                                  *)

\* beginTurn: refused while the agent is disabled, the session is busy or a
\* limit is reached.
BeginTurn(t) ==
    /\ conv[t].at = "starting"
    /\ enabled
    /\ session = "open"
    /\ turn' = [turn EXCEPT ![t] = "running"]
    /\ session' = "running"
    /\ conv' = [conv EXCEPT ![t].at = "thinking"]
    /\ UNCHANGED <<approvals, executed, enabled, chain, registered, counts>>

BeginRefused(t) ==
    /\ conv[t].at = "starting"
    /\ conv' = [conv EXCEPT ![t].at = "leaving"]
    /\ UNCHANGED <<rows, enabled, chain, registered, counts>>

\* lifecycle.finish: the outcome, the approvals of the turn and the session
\* change together.
Finish(t, s) ==
    LET open == {a \in Pending : approvals[a].turn = t}
    IN  /\ turn' = [turn EXCEPT ![t] = s]
        /\ approvals' = Decided(open, "expired")
        /\ session' = "open"
        /\ conv' = [Settled(open, "expired") EXCEPT ![t].at = "leaving"]

\* completeTurn, once the model has answered, failed or was stopped.  An
\* expiry that the agent's settings treat as a denial fails the turn.
CompleteTurn(t) ==
    LET stopped == conv[t].at = "ending" /\ conv[t].outcome = "expired"
    IN  /\ conv[t].at \in {"thinking", "ending"}
        /\ \/ Finish(t, "failed")
           \/ ~stopped /\ Finish(t, IF conv[t].aborted THEN "cancelled"
                                     ELSE "succeeded")
        /\ UNCHANGED <<executed, enabled, chain, registered, counts>>

-----------------------------------------------------------------------------
(* The approvals                                                           *)

\* The state after lifecycle.expireDue, which every read of the sessions and
\* approvals runs first.
Expired ==
    [approvals |-> Decided(Due, "expired"),
     conv      |-> Settled(Due, "expired"),
     session   |-> IF Due # {} /\ session = "waiting" THEN "open" ELSE session]

\* A read of a session, or of the approvals that are pending.
ExpireDue ==
    /\ Due # {}
    /\ approvals' = Expired.approvals
    /\ conv' = Expired.conv
    /\ session' = Expired.session
    /\ UNCHANGED <<turn, executed, enabled, chain, registered, counts>>

\* The deadline of an approval passes.
Deadline(a) ==
    /\ a \in Pending \ Due
    /\ approvals' = [approvals EXCEPT ![a].due = TRUE]
    /\ UNCHANGED <<session, turn, executed, enabled, conv, chain, registered,
                   counts>>

\* A new row for a call of turn t, and the session that waits on it.
NewRow(t, g, p, st) ==
    /\ Len(approvals) < MaxApprovals
    /\ approvals' = Append(st.approvals, [turn |-> t, tool |-> g, payload |-> p,
                                          status |-> "pending", due |-> FALSE])
    /\ session' = "waiting"
    /\ conv' = [st.conv EXCEPT ![t].at = "requested",
                               ![t].ask = Len(approvals) + 1]

\* Mutant: a call that was approved before is asked about again.
MutantAskAgain(t, g, p, st) == NewRow(t, g, p, st)

\* The row that stands for a call of tool g with payload p: the last one of a
\* payload that was approved before, for this tool or another; the pending one,
\* if it is for the same tool too; or a new one.
RowFor(t, g, p, st) ==
    LET same    == {a \in DOMAIN approvals : approvals[a].payload = p}
        pending == Pending \ Due
        old     == IF p \in executed THEN {Max(same)}
                   ELSE {a \in pending \cap same : approvals[a].tool = g}
    IN  \/ /\ \E a \in old :
              conv' = [st.conv EXCEPT ![t].ask = a, ![t].at =
                         IF approvals[a].status = "approved" THEN "tool"
                         ELSE "requested"]
           /\ approvals' = st.approvals
           /\ session' = st.session
        \/ old = {} /\ pending = {} /\ NewRow(t, g, p, st)

\* requestApproval for a call of turn t.  While the agent is disabled or
\* another call's approval is pending the call is refused: the model is told,
\* or its turn fails.
RequestApproval(t, g, p) ==
    LET st    == [Expired EXCEPT !.conv[t].tool = g, !.conv[t].payload = p]
        other == {a \in Pending \ Due :
                     approvals[a].tool # g \/ approvals[a].payload # p}
    IN  /\ conv[t].at = "thinking"
        /\ calls < MaxCalls /\ calls' = calls + 1
        /\ \/ enabled /\ RowFor(t, g, p, st)
           \/ /\ ~enabled \/ (p \notin executed /\ other # {})
              /\ \E s \in {"thinking", "ending"} :
                    conv' = [st.conv EXCEPT ![t].at = s, ![t].tool = None,
                                            ![t].payload = None]
              /\ approvals' = st.approvals
              /\ session' = st.session
        /\ UNCHANGED <<turn, executed, enabled, chain, registered, crashes,
                       switches>>

\* Mutant: a call whose approval expired is not skipped but runs.
MutantExpiryApproves(t, outcome) ==
    conv' = [conv EXCEPT ![t].at = IF outcome \in {"approved", "expired"}
                                   THEN "tool" ELSE "ending"]

\* What the gate answers for an outcome: the call runs, the turn is stopped,
\* or the model goes on without it.  Whether an expiry stops the turn is a
\* setting of the agent.
Answer(t, outcome) ==
    \E s \in CASE outcome = "approved" -> {"tool"}
              [] outcome = "denied"   -> {"thinking"}
              [] outcome = "expired"  -> {"thinking", "ending"}
              [] outcome = "aborted"  -> {"ending"} :
        conv' = [conv EXCEPT ![t].at = s,
                             ![t].outcome = IF s = "ending" THEN outcome ELSE None,
                             ![t].ask = IF s = "tool" THEN @ ELSE 0,
                             ![t].tool = IF s = "tool" THEN @ ELSE None,
                             ![t].payload = IF s = "tool" THEN @ ELSE None]

\* Mutant: the turn parks without a second look at its approval.
MutantParkBlindly(t) ==
    /\ conv[t].at = "requested"
    /\ turn' = [turn EXCEPT ![t] = "waiting"]
    /\ session' = "waiting"
    /\ conv' = [conv EXCEPT ![t] = LET c == [@ EXCEPT !.at = "parked"]
                                   IN  IF c.aborted THEN Aborted(c) ELSE c]
    /\ UNCHANGED <<approvals, executed, enabled, chain, registered, counts>>

\* waitOnApproval and the entry of broker.wait.  lifecycle.wait refuses a turn
\* that is not running and answers with a decision that has come already;
\* otherwise the turn parks, and an abort that came first ends the wait.
WaitOnApproval(t) ==
    LET status == approvals[conv[t].ask].status
    IN  /\ conv[t].at = "requested"
        /\ \/ /\ turn[t] # "running" \/ status # "pending"
              /\ Answer(t, IF turn[t] # "running" THEN "aborted" ELSE status)
              /\ UNCHANGED <<turn, session>>
           \/ /\ turn[t] = "running" /\ status = "pending"
              /\ turn' = [turn EXCEPT ![t] = "waiting"]
              /\ session' = "waiting"
              /\ conv' = [conv EXCEPT ![t] =
                            LET c == [@ EXCEPT !.at = "parked"]
                            IN  IF c.aborted THEN Aborted(c) ELSE c]
        /\ UNCHANGED <<approvals, executed, enabled, chain, registered, counts>>

\* The timer of a wait fires; the approvals that are due are expired then.
BrokerTimeout(t) ==
    /\ conv[t].at = "parked"
    /\ conv[t].ask \in Due
    /\ ExpireDue

\* resumeTurn after a wait that was answered.
ResumeTurn(t) ==
    /\ conv[t].at = "woken" /\ conv[t].outcome # "aborted"
    /\ IF turn[t] = "waiting"
       THEN turn' = [turn EXCEPT ![t] = "running"] /\ session' = "running"
       ELSE UNCHANGED <<turn, session>>
    /\ Answer(t, conv[t].outcome)
    /\ UNCHANGED <<approvals, executed, enabled, chain, registered, counts>>

\* Mutant: a stopped turn leaves its approval open.
MutantCloseNothing(t) ==
    /\ conv[t].at = "woken" /\ conv[t].outcome = "aborted"
    /\ conv' = [conv EXCEPT ![t].at = "ending", ![t].ask = 0, ![t].tool = None,
                            ![t].payload = None]
    /\ UNCHANGED <<rows, enabled, chain, registered, counts>>

\* closeApproval after a wait that was aborted; the turn stays waiting until
\* it is completed.
CloseApproval(t) ==
    LET a == conv[t].ask
        settled == Settled({a} \cap Pending, "expired")
    IN  /\ conv[t].at = "woken" /\ conv[t].outcome = "aborted"
        /\ approvals' = Decided({a}, "expired")
        /\ session' = IF session = "waiting" THEN "open" ELSE session
        /\ conv' = [settled EXCEPT ![t].at = "ending", ![t].ask = 0,
                                   ![t].tool = None, ![t].payload = None]
        /\ UNCHANGED <<turn, executed, enabled, chain, registered, counts>>

\* The approved call runs.
RunTool(t) ==
    /\ conv[t].at = "tool"
    /\ conv' = [conv EXCEPT ![t].at = "thinking", ![t].ask = 0, ![t].tool = None,
                            ![t].payload = None]
    /\ UNCHANGED <<rows, enabled, chain, registered, counts>>

\* decideApproval: a person decides the pending approval.  Past its deadline
\* it is expired instead, and one whose turn is over is closed.
Decide(a, s) ==
    /\ a \in Pending
    /\ IF a \in Due THEN ExpireDue
       ELSE /\ s = "approved" => enabled
            /\ IF turn[approvals[a].turn] \in TerminalTurn
               THEN /\ approvals' = Decided({a}, "expired")
                    /\ conv' = Settled({a}, "expired")
                    /\ UNCHANGED <<executed, session>>
               ELSE /\ approvals' = Decided({a}, s)
                    /\ conv' = Settled({a}, s)
                    /\ executed' = IF s = "approved"
                                   THEN executed \cup {approvals[a].payload}
                                   ELSE executed
                    /\ session' = "open"
            /\ UNCHANGED <<turn, enabled, chain, registered, counts>>

-----------------------------------------------------------------------------
(* What became of the reply of a turn                                      *)

\* replyDelivery: a reply that does not arrive, or may not have before a
\* restart, marks a succeeded turn, and one that arrives after all takes the
\* mark away.
ReplyDelivery(t, delivered) ==
    /\ turn[t] = IF delivered THEN "undelivered" ELSE "succeeded"
    /\ turn' = [turn EXCEPT ![t] = IF delivered THEN "succeeded" ELSE "undelivered"]
    /\ UNCHANGED <<session, approvals, executed, enabled, conv, chain, registered,
                   counts>>

-----------------------------------------------------------------------------
(* The agent is switched on and off; the host restarts                     *)

SetEnabled ==
    /\ switches < MaxSwitches /\ switches' = switches + 1
    /\ enabled' = ~enabled
    /\ UNCHANGED <<rows, conv, chain, registered, calls, crashes>>

\* The host stops and starts: interruptedByRestart fails the turns nothing can
\* resume and closes what was pending.
Restart ==
    /\ crashes < MaxCrashes /\ crashes' = crashes + 1
    /\ turn' = [t \in Turns |-> IF turn[t] \in ActiveTurn THEN "failed" ELSE turn[t]]
    /\ session' = IF session = "none" THEN "none" ELSE "open"
    /\ approvals' = Decided(Pending, "expired")
    /\ conv' = [t \in Turns |-> IF conv[t].at = "idle" THEN conv[t]
                                ELSE [Idle EXCEPT !.at = "over"]]
    /\ chain' = << >>
    /\ registered' = None
    /\ UNCHANGED <<executed, enabled, calls, switches>>

Next ==
    \/ OpenSession \/ ExpireDue \/ SetEnabled \/ Restart
    \/ \E t \in Turns :
          \/ Send(t) \/ Start(t) \/ Leave(t) \/ Stop(t)
          \/ BeginTurn(t) \/ BeginRefused(t) \/ CompleteTurn(t)
          \/ WaitOnApproval(t) \/ BrokerTimeout(t) \/ ResumeTurn(t)
          \/ CloseApproval(t) \/ RunTool(t)
          \/ \E delivered \in BOOLEAN : ReplyDelivery(t, delivered)
          \/ \E g \in Tools, p \in Payloads : RequestApproval(t, g, p)
    \/ \E a \in DOMAIN approvals :
          Deadline(a) \/ \E s \in {"approved", "denied"} : Decide(a, s)

Spec == Init /\ [][Next]_vars

\* The event loop runs what is due, a model call ends (it has a stall
\* timeout), and time passes.  Nobody is forced to decide, to stop or to send.
FairSpec ==
    /\ Spec
    /\ \A t \in Turns :
          /\ WF_vars(Start(t)) /\ WF_vars(Leave(t))
          /\ WF_vars(BeginTurn(t) \/ BeginRefused(t))
          /\ WF_vars(CompleteTurn(t)) /\ WF_vars(RunTool(t))
          /\ WF_vars(WaitOnApproval(t)) /\ WF_vars(BrokerTimeout(t))
          /\ WF_vars(ResumeTurn(t)) /\ WF_vars(CloseApproval(t))
    /\ \A a \in 1..MaxApprovals :
          WF_vars(a \in DOMAIN approvals /\ Deadline(a))

-----------------------------------------------------------------------------
(* Properties                                                              *)

\* The rows and the conversations are in states the code knows.
TypeOK ==
    /\ session \in {"none", "open"} \cup ActiveTurn
    /\ turn \in [Turns -> {"none"} \cup ActiveTurn \cup TerminalTurn]
    /\ approvals \in Seq([turn : Turns, tool : Tools, payload : Payloads,
                          due : BOOLEAN,
                          status : {"pending", "approved", "denied", "expired"}])
    /\ executed \subseteq Payloads
    /\ enabled \in BOOLEAN
    /\ conv \in [Turns -> [at : Stages, tool : Tools \cup {None},
                           payload : Payloads \cup {None},
                           ask : 0..Len(approvals), outcome : Outcomes \cup {None},
                           aborted : BOOLEAN]]
    /\ chain \in Seq(Turns)
    /\ registered \in Turns \cup {None}
    /\ calls \in 0..MaxCalls
    /\ crashes \in 0..MaxCrashes
    /\ switches \in 0..MaxSwitches

\* An ask-first tool only runs with arguments that a person approved in the
\* session: the row the gate went by is approved, and for those arguments.  It
\* need not be a row of the tool that runs: the lookup compares a hash of the
\* arguments alone, although an identical call is said to be the "same tool,
\* same arguments" (docs/agent-runtime.md:99).
ToolWasApproved ==
    \A t \in Turns :
        conv[t].at = "tool" =>
            /\ approvals[conv[t].ask].status = "approved"
            /\ approvals[conv[t].ask].payload = conv[t].payload

\* Only one approval is pending, and it can still be acted upon: the turn that
\* raised it goes on, and its conversation is about to wait on it, waits on it
\* or is about to close it.  (A stopped turn cannot leave an approval pending.)
PendingIsAwaited ==
    /\ Cardinality(Pending) <= 1
    /\ \A a \in Pending :
          LET t == approvals[a].turn
          IN  /\ turn[t] \in ActiveTurn
              /\ conv[t].ask = a
              /\ conv[t].at \in {"requested", "parked", "woken"}

\* A payload approved for the session finds an approved row, although the
\* lookup takes the newest row of that payload.
ApprovedStaysApproved ==
    \A p \in executed :
        \E a \in DOMAIN approvals :
            /\ approvals[a].payload = p /\ approvals[a].status = "approved"
            /\ \A b \in DOMAIN approvals : b > a => approvals[b].payload # p

\* What is decided is final: a turn that failed or was cancelled keeps its
\* status, one that succeeded only exchanges it with the mark of an undelivered
\* reply, and a decided approval is never decided again.
FinalStaysFinal ==
    [][/\ \A t \in Turns :
             /\ turn[t] \in {"failed", "cancelled"} => turn'[t] = turn[t]
             /\ turn[t] \in {"succeeded", "undelivered"} =>
                    turn'[t] \in {"succeeded", "undelivered"}
       /\ \A a \in DOMAIN approvals \ Pending :
             approvals'[a].status = approvals[a].status]_vars

\* A turn that began ends, whether or not anybody decides.
TurnEnds == \A t \in Turns : turn[t] = "running" ~> turn[t] \in TerminalTurn

\* "Turns on one session run one at a time": no second turn begins while one
\* is running or waiting.
OneActiveTurn == Cardinality({t \in Turns : turn[t] \in ActiveTurn}) <= 1
=============================================================================
