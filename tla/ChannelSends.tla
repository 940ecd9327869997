---------------------------- MODULE ChannelSends ----------------------------
(***************************************************************************)
(* The ledger of channel sends (src/channels/ledger.ts): a record per      *)
(* operation key, written to a file before the provider is called, so that *)
(* a retried tool call or a resumed stage does not send twice.             *)
(*                                                                         *)
(* send runs to its first await in one action, which calls the provider;   *)
(* the answer is another.  Every write of the file may fail, and the host  *)
(* may stop at any time.  The provider is external.                        *)
(***************************************************************************)
EXTENDS Integers, FiniteSets

CONSTANTS
    Callers,     \* calls of send
    Keys,        \* connection and operation key
    KeyOf,       \* the key of a call
    HashOf,      \* the hash of the message of a call
    MaxRecords,  \* MAX_RECORDS
    MaxRestarts, \* bound: restarts of the host
    None

ASSUME SendsAssumption ==
    /\ KeyOf \in [Callers -> Keys]
    /\ IsFiniteSet(Keys)
    /\ MaxRecords \in Nat
    /\ MaxRestarts \in Nat

VARIABLES
    records,    \* the records in memory
    file,       \* the records in the file
    active,     \* keys whose submission is under way
    call,       \* what became of each call
    accepting,
    restarts,
    sent,       \* history: times the provider was called for a key
    took,       \* history: keys whose message the provider may have taken
    dropped     \* history: keys whose record was dropped by its age

ledgerVars == <<records, file, active, call, accepting, restarts, sent, took, dropped>>
history == <<sent, took, dropped>>

Hashes == {HashOf[c] : c \in Callers}
RecordStates == {"none", "pending", "submitted", "failed", "unknown"}

\* old: the record is past the retention time.
Record(s, h) == [state |-> s, hash |-> h, old |-> FALSE]
Absent == Record("none", None)

LedgerInit ==
    /\ records = [k \in Keys |-> Absent]
    /\ file = [k \in Keys |-> Absent]
    /\ active = {}
    /\ call = [c \in Callers |-> "idle"]
    /\ accepting = TRUE
    /\ restarts = 0
    /\ sent = [k \in Keys |-> 0]
    /\ took = {}
    /\ dropped = {}

-----------------------------------------------------------------------------
(* send                                                                    *)

\* The records a new send drops: those past their time with a known outcome.
Prunable(k) == records[k].old /\ records[k].state \in {"submitted", "failed"}

\* What send answers for a record whose submission is over.
Outcome(k) ==
    CASE records[k].state = "submitted" -> "receipt"
      [] records[k].state = "failed"    -> "failed"
      [] OTHER                          -> "unknown"

\* What send answers when the key has a record; a submission under way is
\* shared.
Answer(c) ==
    IF records[KeyOf[c]].hash # HashOf[c] THEN "conflict"
    ELSE IF KeyOf[c] \in active THEN "waiting"
    ELSE Outcome(KeyOf[c])

\* A call that finds a record, or is refused.
SendKnown(c) ==
    /\ call[c] = "idle"
    /\ ~accepting \/ records[KeyOf[c]].state # "none"
    /\ call' = [call EXCEPT ![c] = IF accepting THEN Answer(c) ELSE "refused"]
    /\ UNCHANGED <<records, file, active, accepting, restarts, history>>

\* The record is written and the provider called; when it cannot be written
\* the call fails, and the record stays in memory.
Submit(c, kept) ==
    LET k   == KeyOf[c]
        new == [kept EXCEPT ![k] = Record("pending", HashOf[c])]
    IN  /\ records' = new
        /\ \/ /\ file' = new
              /\ active' = active \cup {k}
              /\ call' = [call EXCEPT ![c] = "waiting"]
              /\ sent' = [sent EXCEPT ![k] = @ + 1]
           \/ /\ call' = [call EXCEPT ![c] = "refused"]
              /\ UNCHANGED <<file, active, sent>>

\* A call whose key has no record; a full ledger refuses it.
SendNew(c) ==
    LET old  == {k \in Keys : Prunable(k)}
        kept == [k \in Keys |-> IF k \in old THEN Absent ELSE records[k]]
    IN  /\ call[c] = "idle"
        /\ accepting
        /\ records[KeyOf[c]].state = "none"
        /\ IF Cardinality({k \in Keys : kept[k].state # "none"}) >= MaxRecords
           THEN /\ records' = kept
                /\ call' = [call EXCEPT ![c] = "refused"]
                /\ UNCHANGED <<file, active, sent>>
           ELSE Submit(c, kept)
        /\ dropped' = dropped \cup old
        /\ UNCHANGED <<accepting, restarts, took>>

\* The calls that share the submission of k get its result.
Returned(k, result) ==
    [c \in Callers |-> IF call[c] = "waiting" /\ KeyOf[c] = k THEN result
                       ELSE call[c]]

\* The provider took the message; the receipt counts even when it cannot be
\* written.
Submitted(k) ==
    /\ records' = [records EXCEPT ![k].state = "submitted"]
    /\ file' \in {records', file}
    /\ call' = Returned(k, "receipt")
    /\ took' = took \cup {k}

\* The provider refused the message.  If that cannot be written the outcome is
\* unknown, because after a restart it will be.
Refused(k) ==
    /\ \/ /\ records' = [records EXCEPT ![k].state = "failed"]
          /\ file' = records'
          /\ call' = Returned(k, "failed")
       \/ /\ records' = [records EXCEPT ![k].state = "unknown"]
          /\ call' = Returned(k, "unknown")
          /\ UNCHANGED file
    /\ UNCHANGED took

\* Mutant: an error without a code counts as a failure.
MutantLostIsFailed(k) ==
    /\ records' = [records EXCEPT ![k].state = "failed"]
    /\ file' \in {records', file}
    /\ call' = Returned(k, "failed")
    /\ took' \in {took, took \cup {k}}

\* The answer of the provider was lost, and the message may have been taken.
Lost(k) ==
    /\ records' = [records EXCEPT ![k].state = "unknown"]
    /\ file' \in {records', file}
    /\ call' = Returned(k, "unknown")
    /\ took' \in {took, took \cup {k}}

\* The answer of the provider.
SubmitEnds(k) ==
    /\ k \in active
    /\ active' = active \ {k}
    /\ Submitted(k) \/ Refused(k) \/ Lost(k)
    /\ UNCHANGED <<accepting, restarts, sent, dropped>>

-----------------------------------------------------------------------------
(* Time, release and restart                                               *)

\* A record passes the retention time.
Age(k) ==
    /\ records[k].state # "none" /\ ~records[k].old
    /\ records' = [records EXCEPT ![k].old = TRUE]
    /\ file' = [file EXCEPT ![k].old = file[k].state # "none"]
    /\ UNCHANGED <<active, call, accepting, restarts, history>>

\* Mutant: a pending record of the file is taken for one that never started.
MutantLoadForgets ==
    [k \in Keys |-> IF file[k].state = "pending" THEN Absent ELSE file[k]]

\* The constructor: a pending record that survived is an uncertain outcome.
Loaded ==
    [k \in Keys |-> IF file[k].state = "pending"
                    THEN [file[k] EXCEPT !.state = "unknown"] ELSE file[k]]

\* releaseChannelHost: nothing new is accepted, what is under way is awaited,
\* and the next use of the connection reads the file again.
Release ==
    /\ accepting
    /\ accepting' = FALSE
    /\ UNCHANGED <<records, file, active, call, restarts, history>>

Reopen ==
    /\ ~accepting /\ active = {}
    /\ accepting' = TRUE
    /\ records' = Loaded
    /\ UNCHANGED <<file, active, call, restarts, history>>

\* The host stops and starts; a submission that was under way may be taken.
LedgerRestart ==
    /\ restarts < MaxRestarts /\ restarts' = restarts + 1
    /\ records' = Loaded
    /\ \E K \in SUBSET active : took' = took \cup K
    /\ active' = {}
    /\ call' = [c \in Callers |-> IF call[c] = "waiting" THEN "gone" ELSE call[c]]
    /\ accepting' = TRUE
    /\ UNCHANGED <<file, sent, dropped>>

LedgerNext ==
    \/ \E c \in Callers : SendKnown(c) \/ SendNew(c)
    \/ \E k \in Keys : SubmitEnds(k) \/ Age(k)
    \/ Release \/ Reopen \/ LedgerRestart

LedgerSpec == LedgerInit /\ [][LedgerNext]_ledgerVars

-----------------------------------------------------------------------------
(* Properties                                                              *)

RecordType == [state : RecordStates, hash : Hashes \cup {None}, old : BOOLEAN]

\* The records and the calls are in states the code knows.
LedgerTypeOK ==
    /\ records \in [Keys -> RecordType]
    /\ file \in [Keys -> RecordType]
    /\ active \subseteq Keys
    /\ call \in [Callers -> {"idle", "waiting", "receipt", "failed", "unknown",
                             "conflict", "refused", "gone"}]
    /\ accepting \in BOOLEAN
    /\ restarts \in 0..MaxRestarts
    /\ sent \in [Keys -> Nat]
    /\ took \subseteq Keys
    /\ dropped \subseteq Keys

\* The provider is called at most once for a key while its record is kept:
\* not again by a retried call, a call that overlaps, or after a restart.
AtMostOnce == \A k \in Keys \ dropped : sent[k] <= 1

\* A caller is told what happened: a receipt only for a message that was
\* taken, and a definite failure, which it may retry under a new key, only for
\* one that was not.
AnswersAreTrue ==
    \A c \in Callers :
        KeyOf[c] \notin dropped =>
            /\ call[c] = "receipt" => KeyOf[c] \in took
            /\ call[c] = "failed" => KeyOf[c] \notin took

\* A submission under way is on record in the file, so that a restart cannot
\* forget it.
WrittenAhead ==
    \A k \in active : file[k].state = "pending" /\ records[k].state = "pending"
=============================================================================
