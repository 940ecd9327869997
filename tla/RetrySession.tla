---------------------------- MODULE RetrySession ----------------------------
(***************************************************************************)
(* Retries of the stages of one run: the requests (retryStageInternal of   *)
(* src/runtime/runManager.ts and retryStage of runRetryCoordinator.ts),    *)
(* the session they share, and the part of the orchestration loop that     *)
(* serves it (src/runtime/pipelineScheduler.ts).                           *)
(*                                                                         *)
(* The stages are independent of each other: the order that dependencies   *)
(* impose, and the limit on active stages, are those of PipelineScheduler. *)
(* The run has ended and no loop of its start is left.  An action is the   *)
(* code between two awaits; a wait may also end by its timeout.  Manual    *)
(* recovery, automatic repair, feedback loops and clones are not modelled. *)
(***************************************************************************)
EXTENDS Naturals

CONSTANTS
    Stages,
    Calls,     \* requests to retry
    StagesOf,  \* the stages that a request may be for
    Awaiting,  \* requests that wait for the end of their stage
    Asking,    \* stages that may stop to wait for input
    NoStage

ASSUME RetryAssumption ==
    /\ StagesOf \in [Calls -> SUBSET Stages]
    /\ Awaiting \subseteq Calls /\ Asking \subseteq Stages
    /\ NoStage \notin Stages

VARIABLES
    pc,        \* progress of each request
    stage,     \* the stage that it is for
    attempt,   \* the attempt that it made
    conflict,  \* it found the run tracked by somebody else
    inserted,  \* it tracked the run
    prior,     \* the run's status that it would restore, if it found no session
    inFlight,  \* retryInFlight: stages with a request
    owner,     \* retryStartOwner: the stage whose request starts the session
    tracked,   \* the run has an entry in active
    status,    \* the run's status
    attempts,  \* the number of attempts of each stage
    latest,    \* the status of the last of them
    phase,     \* of the session's loop
    roots,     \* activeRoots, the loop's retryRoots: the attempt of each root
    pending,   \* pendingDeltas
    terminal,  \* terminalRoots
    states,    \* the loop's states
    launched,  \* launchedIds
    runs,      \* the attempt that a stage's worker runs
    halted     \* schedulingHalted

rows == <<attempts, latest>>
request == <<stage, attempt, conflict, inserted, prior>>
manager == <<inFlight, owner, tracked, status>>
session == <<phase, roots, pending, terminal, states, launched, runs, halted>>
vars == <<pc, request, manager, rows, session>>

Nothing == [s \in Stages |-> 0]

Init ==
    /\ pc = [c \in Calls |-> "idle"]
    /\ stage = [c \in Calls |-> NoStage]
    /\ attempt = [c \in Calls |-> 0]
    /\ conflict = [c \in Calls |-> FALSE]
    /\ inserted = [c \in Calls |-> FALSE]
    /\ prior = [c \in Calls |-> "none"]
    /\ inFlight = {} /\ owner = NoStage /\ tracked = FALSE /\ status = "failed"
    /\ attempts = [s \in Stages |-> 1] /\ latest = [s \in Stages |-> "failed"]
    /\ phase = "none" /\ roots = Nothing /\ pending = {} /\ terminal = {}
    /\ states = [s \in Stages |-> "none"] /\ launched = {} /\ runs = Nothing
    /\ halted = FALSE

Active == phase # "none"
Busy == \E s \in Stages : latest[s] \in {"running", "waiting"}

-----------------------------------------------------------------------------
(* The end of a request                                                    *)

\* Those who waited for the session or for its owner look again.
Notified(f) == [c \in Calls |-> IF f[c] = "waiting" THEN "look" ELSE f[c]]

\* The request's own variables end with it.
Forgotten(c) ==
    /\ attempt' = [attempt EXCEPT ![c] = 0]
    /\ conflict' = [conflict EXCEPT ![c] = FALSE]
    /\ inserted' = [inserted EXCEPT ![c] = FALSE]
    /\ prior' = [prior EXCEPT ![c] = "none"]
    /\ UNCHANGED stage

\* Mutant: the owner is kept.
MutantKeepOwner(c, p) ==
    /\ pc' = [pc EXCEPT ![c] = p]
    /\ Forgotten(c)
    /\ inFlight' = IF p = "held" THEN inFlight ELSE inFlight \ {stage[c]}
    /\ UNCHANGED owner

\* A request that is answered while its session goes on holds its stage until
\* the session ends.
Return(c, p) ==
    /\ Forgotten(c)
    /\ inFlight' = IF p = "held" THEN inFlight ELSE inFlight \ {stage[c]}
    /\ IF owner = stage[c]
       THEN owner' = NoStage /\ pc' = Notified([pc EXCEPT ![c] = p])
       ELSE UNCHANGED owner /\ pc' = [pc EXCEPT ![c] = p]

\* rollbackStartTracking
Undo(c) ==
    /\ pc[c] = "undo"
    /\ tracked' = (tracked /\ ~inserted[c])
    /\ status' = IF prior[c] = "none" THEN status ELSE prior[c]
    /\ Return(c, "failed")
    /\ UNCHANGED <<rows, session>>

-----------------------------------------------------------------------------
(* A request, up to the session                                            *)

\* One request per stage; the first one is to start the session.
Enter(c) ==
    /\ pc[c] = "idle"
    /\ \E s \in StagesOf[c] :
         /\ stage' = [stage EXCEPT ![c] = s]
         /\ IF s \in inFlight
            THEN /\ pc' = [pc EXCEPT ![c] = "refused"]
                 /\ UNCHANGED <<inFlight, owner, conflict>>
            ELSE /\ inFlight' = inFlight \cup {s}
                 /\ conflict' = [conflict EXCEPT ![c] = tracked]
                 /\ owner' = IF Active \/ owner # NoStage THEN owner ELSE s
                 /\ pc' = [pc EXCEPT ![c] = IF Active THEN "check"
                                            ELSE IF owner = NoStage THEN "look"
                                            ELSE "waiting"]
    /\ UNCHANGED <<attempt, inserted, prior, tracked, status, rows, session>>

\* raceRetryRootTimeout
StopWaiting(c) ==
    /\ pc[c] = "waiting"
    /\ pc' = [pc EXCEPT ![c] = "look"]
    /\ UNCHANGED <<request, manager, rows, session>>

\* isStartRunWindingDown: no stage is busy and one failed, or none is left.
WindingDown ==
    /\ ~Busy
    /\ \/ \E s \in Stages : latest[s] = "failed"
       \/ \A s \in Stages : latest[s] # "pending"

Look(c) ==
    /\ pc[c] = "look"
    /\ conflict' = [conflict EXCEPT ![c] = tracked /\ ~Active /\ (WindingDown \/ Busy)]
    /\ pc' = [pc EXCEPT ![c] = "check"]
    /\ UNCHANGED <<stage, attempt, inserted, prior, manager, rows, session>>

\* stageRetryBlocker
Eligible(s) ==
    /\ status \in {"failed", "succeeded"} \/ (status = "running" /\ Active)
    /\ latest[s] \in {"failed", "succeeded"}

Check(c) ==
    /\ pc[c] = "check"
    /\ IF \/ ~Eligible(stage[c])
          \/ Active /\ roots[stage[c]] # 0
          \/ ~Active /\ conflict[c]
       THEN Return(c, "refused")
       ELSE /\ pc' = [pc EXCEPT ![c] = IF Active THEN "create" ELSE "track"]
            /\ prior' = [prior EXCEPT ![c] = IF Active THEN "none" ELSE status]
            /\ conflict' = [conflict EXCEPT ![c] = FALSE]
            /\ UNCHANGED <<stage, attempt, inserted, inFlight, owner>>
    /\ UNCHANGED <<tracked, status, rows, session>>

\* ensureResumeTracked, which fails when the checkout is another run's; then
\* the run is running.
Track(c) ==
    /\ pc[c] = "track"
    /\ \/ /\ inserted' = [inserted EXCEPT ![c] = ~tracked]
          /\ tracked' = TRUE
          /\ status' = "running"
          /\ pc' = [pc EXCEPT ![c] = "create"]
          /\ UNCHANGED <<stage, attempt, conflict, prior, inFlight, owner>>
       \/ ~tracked /\ Return(c, "refused") /\ UNCHANGED <<tracked, status>>
    /\ UNCHANGED <<rows, session>>

\* The attempt is created; what is loaded after it may fail.
Create(c) ==
    /\ pc[c] = "create"
    /\ attempts' = [attempts EXCEPT ![stage[c]] = @ + 1]
    /\ latest' = [latest EXCEPT ![stage[c]] = "pending"]
    /\ attempt' = [attempt EXCEPT ![c] = attempts[stage[c]] + 1]
    /\ \E p \in {"join", "undo"} : pc' = [pc EXCEPT ![c] = p]
    /\ UNCHANGED <<stage, conflict, inserted, prior, manager, session>>

\* addRoot: the attempt waits for the loop to take it over.
AddRoot(c) ==
    /\ pc[c] = "join" /\ Active
    /\ IF roots[stage[c]] # 0
       THEN pc' = [pc EXCEPT ![c] = "undo"] /\ UNCHANGED <<roots, pending>>
       ELSE /\ roots' = [roots EXCEPT ![stage[c]] = attempt[c]]
            /\ pending' = pending \cup {stage[c]}
            /\ pc' = [pc EXCEPT ![c] = "adding"]
    /\ UNCHANGED <<request, manager, rows, phase, terminal, states, launched, runs, halted>>

\* start, and the look at the new session's root.
Start(c) ==
    /\ pc[c] = "join" /\ ~Active
    /\ phase' = "hydrate"
    /\ roots' = [Nothing EXCEPT ![stage[c]] = attempt[c]]
    /\ pc' = Notified([pc EXCEPT ![c] = "added"])
    /\ UNCHANGED <<request, manager, rows, pending, terminal, states, launched, runs, halted>>

\* waitForRoot, for those who want to wait.
WaitForRoot(c) ==
    /\ pc[c] = "added"
    /\ IF c \notin Awaiting THEN Return(c, IF Active THEN "held" ELSE "ok")
       ELSE IF stage[c] \in terminal THEN Return(c, "ok")
       ELSE /\ pc' = [pc EXCEPT ![c] = IF roots[stage[c]] # 0 THEN "awaiting" ELSE "undo"]
            /\ UNCHANGED <<request, inFlight, owner>>
    /\ UNCHANGED <<tracked, status, rows, session>>

\* RetryRootWaitTimeoutError
WaitTimesOut(c) ==
    /\ pc[c] = "awaiting"
    /\ pc' = [pc EXCEPT ![c] = "undo"]
    /\ UNCHANGED <<request, manager, rows, session>>

Answer(c) ==
    /\ pc[c] = "answered"
    /\ Return(c, "ok")
    /\ UNCHANGED <<tracked, status, rows, session>>

-----------------------------------------------------------------------------
(* The session's loop                                                      *)

Terminal == {"succeeded", "failed", "skipped"}
AllTerminal == \A s \in Stages : states[s] \in Terminal

\* onRetryRootTerminal: the requests that wait for the roots S are answered.
Told(S, f) ==
    [c \in Calls |-> IF f[c] = "awaiting" /\ stage[c] \in S THEN "answered" ELSE f[c]]
Ended(S) == {s \in S : roots[s] # 0}

\* Mutant: a stage that has ended is left alone.
MutantMergeUnended(st) ==
    [s \in Stages |-> IF s \in pending /\ st[s] \notin Terminal \cup {"active"}
                      THEN "pending" ELSE st[s]]

\* applyRetryRootDelta, for all that is pending: a stage that is at work, or that
\* this loop has brought to success, is left alone.
Merged(st) ==
    [s \in Stages |-> IF /\ s \in pending /\ st[s] # "active"
                         /\ ~(st[s] = "succeeded" /\ s \in launched)
                      THEN "pending" ELSE st[s]]
Taken(f) ==
    [c \in Calls |-> IF f[c] = "adding" /\ stage[c] \in pending THEN "added" ELSE f[c]]

\* hydrateScheduleForRetryRoots: the stage that started the session is pending,
\* and so is one whose request has created its attempt already.
Hydrate ==
    /\ phase = "hydrate"
    /\ phase' = "loop"
    /\ states' = [s \in Stages |-> IF roots[s] # 0 /\ s \notin pending
                                   THEN "pending" ELSE latest[s]]
    /\ UNCHANGED <<pc, request, manager, rows, roots, pending, terminal, launched, runs,
                   halted>>

\* The loop's condition, and drainRetryMutations.
Drain ==
    /\ phase = "loop"
    /\ IF AllTerminal
       THEN phase' = "ending" /\ UNCHANGED <<pc, states, pending, halted>>
       ELSE /\ phase' = "launch"
            /\ states' = Merged(states)
            /\ halted' = (halted /\ pending = {})
            /\ pending' = {}
            /\ pc' = Taken(pc)
    /\ UNCHANGED <<request, manager, rows, roots, terminal, launched, runs>>

\* The rest of the loop's body: every runnable stage starts, or the loop ends.
Launch ==
    /\ phase = "launch"
    /\ LET waiting == {s \in Stages : states[s] = "pending"}
           active  == {s \in Stages : states[s] = "active"}
           starts  == IF halted THEN {} ELSE waiting
           skips   == IF halted /\ active = {} THEN waiting ELSE {}
       IN /\ states' = [s \in Stages |-> IF s \in starts THEN "active"
                                         ELSE IF s \in skips THEN "skipped" ELSE states[s]]
          /\ launched' = launched \cup starts
          /\ terminal' = terminal \cup Ended(skips)
          /\ pc' = Told(Ended(skips), pc)
          /\ phase' = IF active \cup starts = {} THEN "ending" ELSE "loop"
    /\ UNCHANGED <<request, manager, rows, roots, pending, runs, halted>>

\* resolveLaunchAttempt: the root's attempt, or a new one.
Open(s) ==
    /\ states[s] = "active" /\ runs[s] = 0 /\ phase \in {"loop", "launch"}
    /\ LET a == IF roots[s] # 0 THEN roots[s] ELSE attempts[s] + 1
       IN /\ runs' = [runs EXCEPT ![s] = a]
          /\ attempts' = [attempts EXCEPT ![s] = IF a > @ THEN a ELSE @]
          /\ latest' = [latest EXCEPT ![s] = IF a < attempts[s] THEN @ ELSE "running"]
    /\ UNCHANGED <<pc, request, manager, phase, roots, pending, terminal, states, launched,
                   halted>>

\* What happened to an attempt is what the stage shows if it is the last one.
Recorded(s, r) ==
    /\ latest' = [latest EXCEPT ![s] = IF runs[s] = attempts[s] THEN r ELSE @]
    /\ UNCHANGED attempts

Succeed(s) ==
    /\ states[s] = "active" /\ runs[s] # 0 /\ Recorded(s, "succeeded")
    /\ states' = [states EXCEPT ![s] = "succeeded"]
    /\ runs' = [runs EXCEPT ![s] = 0]
    /\ terminal' = terminal \cup Ended({s})
    /\ pc' = Told(Ended({s}), pc)
    /\ UNCHANGED <<request, manager, phase, roots, pending, launched, halted>>

\* hasWorkOutsideBranch
WorkOutside(s, st) ==
    \E t \in Stages \ {s} : \/ st[t] \in {"pending", "active", "waiting"}
                            \/ roots[t] # 0 /\ st[t] = "failed"

\* onStageFailure: what is pending is taken over first, and the loop stops when
\* nothing else is left to do.
Fail(s) ==
    /\ states[s] = "active" /\ runs[s] # 0 /\ Recorded(s, "failed")
    /\ states' = Merged([states EXCEPT ![s] = "failed"])
    /\ halted' = ((halted /\ pending = {}) \/ ~WorkOutside(s, states'))
    /\ runs' = [runs EXCEPT ![s] = 0]
    /\ terminal' = terminal \cup Ended({s})
    /\ pc' = Taken(Told(Ended({s}), pc))
    /\ pending' = {}
    /\ UNCHANGED <<request, manager, phase, roots, launched>>

\* The stage's worker exits to wait for input.
Ask(s) ==
    /\ s \in Asking
    /\ states[s] = "active" /\ runs[s] # 0 /\ Recorded(s, "waiting")
    /\ states' = [states EXCEPT ![s] = "waiting"]
    /\ runs' = [runs EXCEPT ![s] = 0]
    /\ UNCHANGED <<pc, request, manager, phase, roots, pending, terminal, launched, halted>>

-----------------------------------------------------------------------------
(* The end of the session                                                  *)

\* deriveStatusFromStages
Derived ==
    IF \E s \in Stages : latest[s] = "failed" THEN "failed"
    ELSE IF \A s \in Stages : latest[s] = "succeeded" THEN "succeeded"
    ELSE IF Busy \/ \E s \in Stages : latest[s] = "succeeded" THEN "running"
    ELSE "created"

\* The loop's result is written when the run has succeeded, and the status is
\* brought in line with the stages.
Settle ==
    /\ phase = "ending"
    /\ phase' = "settled"
    /\ LET wrote == ~halted /\ \A s \in Stages : states[s] \in {"succeeded", "skipped"}
       IN status' = IF (wrote \/ status = "succeeded") /\ Derived # "running"
                    THEN "succeeded" ELSE Derived
    /\ UNCHANGED <<pc, request, inFlight, owner, tracked, rows, roots, pending, terminal,
                   states, launched, runs, halted>>

\* Mutant: only those who wait for a root are sent away.
MutantCloseHalf ==
    [c \in Calls |-> IF pc[c] = "awaiting" THEN "undo"
                     ELSE IF pc[c] = "held" THEN "ok" ELSE pc[c]]

\* Whoever waits for the session is sent away; the stages of the requests that
\* were answered are free.
SentAway ==
    [c \in Calls |-> IF pc[c] \in {"awaiting", "adding"} THEN "undo"
                     ELSE IF pc[c] = "held" THEN "ok" ELSE pc[c]]

Close ==
    /\ phase = "settled"
    /\ phase' = "none" /\ roots' = Nothing /\ pending' = {} /\ terminal' = {}
    /\ states' = [s \in Stages |-> "none"] /\ launched' = {} /\ halted' = FALSE
    /\ pc' = SentAway
    /\ inFlight' = inFlight \ {stage[c] : c \in {d \in Calls : pc[d] = "held"}}
    /\ tracked' = FALSE
    /\ UNCHANGED <<request, owner, status, rows, runs>>

CallStep(c) ==
    \/ Look(c) \/ Check(c) \/ Track(c) \/ Create(c) \/ AddRoot(c) \/ Start(c)
    \/ WaitForRoot(c) \/ Answer(c) \/ Undo(c)
Work(s) == Open(s) \/ Succeed(s) \/ Fail(s) \/ Ask(s)
LoopStep == Hydrate \/ Drain \/ Launch \/ Settle \/ Close

Next ==
    \/ \E c \in Calls : Enter(c) \/ StopWaiting(c) \/ WaitTimesOut(c) \/ CallStep(c)
    \/ \E s \in Stages : Work(s)
    \/ LoopStep

Spec == Init /\ [][Next]_vars

\* Requests and loop go on, and workers come to an end.  No timeout is assumed.
FairSpec ==
    /\ Spec
    /\ \A c \in Calls : WF_vars(CallStep(c))
    /\ \A s \in Stages : WF_vars(Work(s))
    /\ WF_vars(LoopStep)

-----------------------------------------------------------------------------
(* Properties                                                              *)

InProgress == {"waiting", "look", "check", "track", "create", "join", "adding", "added",
               "awaiting", "answered", "undo"}

\* Requests do not wait in a circle: a request waits only while there is no
\* session and another one, which waits for nobody, is to start it; and no stage
\* stays retryStartOwner when its request has come to an end.
OwnerAtWork ==
    /\ \A c \in Calls : pc[c] = "waiting" => ~Active /\ owner # NoStage
    /\ owner # NoStage =>
           \E c \in Calls : stage[c] = owner /\ pc[c] \in InProgress \ {"waiting"}

\* No request waits for a session that is gone or for a root that has ended, and
\* no stage is locked for a retry that nobody makes: each one in retryInFlight has
\* one request, which is in progress or was answered by the session that runs.
StagesHeld ==
    /\ ~Active => \A c \in Calls : pc[c] \notin {"adding", "awaiting", "held"}
    /\ \A c \in Calls : pc[c] = "awaiting" => stage[c] \notin terminal
    /\ \A s \in Stages : s \in inFlight <=>
           \E c \in Calls : stage[c] = s /\ pc[c] \in InProgress \cup {"held"}
    /\ \A c, d \in Calls : /\ c # d /\ stage[c] = stage[d]
                           /\ pc[c] \in InProgress \cup {"held"}
                           => pc[d] \notin InProgress \cup {"held"}

\* No retry is left behind: what it waits for is there and at work, and what it
\* locks it unlocks.
NobodyLeftBehind == StagesHeld /\ OwnerAtWork

\* Every request that is taken in is answered, without the help of a timeout.
RetryReturns ==
    \A c \in Calls : pc[c] \in InProgress ~> pc[c] \in {"ok", "held", "refused", "failed"}

\* What a retry that was accepted promises: the latest attempt of its stage does
\* not stay pending.
AcceptedRetryRuns(s) ==
    (\E c \in Calls : pc[c] = "held" /\ stage[c] = s) ~> latest[s] # "pending"

\* A request for the stage fails and leaves the attempt that it created behind.
LeftPending(s) ==
    \E c \in Calls : pc[c] = "undo" /\ stage[c] = s /\ latest[s] = "pending"

\* A request that is accepted while the session runs is carried out, for each
\* stage of which no request leaves its attempt pending.  The exception is needed
\* as soon as there are three requests: a session that finds the attempt which was
\* left pending runs it although it is no root, and when a retry of that stage is
\* accepted after its success, applyRetryRootDelta leaves the stage alone and the
\* accepted attempt never runs.
AcceptedRuns == \A s \in Stages : []~LeftPending(s) => AcceptedRetryRuns(s)
=============================================================================
