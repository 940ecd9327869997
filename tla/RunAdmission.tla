---------------------------- MODULE RunAdmission ----------------------------
(***************************************************************************)
(* Admission, tracking and cancellation of runs by the run manager         *)
(* (src/runtime/runManager.ts, with startPipeline of pipelineRunner.ts and *)
(* writeTerminalRunStatus of pipelineScheduler.ts).                        *)
(*                                                                         *)
(* The host is one JavaScript thread: an action is what an operation does  *)
(* between two awaits, so operations interleave exactly at their awaits.   *)
(* The store is durable; everything else is lost by a crash.               *)
(*                                                                         *)
(* The `active` map is a set of ids.  The id of an entry is a pair of the  *)
(* reason it exists and the run it is for: the provisional id of a start   *)
(* request, the provisional id of the drain, or the run id itself.         *)
(***************************************************************************)
EXTENDS AdmissionQueue

CONSTANTS
    Checkouts, NoCheckout, CheckoutOf,  \* checkout lease keys
    NoId,               \* "undefined" in checkoutLeases
    SlotCounts,         \* the values an operator gives maxConcurrent
    MaxQueued,          \* maxQueued
    ProjectCap,         \* maxConcurrentPerProject; unset: above the run count
    CallerQuota,        \* callerQuotaLimit; unset: above the run count
    Starters,           \* runs that are requested while the host is up
    Persisted,          \* runs that an earlier host process left in the store
    Asking,             \* runs whose stages ask the operator a question
    Cancellable,        \* runs that an operator may cancel
    Faults,             \* whether materializing or starting a run may fail
    MaxCrashes,         \* bound: crashes of the host
    Executions          \* bound: executions of a run in one host process

ASSUME AdmissionAssumption ==
    /\ NoCheckout \notin Checkouts
    /\ CheckoutOf \in [Runs -> Checkouts \cup {NoCheckout}]
    /\ NoId \notin {"start", "drain", "run"} \X Runs
    /\ SlotCounts \subseteq Nat \ {0}
    /\ SlotCounts # {}
    /\ MaxQueued \in Nat
    /\ ProjectCap \in Nat \ {0}
    /\ CallerQuota \in [Callers -> Nat \ {0}]
    /\ Starters \cup Persisted \cup Asking \cup Cancellable \subseteq Runs
    /\ Faults \in BOOLEAN
    /\ MaxCrashes \in Nat
    /\ Executions \in Nat \ {0}

VARIABLES
    \* durable, in the run store
    status,         \* runs.status
    gate,           \* a stage of the run is waiting_for_input
    \* the run manager
    boot,           \* the phase of startup, "up" once requests are served
    visited,        \* runs the current startup phase has dealt with
    accepting,      \* acceptingWork
    maxConcurrent,
    active,         \* the keys of the active map
    generation,     \* of the active entry of a tracked run
    lease,          \* checkoutLeases
    queue,          \* admissionQueue
    deferred,       \* runs whose queuedDone promise is unresolved
    \* operations in progress
    start,          \* startRun
    cancel,         \* cancelRun
    resume,         \* deliverAnswer, resumeInFlight
    drain,          \* drainAdmissionQueue
    exec,           \* executions: the promises that settle when a run stops
    launched,       \* executions launched so far, per run
    crashes         \* crashes so far

durable == <<status, gate>>
manager == <<boot, visited, accepting, maxConcurrent, active, generation,
             lease, queue, deferred>>
counters == <<launched, crashes>>
vars == <<durable, manager, start, cancel, resume, drain, exec, counters>>

Ids == {"start", "drain", "run"} \X Runs
StartId(r) == <<"start", r>>
DrainId(r) == <<"drain", r>>
RunId(r) == <<"run", r>>
RunOfId(id) == id[2]
KeyOfId(id) == CheckoutOf[RunOfId(id)]

Statuses == {"absent", "queued", "running", "succeeded", "failed", "cancelled"}
Terminal == {"succeeded", "failed", "cancelled"}
BootPhases == {"attach", "resume", "reenqueue", "up"}
StartStates == {"idle", "validating", "reserved", "created", "enqueueing",
                "row", "stranded", "done"}
CancelStates == {"idle", "read", "written", "killing"}
ResumeStates == {"idle", "acquiring", "joined", "inserted", "answered", "running"}
ExecStates == {"none", "stage", "running", "waiting", "ending", "closing"}
DrainStates == {"idle", "reading", "checking", "reserved", "linked",
                "activated", "cancelling"}

IdleDrain == [pc |-> "idle", run |-> NoRun, roots |-> {}, callers |-> {}]

Init ==
    /\ \E kind \in [Persisted -> {"queued", "running", "gated"}] :
          /\ status = [r \in Runs |->
                IF r \notin Persisted THEN "absent"
                ELSE IF kind[r] = "queued" THEN "queued" ELSE "running"]
          /\ gate = [r \in Runs |-> r \in Persisted /\ kind[r] = "gated"]
    /\ boot = "attach"
    /\ visited = {}
    /\ accepting = TRUE
    /\ maxConcurrent \in SlotCounts
    /\ active = {}
    /\ generation = [r \in Runs |-> 0]
    /\ lease = [k \in Checkouts |-> NoId]
    /\ queue = EmptyQueue
    /\ deferred = {}
    /\ start = [r \in Runs |-> "idle"]
    /\ cancel = [r \in Runs |-> "idle"]
    /\ resume = [r \in Runs |-> "idle"]
    /\ drain = IdleDrain
    /\ exec = [r \in Runs |-> [g \in 1 .. Executions |-> "none"]]
    /\ launched = [r \in Runs |-> 0]
    /\ crashes = 0

-----------------------------------------------------------------------------
(* The active map and the checkout leases                                  *)

LeaseFree(r) == CheckoutOf[r] = NoCheckout \/ lease[CheckoutOf[r]] = NoId

\* checkoutLeases with the key of id given to id.
LeaseTo(id) == [k \in Checkouts |-> IF k = KeyOfId(id) THEN id ELSE lease[k]]

\* Mutant: removeActiveEntry forgets the lease.
MutantLeaseKept(id) == lease

\* checkoutLeases without the lease of id: removeActiveEntry deletes it only
\* if it still belongs to id.
LeaseWithout(id) == [k \in Checkouts |-> IF lease[k] = id THEN NoId ELSE lease[k]]

CountForProject(p) == Cardinality({id \in active : RootOf[RunOfId(id)] = p})
CountForCaller(c) == Cardinality({id \in active : CallerOf[RunOfId(id)] = c})

\* Mutant: the quota is compared with > instead of >=.
MutantOverQuotaLate(r) ==
    /\ CallerOf[r] # NoCaller
    /\ CountForCaller(CallerOf[r]) > CallerQuota[CallerOf[r]]

OverQuota(r) ==
    /\ CallerOf[r] # NoCaller
    /\ CountForCaller(CallerOf[r]) >= CallerQuota[CallerOf[r]]

\* tryAdmitOrEnqueue up to its effect: which way a start of r goes now.
Admission(r) ==
    IF ~LeaseFree(r) THEN "checkout_busy"
    ELSE IF CountForProject(RootOf[r]) >= ProjectCap THEN "project_busy"
    ELSE IF Cardinality(active) < maxConcurrent
         THEN IF OverQuota(r) THEN "caller_busy" ELSE "reserve"
         ELSE "capacity_busy"

Reserve(id) ==
    /\ active' = active \cup {id}
    /\ lease' = LeaseTo(id)

\* clearReservation: removeActiveEntry of a provisional id, which does not
\* start a drain pass.
ClearReservation(id) ==
    /\ active' = active \ {id}
    /\ lease' = LeaseWithout(id)

-----------------------------------------------------------------------------
(* drainAdmissionQueue: the synchronous part of one loop iteration         *)

\* The loop head, with the active set it sees and the pass's blocked sets:
\* take an entry and begin to start it, or end the pass.
DrainLoop(act, q, roots, callers) ==
    IF /\ accepting
       /\ Cardinality(act) < maxConcurrent
       /\ CanDequeue(q, roots, callers)
    THEN LET next == DequeueNext(q, roots, callers)
         IN  /\ drain' = [pc |-> "reading", run |-> next.run,
                          roots |-> roots, callers |-> callers]
             /\ queue' = next.queue
    ELSE /\ drain' = IdleDrain
         /\ queue' = q

\* A call of drainAdmissionQueue; it returns at once during a pass.
CallDrain(act, q) ==
    IF drain.pc = "idle" THEN DrainLoop(act, q, {}, {})
    ELSE drain' = drain /\ queue' = q

\* Mutant: a freed slot does not start a drain pass.
MutantRemoveWithoutDrain(r) ==
    IF RunId(r) \in active
    THEN /\ active' = active \ {RunId(r)}
         /\ lease' = LeaseWithout(RunId(r))
         /\ generation' = [generation EXCEPT ![r] = 0]
         /\ UNCHANGED <<drain, queue>>
    ELSE UNCHANGED <<active, lease, generation, drain, queue>>

\* removeActiveEntry(runId, false)
RemoveTracked(r) ==
    IF RunId(r) \in active
    THEN /\ active' = active \ {RunId(r)}
         /\ lease' = LeaseWithout(RunId(r))
         /\ generation' = [generation EXCEPT ![r] = 0]
         /\ CallDrain(active \ {RunId(r)}, queue)
    ELSE UNCHANGED <<active, lease, generation, drain, queue>>

\* untrackIfGeneration
Untrack(r, g) ==
    IF RunId(r) \in active /\ generation[r] = g
    THEN RemoveTracked(r)
    ELSE UNCHANGED <<active, lease, generation, drain, queue>>

-----------------------------------------------------------------------------
(* Executions: runPipelineDag and the promise `done` it returns            *)

\* A new execution of r begins in state s and, with `track` or
\* registerResumeUntrack, becomes the generation of the entry.
Launch(r, s) ==
    /\ launched[r] < Executions
    /\ launched' = [launched EXCEPT ![r] = @ + 1]
    /\ exec' = [exec EXCEPT ![r][launched[r] + 1] = s]

\* track: the provisional entry becomes the entry of the run.
Track(id, r) ==
    /\ active' = (active \ {id}) \cup {RunId(r)}
    /\ lease' = LeaseTo(RunId(r))
    /\ generation' = [generation EXCEPT ![r] = launched[r] + 1]
    /\ Launch(r, "running")

\* A stage asks the operator: the wait is stored before the scheduler, which
\* returns the outcome "waiting", has stopped.
ReachGate(r, g) ==
    /\ exec[r][g] \in {"stage", "running"}
    /\ r \in Asking
    /\ launched[r] < Executions
    /\ status[r] = "running"
    /\ gate' = [gate EXCEPT ![r] = TRUE]
    /\ exec' = [exec EXCEPT ![r][g] = "waiting"]
    /\ UNCHANGED <<status, manager, start, cancel, resume, drain, counters>>

\* writeTerminalRunStatus reads the status; a cancelled run is left alone.
EndRead(r, g) ==
    /\ exec[r][g] = "running"
    /\ exec' = [exec EXCEPT ![r][g] =
                    IF status[r] = "cancelled" THEN "closing" ELSE "ending"]
    /\ UNCHANGED <<durable, manager, start, cancel, resume, drain, counters>>

\* ... and writes the outcome after the read.
EndWrite(r, g) ==
    /\ exec[r][g] = "ending"
    /\ \E s \in {"succeeded", "failed"} : status' = [status EXCEPT ![r] = s]
    /\ exec' = [exec EXCEPT ![r][g] = "closing"]
    /\ UNCHANGED <<gate, manager, start, cancel, resume, drain, counters>>

\* executeStages throws: startPipeline's handler, or that of
\* resumeViaSubprocess, stores "failed" without a look at the status.
ExecutionThrows(r, g) ==
    /\ Faults
    /\ exec[r][g] = "running"
    /\ status' = [status EXCEPT ![r] = "failed"]
    /\ exec' = [exec EXCEPT ![r][g] = "closing"]
    /\ UNCHANGED <<gate, manager, start, cancel, resume, drain, counters>>

\* resumeViaSubprocess: the resumed stage succeeded, resumeRun continues.
ResumedStageDone(r, g) ==
    /\ exec[r][g] = "stage"
    /\ exec' = [exec EXCEPT ![r][g] = "running"]
    /\ UNCHANGED <<durable, manager, start, cancel, resume, drain, counters>>

\* resumeViaSubprocess: the resumed stage failed (or its worker was killed),
\* which stores "failed" without a look at the status.
ResumedStageFailed(r, g) ==
    /\ exec[r][g] = "stage"
    /\ status' = [status EXCEPT ![r] = "failed"]
    /\ exec' = [exec EXCEPT ![r][g] = "closing"]
    /\ UNCHANGED <<gate, manager, start, cancel, resume, drain, counters>>

\* resumeViaSubprocess: the verification of the resumed stage failed and its
\* recovery policy has an attempt left: "running" is stored, again without a
\* look at the status, and retryRun continues.
ResumedStageRepaired(r, g) ==
    /\ exec[r][g] = "stage"
    /\ status' = [status EXCEPT ![r] = "running"]
    /\ exec' = [exec EXCEPT ![r][g] = "running"]
    /\ UNCHANGED <<gate, manager, start, cancel, resume, drain, counters>>

\* The promise settles: untrackIfGeneration, attachQueuedDone and, for a
\* resumed execution, the end of deliverAnswer.
Settle(r, g) ==
    /\ exec[r][g] \in {"waiting", "closing"}
    /\ exec' = [exec EXCEPT ![r][g] = "none"]
    /\ Untrack(r, g)
    /\ deferred' = deferred \ {r}
    /\ resume' = [resume EXCEPT ![r] =
                    IF @ = "running" /\ g = launched[r] THEN "idle" ELSE @]
    /\ UNCHANGED <<durable, boot, visited, accepting, maxConcurrent, start,
                   cancel, counters>>

Execution(r, g) ==
    \/ ReachGate(r, g) \/ EndRead(r, g) \/ EndWrite(r, g) \/ ExecutionThrows(r, g)
    \/ ResumedStageDone(r, g) \/ ResumedStageFailed(r, g)
    \/ ResumedStageRepaired(r, g) \/ Settle(r, g)

-----------------------------------------------------------------------------
(* startRun and reserveAndStartPipeline                                    *)

\* The request passes the shutdown check; validation and preflight follow.
StartRun(r) ==
    /\ boot = "up"
    /\ accepting
    /\ r \in Starters
    /\ start[r] = "idle"
    /\ status[r] = "absent"
    /\ start' = [start EXCEPT ![r] = "validating"]
    /\ UNCHANGED <<durable, manager, cancel, resume, drain, exec, counters>>

\* tryAdmitOrEnqueue: reserve, decide to enqueue, or reject.
Admit(r) ==
    /\ start[r] = "validating"
    /\ \/ /\ Admission(r) = "reserve"
          /\ Reserve(StartId(r))
          /\ start' = [start EXCEPT ![r] = "reserved"]
       \/ /\ Admission(r) \in {"capacity_busy", "caller_busy"}
          /\ QueueSize(queue) < MaxQueued
          /\ start' = [start EXCEPT ![r] = "enqueueing"]
          /\ UNCHANGED <<active, lease>>
       \/ /\ \/ Admission(r) \in {"checkout_busy", "project_busy"}
             \/ /\ Admission(r) \in {"capacity_busy", "caller_busy"}
                /\ QueueSize(queue) >= MaxQueued
          /\ start' = [start EXCEPT ![r] = "done"]
          /\ UNCHANGED <<active, lease>>
    /\ UNCHANGED <<durable, boot, visited, accepting, maxConcurrent, generation,
                   queue, deferred, cancel, resume, drain, exec, counters>>

\* The enqueue path awaits createRun with status "queued" ...
CreateQueuedRow(r) ==
    /\ start[r] = "enqueueing"
    /\ status' = [status EXCEPT ![r] = "queued"]
    /\ start' = [start EXCEPT ![r] = "row"]
    /\ UNCHANGED <<gate, manager, cancel, resume, drain, exec, counters>>

\* ... and enqueues after it, without a look at the status or the slots.
PushQueued(r) ==
    /\ start[r] = "row"
    /\ queue' = Enqueue(queue, r)
    /\ deferred' = deferred \cup {r}
    /\ start' = [start EXCEPT ![r] = "done"]
    /\ UNCHANGED <<durable, boot, visited, accepting, maxConcurrent, active,
                   generation, lease, cancel, resume, drain, exec, counters>>

\* The reserve path materializes the workspace and creates the row.
CreateRow(r) ==
    /\ start[r] = "reserved"
    /\ status' = [status EXCEPT ![r] = "running"]
    /\ start' = [start EXCEPT ![r] = "created"]
    /\ UNCHANGED <<gate, manager, cancel, resume, drain, exec, counters>>

TrackStarted(r) ==
    /\ start[r] = "created"
    /\ Track(StartId(r), r)
    /\ start' = [start EXCEPT ![r] = "done"]
    /\ UNCHANGED <<durable, boot, visited, accepting, maxConcurrent, queue,
                   deferred, cancel, resume, drain, crashes>>

\* Mutant: the failed start does not clear its reservation.
MutantStartFailsKeepsEntry(r) ==
    /\ Faults
    /\ start[r] = "reserved"
    /\ start' = [start EXCEPT ![r] = "done"]
    /\ UNCHANGED <<durable, manager, cancel, resume, drain, exec, counters>>

\* Validation, the disk check, materializing or startPipeline (before or after
\* it stored the row) fails, or the dispatch is found already recorded.
StartFails(r) ==
    /\ Faults
    /\ start[r] \in {"validating", "enqueueing", "reserved", "created"}
    /\ ClearReservation(StartId(r))
    /\ start' = [start EXCEPT ![r] = "done"]
    /\ UNCHANGED <<durable, boot, visited, accepting, maxConcurrent, generation,
                   queue, deferred, cancel, resume, drain, exec, counters>>

\* Between the queued row and the enqueue the skills are written: when that
\* throws, the row stays "queued" and nothing enqueues it until a restart.
EnqueueFails(r) ==
    /\ Faults
    /\ start[r] = "row"
    /\ start' = [start EXCEPT ![r] = "stranded"]
    /\ UNCHANGED <<durable, manager, cancel, resume, drain, exec, counters>>

Starting(r) ==
    \/ StartRun(r) \/ Admit(r) \/ CreateQueuedRow(r) \/ PushQueued(r)
    \/ EnqueueFails(r) \/ CreateRow(r) \/ TrackStarted(r) \/ StartFails(r)

-----------------------------------------------------------------------------
(* startDequeuedAdmission                                                  *)

\* Mutant: the busy entry is put back, but nothing is blocked for the pass.
MutantNothingBlocked(roots, callers) ==
    DrainLoop(active, RequeueFront(queue, drain.run), drain.roots, drain.callers)

\* Mutant: the busy entry is not put back.
MutantEntryDropped(roots, callers) == DrainLoop(active, queue, roots, callers)

\* The entry is put back at the front and the loop goes on with the given
\* blocked sets.
PutBackAndLoop(roots, callers) ==
    DrainLoop(active, RequeueFront(queue, drain.run), roots, callers)

\* readRunMeta: an entry whose run is no longer queued is dropped.
DrainRead ==
    /\ drain.pc = "reading"
    /\ \/ /\ status[drain.run] = "queued"
          /\ drain' = [drain EXCEPT !.pc = "checking"]
          /\ UNCHANGED queue
       \/ /\ status[drain.run] # "queued"
          /\ DrainLoop(active, queue, drain.roots, drain.callers)
    /\ UNCHANGED <<durable, boot, visited, accepting, maxConcurrent, active,
                   generation, lease, deferred, start, cancel, resume, exec,
                   counters>>

\* tryReserve after the availability and disk checks.
DrainReserve ==
    /\ drain.pc = "checking"
    /\ LET r == drain.run IN
       IF CallerOf[r] \in drain.callers
       THEN /\ PutBackAndLoop(drain.roots, drain.callers)
            /\ UNCHANGED <<active, lease>>
       ELSE \/ /\ Admission(r) = "reserve"
               /\ Reserve(DrainId(r))
               /\ drain' = [drain EXCEPT !.pc = "reserved"]
               /\ UNCHANGED queue
            \/ /\ Admission(r) \in {"checkout_busy", "project_busy"}
               /\ PutBackAndLoop(drain.roots \cup {RootOf[r]}, drain.callers)
               /\ UNCHANGED <<active, lease>>
            \/ /\ Admission(r) = "caller_busy"
               /\ PutBackAndLoop(drain.roots, drain.callers \cup {CallerOf[r]})
               /\ UNCHANGED <<active, lease>>
            \/ /\ Admission(r) = "capacity_busy"
               /\ queue' = RequeueFront(queue, r)
               /\ drain' = IdleDrain
               /\ UNCHANGED <<active, lease>>
    /\ UNCHANGED <<durable, boot, visited, accepting, maxConcurrent, generation,
                   deferred, start, cancel, resume, exec, counters>>

\* The workspace is materialized and the status read again.
DrainMaterialize ==
    /\ drain.pc = "reserved"
    /\ \/ /\ status[drain.run] = "queued"
          /\ drain' = [drain EXCEPT !.pc = "linked"]
          /\ UNCHANGED <<active, lease, queue>>
       \/ /\ status[drain.run] # "queued"
          /\ ClearReservation(DrainId(drain.run))
          /\ DrainLoop(active \ {DrainId(drain.run)}, queue,
                       drain.roots, drain.callers)
    /\ UNCHANGED <<durable, boot, visited, accepting, maxConcurrent, generation,
                   deferred, start, cancel, resume, exec, counters>>

\* Mutant: the activation writes "running" without comparing the status.
MutantActivateBlindly ==
    /\ drain.pc = "linked"
    /\ status' = [status EXCEPT ![drain.run] = "running"]
    /\ drain' = [drain EXCEPT !.pc = "activated"]
    /\ UNCHANGED <<gate, manager, start, cancel, resume, exec, counters>>

\* startPipeline: tryUpdateRunStatus(runId, "running", "queued"), or
\* QueuedRunActivationAborted.
DrainActivate ==
    /\ drain.pc = "linked"
    /\ \/ /\ status[drain.run] = "queued"
          /\ status' = [status EXCEPT ![drain.run] = "running"]
          /\ drain' = [drain EXCEPT !.pc = "activated"]
          /\ UNCHANGED <<active, lease, queue>>
       \/ /\ status[drain.run] # "queued"
          /\ ClearReservation(DrainId(drain.run))
          /\ DrainLoop(active \ {DrainId(drain.run)}, queue,
                       drain.roots, drain.callers)
          /\ UNCHANGED status
    /\ UNCHANGED <<gate, boot, visited, accepting, maxConcurrent, generation,
                   deferred, start, cancel, resume, exec, counters>>

DrainTrack ==
    /\ drain.pc = "activated"
    /\ Track(DrainId(drain.run), drain.run)
    /\ DrainLoop((active \ {DrainId(drain.run)}) \cup {RunId(drain.run)}, queue,
                 drain.roots, drain.callers)
    /\ UNCHANGED <<durable, boot, visited, accepting, maxConcurrent, deferred,
                   start, cancel, resume, crashes>>

\* The root is unavailable, the disk floor is missed, or materializing or
\* starting throws: the reservation, if any, is cleared and the run cancelled.
DrainFails ==
    /\ Faults
    /\ drain.pc \in {"checking", "reserved", "linked", "activated"}
    /\ ClearReservation(DrainId(drain.run))
    /\ drain' = [drain EXCEPT !.pc = "cancelling"]
    /\ cancel' = [cancel EXCEPT ![drain.run] =
          IF @ = "idle" /\ status[drain.run] \notin Terminal THEN "read" ELSE @]
    /\ UNCHANGED <<durable, boot, visited, accepting, maxConcurrent, generation,
                   queue, deferred, start, resume, exec, counters>>

\* The awaited cancelRun returned.
DrainCancelled ==
    /\ drain.pc = "cancelling"
    /\ cancel[drain.run] = "idle"
    /\ DrainLoop(active, queue, drain.roots, drain.callers)
    /\ UNCHANGED <<durable, boot, visited, accepting, maxConcurrent, active,
                   generation, lease, deferred, start, cancel, resume, exec,
                   counters>>

Draining ==
    \/ DrainRead \/ DrainReserve \/ DrainMaterialize \/ DrainActivate
    \/ DrainTrack \/ DrainFails \/ DrainCancelled

-----------------------------------------------------------------------------
(* cancelRun                                                               *)

\* readRunMeta; a run that is already cancelled only has its live stages
\* interrupted again (interruptLiveStages), a finished one is refused.
CancelBegin(r) ==
    /\ boot = "up"
    /\ r \in Cancellable
    /\ cancel[r] = "idle"
    /\ \/ status[r] \in {"queued", "running"} /\ cancel' = [cancel EXCEPT ![r] = "read"]
       \/ status[r] = "cancelled" /\ cancel' = [cancel EXCEPT ![r] = "killing"]
    /\ UNCHANGED <<durable, manager, start, resume, drain, exec, counters>>

CancelWrite(r) ==
    /\ cancel[r] = "read"
    /\ status' = [status EXCEPT ![r] = "cancelled"]
    /\ cancel' = [cancel EXCEPT ![r] = "written"]
    /\ UNCHANGED <<gate, manager, start, resume, drain, exec, counters>>

\* Mutant: the cancel does not resolve the promise of the queued start.
MutantCancelKeepsPromise(r) ==
    /\ cancel[r] = "written"
    /\ queue' = RemoveRun(queue, r)
    /\ cancel' = [cancel EXCEPT ![r] = "killing"]
    /\ UNCHANGED <<durable, boot, visited, accepting, maxConcurrent, active,
                   generation, lease, deferred, start, resume, drain, exec,
                   counters>>

\* admissionQueue.remove and resolveQueuedDone
CancelDequeue(r) ==
    /\ cancel[r] = "written"
    /\ queue' = RemoveRun(queue, r)
    /\ deferred' = deferred \ {r}
    /\ cancel' = [cancel EXCEPT ![r] = "killing"]
    /\ UNCHANGED <<durable, boot, visited, accepting, maxConcurrent, active,
                   generation, lease, start, resume, drain, exec, counters>>

\* Workers are gone and stages marked; the entry of the run is removed.
CancelRelease(r) ==
    /\ cancel[r] = "killing"
    /\ gate' = [gate EXCEPT ![r] = FALSE]
    /\ RemoveTracked(r)
    /\ cancel' = [cancel EXCEPT ![r] = "idle"]
    /\ UNCHANGED <<status, boot, visited, accepting, maxConcurrent, deferred,
                   start, resume, exec, counters>>

Cancelling(r) ==
    CancelBegin(r) \/ CancelWrite(r) \/ CancelDequeue(r) \/ CancelRelease(r)

-----------------------------------------------------------------------------
(* ensureResumeTracked, deliverAnswer and orchestrateAnswerResume          *)

\* Mutant: a resume does not look at the lease of its checkout.
MutantResumeUnchecked(r) == FALSE

\* findActiveCheckoutConflict
ResumeConflict(r) ==
    /\ CheckoutOf[r] # NoCheckout
    /\ \/ lease[CheckoutOf[r]] \notin {NoId, RunId(r)}
       \/ \E id \in active \ {RunId(r)} : KeyOfId(id) = CheckoutOf[r]

\* deliverAnswer claims resumeInFlight, sees the gate, and either finds the
\* run in the active map or goes on to acquire tracking.
AnswerCheck(r) ==
    /\ boot = "up"
    /\ resume[r] = "idle"
    /\ gate[r]
    /\ resume' = [resume EXCEPT ![r] =
                    IF RunId(r) \in active THEN "joined" ELSE "acquiring"]
    /\ UNCHANGED <<durable, manager, start, cancel, drain, exec, counters>>

AnswerAcquire(r) ==
    /\ resume[r] = "acquiring"
    /\ IF ResumeConflict(r)
       THEN /\ resume' = [resume EXCEPT ![r] = "idle"]
            /\ UNCHANGED <<active, lease, generation>>
       ELSE /\ Reserve(RunId(r))
            /\ generation' = [generation EXCEPT ![r] = 0]
            /\ resume' = [resume EXCEPT ![r] = "inserted"]
    /\ UNCHANGED <<durable, boot, visited, accepting, maxConcurrent, queue,
                   deferred, start, cancel, drain, exec, counters>>

\* deliverAnswerPrefix stores "resumed" ...
AnswerStore(r) ==
    /\ resume[r] \in {"joined", "inserted"}
    /\ gate' = [gate EXCEPT ![r] = FALSE]
    /\ resume' = [resume EXCEPT ![r] = "answered"]
    /\ UNCHANGED <<status, manager, start, cancel, drain, exec, counters>>

\* ... or refuses the answer: an entry inserted for it is removed.
AnswerRefused(r) ==
    /\ resume[r] \in {"joined", "inserted"}
    /\ resume' = [resume EXCEPT ![r] = "idle"]
    /\ IF resume[r] = "inserted" THEN RemoveTracked(r)
       ELSE UNCHANGED <<active, lease, generation, drain, queue>>
    /\ UNCHANGED <<durable, boot, visited, accepting, maxConcurrent, deferred,
                   start, cancel, exec, counters>>

\* The resumed stage is launched; registerResumeUntrack gives the entry the
\* new generation, and does nothing when there is no entry.
AnswerLaunch(r) ==
    /\ resume[r] = "answered"
    /\ Launch(r, "stage")
    /\ generation' = IF RunId(r) \in active
                     THEN [generation EXCEPT ![r] = launched[r] + 1]
                     ELSE generation
    /\ resume' = [resume EXCEPT ![r] = "running"]
    /\ UNCHANGED <<durable, boot, visited, accepting, maxConcurrent, active,
                   lease, queue, deferred, start, cancel, drain, crashes>>

Answering(r) ==
    \/ AnswerCheck(r) \/ AnswerAcquire(r) \/ AnswerStore(r)
    \/ AnswerRefused(r) \/ AnswerLaunch(r)

-----------------------------------------------------------------------------
(* Startup (src/server/bootstrap.ts), shutdown, crash, slot count          *)

\* Mutant: startup does not list the queued runs.
MutantQueuedForgotten(r) ==
    /\ r \notin visited
    /\ \/ boot = "attach" /\ status[r] = "running" /\ gate[r]
       \/ boot = "resume" /\ status[r] = "running" /\ RunId(r) \notin active

NeedsBoot(r) ==
    /\ r \notin visited
    /\ \/ boot = "attach" /\ status[r] = "running" /\ gate[r]
       \/ boot = "resume" /\ status[r] = "running" /\ RunId(r) \notin active
       \/ boot = "reenqueue" /\ status[r] = "queued"

\* attachWaitingStages: track the waiting run even over maxConcurrent, or
\* quarantine it when its checkout is taken.
AttachWaiting(r) ==
    /\ boot = "attach"
    /\ NeedsBoot(r)
    /\ visited' = visited \cup {r}
    /\ IF ResumeConflict(r)
       THEN /\ status' = [status EXCEPT ![r] = "failed"]
            /\ gate' = [gate EXCEPT ![r] = FALSE]
            /\ UNCHANGED <<active, lease>>
       ELSE /\ Reserve(RunId(r))
            /\ UNCHANGED durable
    /\ UNCHANGED <<boot, accepting, maxConcurrent, generation, queue, deferred,
                   start, cancel, resume, drain, exec, counters>>

\* autoResumeInterruptedStages and resumeStalledSchedules: continue a run
\* that the earlier process left, unless its checkout is taken.
ResumeStalled(r) ==
    /\ boot = "resume"
    /\ NeedsBoot(r)
    /\ visited' = visited \cup {r}
    /\ IF ResumeConflict(r)
       THEN UNCHANGED <<active, lease, generation, exec, launched>>
       ELSE /\ Reserve(RunId(r))
            /\ generation' = [generation EXCEPT ![r] = launched[r] + 1]
            /\ Launch(r, "running")
    /\ UNCHANGED <<durable, boot, accepting, maxConcurrent, queue, deferred,
                   start, cancel, resume, drain, crashes>>

\* reenqueuePersistedQueuedRuns
Reenqueue(r) ==
    /\ boot = "reenqueue"
    /\ NeedsBoot(r)
    /\ visited' = visited \cup {r}
    /\ queue' = Enqueue(queue, r)
    /\ deferred' = deferred \cup {r}
    /\ UNCHANGED <<durable, boot, accepting, maxConcurrent, active, generation,
                   lease, start, cancel, resume, drain, exec, counters>>

\* The phases follow one another: reconcileOrphanedStages closes the gates of
\* cancelled runs after the first, and the last ends with a drain pass.
BootNext ==
    /\ boot # "up"
    /\ \A r \in Runs : ~NeedsBoot(r)
    /\ boot' = CASE boot = "attach" -> "resume"
                 [] boot = "resume" -> "reenqueue"
                 [] boot = "reenqueue" -> "up"
    /\ visited' = {}
    /\ gate' = IF boot = "attach"
               THEN [r \in Runs |-> gate[r] /\ status[r] # "cancelled"]
               ELSE gate
    /\ IF boot = "reenqueue" THEN CallDrain(active, queue)
       ELSE UNCHANGED <<drain, queue>>
    /\ UNCHANGED <<status, accepting, maxConcurrent, active, generation, lease,
                   deferred, start, cancel, resume, exec, counters>>

\* stopAcceptingWork
StopAccepting ==
    /\ boot = "up"
    /\ accepting
    /\ accepting' = FALSE
    /\ UNCHANGED <<durable, boot, visited, maxConcurrent, active, generation,
                   lease, queue, deferred, start, cancel, resume, drain, exec,
                   counters>>

\* setMaxConcurrent
SetMaxConcurrent(n) ==
    /\ boot = "up"
    /\ n # maxConcurrent
    /\ maxConcurrent' = n
    /\ UNCHANGED <<durable, boot, visited, accepting, active, generation, lease,
                   queue, deferred, start, cancel, resume, drain, exec, counters>>

\* The host process dies, at whatever point of an operation or of startup,
\* and a new one starts on the same store.
Crash ==
    /\ crashes < MaxCrashes
    /\ crashes' = crashes + 1
    /\ boot' = "attach"
    /\ visited' = {}
    /\ accepting' = TRUE
    /\ active' = {}
    /\ generation' = [r \in Runs |-> 0]
    /\ lease' = [k \in Checkouts |-> NoId]
    /\ queue' = EmptyQueue
    /\ deferred' = {}
    /\ start' = [r \in Runs |-> IF start[r] = "idle" THEN "idle" ELSE "done"]
    /\ cancel' = [r \in Runs |-> "idle"]
    /\ resume' = [r \in Runs |-> "idle"]
    /\ drain' = IdleDrain
    /\ exec' = [r \in Runs |-> [g \in 1 .. Executions |-> "none"]]
    /\ launched' = [r \in Runs |-> 0]
    /\ UNCHANGED <<durable, maxConcurrent>>

Booting == \E r \in Runs : AttachWaiting(r) \/ ResumeStalled(r) \/ Reenqueue(r)

Next ==
    \/ \E r \in Runs : Starting(r) \/ Cancelling(r) \/ Answering(r)
    \/ \E r \in Runs, g \in 1 .. Executions : Execution(r, g)
    \/ Draining
    \/ Booting
    \/ BootNext
    \/ StopAccepting
    \/ \E n \in SlotCounts : SetMaxConcurrent(n)
    \/ Crash

Spec == Init /\ [][Next]_vars

\* What the event loop guarantees to the drain: an await of a pass, or of the
\* cancel of a run it is about to activate, is over in the end.  The cancel is
\* strongly fair because an operator who cancels the same run again and again
\* takes its place each time and yet does not put it off for ever.  Requests,
\* faults, crashes and the ends of executions are not forced to happen.
FairSpec ==
    /\ Spec
    /\ WF_vars(Draining) /\ SF_vars(DrainCancelled)
    /\ \A r \in Runs : WF_vars(CancelWrite(r) \/ CancelDequeue(r) \/ CancelRelease(r))

-----------------------------------------------------------------------------
(* Properties                                                              *)

\* The stored statuses, the active map and the progress of every operation
\* stay within the values the code knows.
TypeOK ==
    /\ status \in [Runs -> Statuses]
    /\ gate \in [Runs -> BOOLEAN]
    /\ boot \in BootPhases
    /\ visited \subseteq Runs
    /\ accepting \in BOOLEAN
    /\ maxConcurrent \in SlotCounts
    /\ active \subseteq Ids
    /\ generation \in [Runs -> 0 .. Executions]
    /\ lease \in [Checkouts -> Ids \cup {NoId}]
    /\ deferred \subseteq Runs
    /\ start \in [Runs -> StartStates]
    /\ cancel \in [Runs -> CancelStates]
    /\ resume \in [Runs -> ResumeStates]
    /\ drain \in [pc : DrainStates, run : Runs \cup {NoRun},
                  roots : SUBSET Roots, callers : SUBSET (Callers \cup {NoCaller})]
    /\ exec \in [Runs -> [1 .. Executions -> ExecStates]]
    /\ launched \in [Runs -> 0 .. Executions]

\* A checkout is leased to at most one entry of the active map, whichever
\* interleaving of starts, drain, resumes, restarts and cancels led here, and
\* no lease outlives its entry (a leaked lease would reject every later start
\* on that checkout).
LeasesMatchEntries ==
    /\ \A id \in active :
          KeyOfId(id) # NoCheckout => lease[KeyOfId(id)] = id
    /\ \A k \in Checkouts :
          lease[k] # NoId => lease[k] \in active /\ KeyOfId(lease[k]) = k

\* A provisional entry belongs to the operation that is still going to track
\* or clear it: an abandoned one would hold its slot until the host restarts.
ProvisionalEntriesOwned ==
    /\ \A r \in Runs :
          StartId(r) \in active <=> start[r] \in {"reserved", "created"}
    /\ \A r \in Runs :
          DrainId(r) \in active <=>
              drain.run = r /\ drain.pc \in {"reserved", "linked", "activated"}

\* A run stored as queued is still going to be looked at: it is in the queue
\* once, or the drain holds it, or its start is about to enqueue it or failed
\* right there, or the startup has yet to re-enqueue it.
QueuedRunNotLost ==
    \A r \in Runs :
        LET copies == Cardinality({i \in DOMAIN queue.lists[RootOf[r]] :
                                      queue.lists[RootOf[r]][i] = r})
            held   == IF drain.run = r THEN 1 ELSE 0
        IN  /\ copies + held <= 1
            /\ status[r] = "queued" =>
                  \/ copies + held = 1
                  \/ start[r] \in {"row", "stranded"}
                  \/ boot # "up" /\ r \notin visited

\* Without resumed or re-attached runs, which are tracked over the limits on
\* purpose, the slots, the per-project cap and the caller quotas hold at every
\* moment, although the entry of a run changes its id between the check and
\* the end of the run.
LimitsRespected ==
    /\ Cardinality(active) <= maxConcurrent
    /\ \A p \in Roots : CountForProject(p) <= ProjectCap
    /\ \A c \in Callers : CountForCaller(c) <= CallerQuota[c]

\* A cancelled run is never activated, at whatever point of its start or its
\* dequeue the cancel comes (tryUpdateRunStatus and the status checks).  The one
\* writer that can take "cancelled" back is the repair of a resumed stage, which
\* stores "running" without a look at the status.
CancelledNotActivated ==
    [][\A r \in Runs :
          status[r] = "cancelled" /\ status'[r] = "running" =>
              \E g \in 1 .. Executions : exec[r][g] = "stage"]_vars

\* A drain pass ends: putting an entry back blocks its root or its caller for
\* the rest of the pass, so the loop cannot take the same entry for ever.
DrainPassEnds == drain.pc # "idle" ~> drain.pc = "idle"

\* Everything that was begun is over: no operation is under way, nothing is
\* active, and the host, which takes requests, waits for the next one.
HostIdle ==
    /\ boot = "up" /\ accepting /\ active = {} /\ drain.pc = "idle"
    /\ \A r \in Runs :
          /\ start[r] \in {"idle", "stranded", "done"}
          /\ cancel[r] = "idle" /\ resume[r] = "idle"
          /\ \A g \in 1 .. Executions : exec[r][g] = "none"

\* The two ways in which the last call of the drain is wasted: a start is about
\* to enqueue although everything has ended meanwhile, or a pass that has passed
\* over busy roots or callers finds the run it holds cancelled, and may end with
\* nothing active and without a second look at them.
WakeUpLost ==
    \/ active = {} /\ \E r \in Runs : start[r] = "row"
    \/ /\ drain.pc # "idle" /\ status[drain.run] = "cancelled"
       /\ drain.roots # {} \/ drain.callers # {}

\* A blocking start "waits until the run leaves the queue and reaches a terminal
\* outcome" (docs/ci.md:76), so an idle host must have no queue: each end of a
\* run has to reach the runs it kept waiting, although the drain it calls returns
\* at once while another pass is under way.  This is not true as it stands.  It
\* holds for a history without either of the wasted calls above and in which no
\* start fails (a failed start gives back its reservation without a drain).
QueuedRunLeavesQueue ==
    ~Faults /\ []~WakeUpLost => [](HostIdle => \A r \in Runs : status[r] # "queued")

\* The promise a queued start returned is resolved once its run is over, so an
\* idle host has no open promise of a run that has ended.  It holds unless a run
\* is cancelled between its queued row and its place in the queue: the cancel
\* then finds no promise to resolve, and the one made afterwards stays open.
QueuedDoneSettles ==
    [](\A r \in Runs : start[r] = "row" => status[r] # "cancelled")
        => [](HostIdle => \A r \in deferred : status[r] \notin Terminal)

\* The runs that have an entry and a checkout, and the run each lease is for.
Working == {r \in Runs : CheckoutOf[r] # NoCheckout
                          /\ \E id \in active : RunOfId(id) = r}
HolderOf == [k \in Checkouts |-> IF lease[k] = NoId THEN NoRun
                                 ELSE RunOfId(lease[k])]

Leases == INSTANCE CheckoutLeases WITH working <- Working, holder <- HolderOf

\* The run manager implements the abstract lease table: every step of every
\* operation admits one run with its checkout, releases one run with its
\* checkout, forgets everything in a crash, or changes neither.  The change of
\* a provisional entry into the entry of the run is none of these: at no
\* moment is the checkout free or has two holders.
LeasesImplemented == Leases!Spec
=============================================================================
