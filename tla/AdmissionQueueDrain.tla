------------------------- MODULE AdmissionQueueDrain -------------------------
(***************************************************************************)
(* The admission queue under its only clients (src/runtime/runManager.ts): *)
(* starts that enqueue, cancels that remove, and one drain pass at a time  *)
(* that takes an entry, tries to start it, and puts it back at the front   *)
(* of its list when a checkout, a project cap or a caller quota is busy.   *)
(* What the start attempt finds is left open here; module RunAdmission     *)
(* determines it.                                                          *)
(***************************************************************************)
EXTENDS AdmissionQueue

VARIABLES
    admissionQueue,
    taken,          \* the entry the drain pass has taken, or NoRun
    blockedRoots,   \* local to a drain pass
    blockedCallers, \* local to a drain pass
    arrivals        \* history: the runs that arrived and have not left

drainVars == <<admissionQueue, taken, blockedRoots, blockedCallers, arrivals>>

DrainInit ==
    /\ admissionQueue = EmptyQueue
    /\ taken = NoRun
    /\ blockedRoots = {}
    /\ blockedCallers = {}
    /\ arrivals = {}

\* A run whose start was queued; a run is enqueued only once.
Arrive(r) ==
    /\ r # taken
    /\ ~InQueue(admissionQueue, r)
    /\ admissionQueue' = Enqueue(admissionQueue, r)
    /\ arrivals' = arrivals \cup {r}
    /\ UNCHANGED <<taken, blockedRoots, blockedCallers>>

\* cancelRun on a run that waits in the queue.
CancelQueued(r) ==
    /\ InQueue(admissionQueue, r)
    /\ admissionQueue' = RemoveRun(admissionQueue, r)
    /\ arrivals' = arrivals \ {r}
    /\ UNCHANGED <<taken, blockedRoots, blockedCallers>>

\* One iteration of the drain loop takes the next entry.
TakeNext ==
    /\ taken = NoRun
    /\ CanDequeue(admissionQueue, blockedRoots, blockedCallers)
    /\ LET next == DequeueNext(admissionQueue, blockedRoots, blockedCallers)
       IN  taken' = next.run /\ admissionQueue' = next.queue
    /\ UNCHANGED <<blockedRoots, blockedCallers, arrivals>>

\* The entry was started, or was found cancelled: it leaves for good.
SettleEntry ==
    /\ taken # NoRun
    /\ taken' = NoRun
    /\ arrivals' = arrivals \ {taken}
    /\ UNCHANGED <<admissionQueue, blockedRoots, blockedCallers>>

\* Mutant: both startDequeuedAdmission and the drain loop put the entry back.
MutantPutBackTwice ==
    /\ taken # NoRun
    /\ admissionQueue' = RequeueFront(RequeueFront(admissionQueue, taken), taken)
    /\ taken' = NoRun
    /\ UNCHANGED arrivals

PutBack ==
    /\ taken # NoRun
    /\ admissionQueue' = RequeueFront(admissionQueue, taken)
    /\ taken' = NoRun
    /\ UNCHANGED arrivals

\* checkout_busy or project_capacity_busy
RootBusy ==
    /\ PutBack
    /\ blockedRoots' = blockedRoots \cup {RootOf[taken]}
    /\ UNCHANGED blockedCallers

\* caller_quota_busy
CallerBusy ==
    /\ taken # NoRun
    /\ CallerOf[taken] # NoCaller
    /\ PutBack
    /\ blockedCallers' = blockedCallers \cup {CallerOf[taken]}
    /\ UNCHANGED blockedRoots

\* capacity_busy ends the pass after the entry was put back.
CapacityBusy ==
    /\ PutBack
    /\ blockedRoots' = {}
    /\ blockedCallers' = {}

\* The loop ends: no slot is free or nothing can be taken.
EndPass ==
    /\ taken = NoRun
    /\ blockedRoots' = {}
    /\ blockedCallers' = {}
    /\ UNCHANGED <<admissionQueue, taken, arrivals>>

DrainNext ==
    \/ \E r \in Runs : Arrive(r) \/ CancelQueued(r)
    \/ TakeNext \/ SettleEntry \/ RootBusy \/ CallerBusy \/ CapacityBusy \/ EndPass

DrainSpec == DrainInit /\ [][DrainNext]_drainVars

-----------------------------------------------------------------------------
\* The queue structure keeps its own invariant under every order of
\* enqueue, remove, dequeue and requeue (class AdmissionQueue): the cursor
\* never points outside the order and no root is listed without entries.
QueueWellFormed ==
    /\ admissionQueue \in Queues
    /\ WellFormedQueue(admissionQueue)

\* No entry is duplicated or lost by the put-back paths: a run that arrived
\* and was not settled is in the queue once, or is taken by the drain.
EachArrivalOnce ==
    \A r \in Runs :
        LET copies == Cardinality({i \in DOMAIN admissionQueue.lists[RootOf[r]] :
                                      admissionQueue.lists[RootOf[r]][i] = r})
        IN  copies + (IF taken = r THEN 1 ELSE 0)
                = IF r \in arrivals THEN 1 ELSE 0

\* positionOf, which walks the lists without changing them, names the turn
\* in which repeated dequeueNext calls really serve the run.
PositionIsTurn ==
    \A r \in QueuedRuns(admissionQueue) :
        ServiceOrder(admissionQueue)[PositionOf(admissionQueue, r)] = r

\* Round robin: the oldest entry of every root is served within one round,
\* however many entries the other roots have.
HeadServedWithinOneRound ==
    \A p \in Range(admissionQueue.order) :
        \E k \in 1 .. Len(admissionQueue.order) :
            ServiceOrder(admissionQueue)[k] = Head(admissionQueue.lists[p])

=============================================================================
