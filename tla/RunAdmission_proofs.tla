------------------------- MODULE RunAdmission_proofs -------------------------
(***************************************************************************)
(* The leases and the entries of the active map agree, no queued run is    *)
(* lost and no cancelled one activated, for any number of runs, checkouts, *)
(* projects and callers and under every interleaving of starts, drain      *)
(* passes, cancels, answers, restarts and crashes; and a host that only    *)
(* admits runs keeps its limits.                                           *)
(***************************************************************************)
EXTENDS RunAdmission, AdmissionQueue_proofs

\* The drain holds a run exactly while a pass is in progress.
DrainHolds == drain.pc = "idle" <=> drain.run = NoRun

\* The typing part of the inductive invariant.
TypeInv ==
    /\ TypeOK
    /\ Well(queue)
    /\ DrainHolds

DrainRecords ==
    [pc : DrainStates, run : Runs \cup {NoRun},
     roots : SUBSET Roots, callers : SUBSET (Callers \cup {NoCaller})]

\* A run is never the value that stands for no run.
LEMMA HeldRun ==
    ASSUME TypeInv, drain.pc # "idle"
    PROVE  /\ drain.run \in Runs
           /\ drain \in DrainRecords
           /\ drain.roots \in SUBSET Roots
           /\ drain.callers \in SUBSET (Callers \cup {NoCaller})
           /\ RootOf[drain.run] \in Roots
           /\ CallerOf[drain.run] \in Callers \cup {NoCaller}
BY QueueAssumption DEF TypeInv, TypeOK, DrainHolds, DrainRecords

\* The loop head of drainAdmissionQueue either takes a queued run or ends the
\* pass; in both cases no reservation of the drain is outstanding.
LEMMA DrainLoopTypes ==
    ASSUME NEW act, NEW q, Well(q), NEW roots \in SUBSET Roots,
           NEW callers \in SUBSET (Callers \cup {NoCaller}),
           DrainLoop(act, q, roots, callers)
    PROVE  /\ drain' \in DrainRecords
           /\ drain'.pc \in {"idle", "reading"}
           /\ drain'.pc = "idle" <=> drain'.run = NoRun
           /\ Well(queue')
<1>1. CASE /\ accepting
           /\ Cardinality(act) < maxConcurrent
           /\ CanDequeue(q, roots, callers)
  <2> DEFINE next == DequeueNext(q, roots, callers)
  <2>1. next.run \in Runs /\ Well(next.queue)
    BY <1>1, DequeueKeepsWell
  <2>2. /\ drain' = [pc |-> "reading", run |-> next.run,
                     roots |-> roots, callers |-> callers]
        /\ queue' = next.queue
    BY <1>1 DEF DrainLoop
  <2> HIDE DEF next
  <2> QED
    BY <2>1, <2>2, QueueAssumption DEF DrainRecords, DrainStates
<1>2. CASE ~ (/\ accepting
              /\ Cardinality(act) < maxConcurrent
              /\ CanDequeue(q, roots, callers))
  <2>1. drain' = IdleDrain /\ queue' = q
    BY <1>2 DEF DrainLoop
  <2> QED
    BY <2>1 DEF IdleDrain, DrainRecords, DrainStates
<1> QED
  BY <1>1, <1>2

\* A call of drainAdmissionQueue keeps the types; during a pass it does
\* nothing.
LEMMA CallDrainTypes ==
    ASSUME TypeInv, NEW act, CallDrain(act, queue)
    PROVE  /\ drain' \in DrainRecords
           /\ drain'.pc = "idle" <=> drain'.run = NoRun
           /\ Well(queue')
           /\ \/ drain' = drain
              \/ drain.pc = "idle" /\ drain'.pc \in {"idle", "reading"}
<1>1. CASE drain.pc = "idle"
  <2>1. DrainLoop(act, queue, {}, {})
    BY <1>1 DEF CallDrain
  <2> QED
    BY <1>1, <2>1, DrainLoopTypes DEF TypeInv
<1>2. CASE drain.pc # "idle"
  BY <1>2 DEF CallDrain, TypeInv, TypeOK, DrainRecords, DrainHolds
<1> QED
  BY <1>1, <1>2

\* Leases and entries stay typed under reserve, clear and track.
LEMMA LeaseTypes ==
    ASSUME TypeInv, NEW id \in Ids
    PROVE  /\ LeaseTo(id) \in [Checkouts -> Ids \cup {NoId}]
           /\ LeaseWithout(id) \in [Checkouts -> Ids \cup {NoId}]
BY DEF TypeInv, TypeOK, LeaseTo, LeaseWithout

\* The three kinds of entry of the active map have different ids, and an id
\* names its run.
LEMMA IdTypes ==
    ASSUME NEW r \in Runs
    PROVE  /\ StartId(r) \in Ids /\ DrainId(r) \in Ids /\ RunId(r) \in Ids
           /\ RunOfId(StartId(r)) = r /\ RunOfId(DrainId(r)) = r
           /\ RunOfId(RunId(r)) = r
           /\ \A x \in Runs : /\ StartId(r) # RunId(x)
                              /\ StartId(r) # DrainId(x)
                              /\ DrainId(r) # RunId(x)
                              /\ (StartId(r) = StartId(x) => r = x)
                              /\ (DrainId(r) = DrainId(x) => r = x)
BY DEF StartId, DrainId, RunId, RunOfId, Ids

\* removeActiveEntry of a tracked run.
LEMMA RemoveTrackedTypes ==
    ASSUME TypeInv, NEW r \in Runs, RemoveTracked(r)
    PROVE  /\ active' = active \ {RunId(r)}
           /\ \/ lease' = LeaseWithout(RunId(r))
              \/ lease' = lease /\ RunId(r) \notin active
           /\ active' \subseteq Ids
           /\ lease' \in [Checkouts -> Ids \cup {NoId}]
           /\ generation' \in [Runs -> 0 .. Executions]
           /\ drain' \in DrainRecords
           /\ drain'.pc = "idle" <=> drain'.run = NoRun
           /\ Well(queue')
           /\ \/ drain' = drain
              \/ drain.pc = "idle" /\ drain'.pc \in {"idle", "reading"}
<1>1. CASE RunId(r) \in active
  <2>1. CallDrain(active \ {RunId(r)}, queue)
    BY <1>1 DEF RemoveTracked
  <2>2. generation' \in [Runs -> 0 .. Executions]
    <3>1. generation \in [Runs -> 0 .. Executions] /\ 0 \in 0 .. Executions
      BY AdmissionAssumption DEF TypeInv, TypeOK
    <3>2. generation' = [generation EXCEPT ![r] = 0]
      BY <1>1 DEF RemoveTracked
    <3> QED
      BY <3>1, <3>2
  <2>3. /\ active' = active \ {RunId(r)}
        /\ active' \subseteq Ids
        /\ lease' = LeaseWithout(RunId(r))
    BY <1>1 DEF RemoveTracked, TypeInv, TypeOK
  <2>4. lease' \in [Checkouts -> Ids \cup {NoId}]
    BY <2>3, LeaseTypes, IdTypes
  <2> QED
    BY <2>1, <2>2, <2>3, <2>4, CallDrainTypes
<1>2. CASE RunId(r) \notin active
  BY <1>2 DEF RemoveTracked, TypeInv, TypeOK, DrainRecords, DrainHolds
<1> QED
  BY <1>1, <1>2

\* untrackIfGeneration of a settled execution.
LEMMA UntrackTypes ==
    ASSUME TypeInv, NEW r \in Runs, NEW g, Untrack(r, g)
    PROVE  /\ \/ active' = active \ {RunId(r)} /\ lease' = LeaseWithout(RunId(r))
              \/ active' = active /\ lease' = lease
           /\ active' \subseteq Ids
           /\ lease' \in [Checkouts -> Ids \cup {NoId}]
           /\ generation' \in [Runs -> 0 .. Executions]
           /\ drain' \in DrainRecords
           /\ drain'.pc = "idle" <=> drain'.run = NoRun
           /\ Well(queue')
           /\ \/ drain' = drain
              \/ drain.pc = "idle" /\ drain'.pc \in {"idle", "reading"}
<1>1. CASE RunId(r) \in active /\ generation[r] = g
  <2>1. RemoveTracked(r)
    BY <1>1 DEF Untrack
  <2> QED
    BY <1>1, <2>1, RemoveTrackedTypes
<1>2. CASE ~ (RunId(r) \in active /\ generation[r] = g)
  BY <1>2 DEF Untrack, TypeInv, TypeOK, DrainRecords, DrainHolds
<1> QED
  BY <1>1, <1>2

\* A new execution of a run.
LEMMA LaunchTypes ==
    ASSUME TypeInv, NEW r \in Runs, NEW s \in ExecStates, Launch(r, s)
    PROVE  /\ launched' \in [Runs -> 0 .. Executions]
           /\ exec' \in [Runs -> [1 .. Executions -> ExecStates]]
           /\ launched[r] + 1 \in 0 .. Executions
<1>1. /\ launched \in [Runs -> 0 .. Executions]
      /\ exec \in [Runs -> [1 .. Executions -> ExecStates]]
      /\ Executions \in Nat
  BY AdmissionAssumption DEF TypeInv, TypeOK
<1>2. launched[r] + 1 \in 0 .. Executions /\ launched[r] + 1 \in 1 .. Executions
  BY <1>1 DEF Launch
<1>3. launched' = [launched EXCEPT ![r] = launched[r] + 1]
  BY DEF Launch
<1>4. exec' = [exec EXCEPT ![r] = [exec[r] EXCEPT ![launched[r] + 1] = s]]
  BY DEF Launch
<1> QED
  BY <1>1, <1>2, <1>3, <1>4

-----------------------------------------------------------------------------
(* Types: one lemma per component of Next                                  *)


\* The invariant of the next state, with Well applied to the primed queue.
LEMMA TypeInvPrimed ==
    ASSUME TypeOK', Well(queue'), drain'.pc = "idle" <=> drain'.run = NoRun
    PROVE  TypeInv'
BY DEF TypeInv, DrainHolds, Well, Queues, WellFormedQueue

\* A step that leaves the queue and the drain alone.
LEMMA TypeInvQueueUnchanged ==
    ASSUME TypeInv, TypeOK', UNCHANGED <<queue, drain>>
    PROVE  TypeInv'
BY DEF TypeInv, DrainHolds, Well, Queues, WellFormedQueue

\* The steps of an execution (runPipelineDag, its handlers and the settling of
\* its promise) keep the typing invariant.
LEMMA ExecutionTypes ==
    ASSUME TypeInv, NEW r \in Runs, NEW g \in 1 .. Executions, Execution(r, g)
    PROVE  TypeInv'
<1> USE DEF TypeOK, durable, manager, counters, ExecStates
<1>0. TypeOK
  BY DEF TypeInv
<1>1. CASE ReachGate(r, g)
  BY <1>0, <1>1, TypeInvQueueUnchanged DEF ReachGate
<1>2. CASE EndRead(r, g)
  BY <1>0, <1>2, TypeInvQueueUnchanged DEF EndRead
<1>3. CASE EndWrite(r, g)
  BY <1>0, <1>3, TypeInvQueueUnchanged DEF EndWrite, Statuses
<1>4. CASE ResumedStageDone(r, g)
  BY <1>0, <1>4, TypeInvQueueUnchanged DEF ResumedStageDone
<1>5. CASE ResumedStageFailed(r, g)
  BY <1>0, <1>5, TypeInvQueueUnchanged DEF ResumedStageFailed, Statuses
<1>6. CASE ResumedStageRepaired(r, g)
  BY <1>0, <1>6, TypeInvQueueUnchanged DEF ResumedStageRepaired, Statuses
<1>7. CASE ExecutionThrows(r, g)
  BY <1>0, <1>7, TypeInvQueueUnchanged DEF ExecutionThrows, Statuses
<1>8. CASE Settle(r, g)
  <2>1. /\ active' \subseteq Ids
        /\ lease' \in [Checkouts -> Ids \cup {NoId}]
        /\ generation' \in [Runs -> 0 .. Executions]
        /\ drain' \in DrainRecords
        /\ drain'.pc = "idle" <=> drain'.run = NoRun
        /\ Well(queue')
    BY <1>8, UntrackTypes DEF Settle
  <2>2. TypeOK'
    BY <1>0, <1>8, <2>1 DEF Settle, ResumeStates, DrainRecords
  <2> QED
    BY <2>1, <2>2, TypeInvPrimed
<1> QED
  BY <1>1, <1>2, <1>3, <1>4, <1>5, <1>6, <1>7, <1>8 DEF Execution

\* The steps of startRun and reserveAndStartPipeline keep the typing invariant.
LEMMA StartingTypes ==
    ASSUME TypeInv, NEW r \in Runs, Starting(r)
    PROVE  TypeInv'
<1> USE DEF TypeOK, durable, manager, counters, StartStates
<1>0. TypeOK /\ Well(queue)
  BY DEF TypeInv
<1>1. CASE StartRun(r)
  BY <1>0, <1>1, TypeInvQueueUnchanged DEF StartRun
<1>2. CASE Admit(r)
  <2>1. active' \subseteq Ids /\ lease' \in [Checkouts -> Ids \cup {NoId}]
    BY <1>0, <1>2, IdTypes, LeaseTypes DEF Admit, Reserve
  <2>2. start' \in [Runs -> StartStates]
    BY <1>0, <1>2 DEF Admit
  <2> QED
    BY <1>0, <1>2, <2>1, <2>2, TypeInvQueueUnchanged DEF Admit
<1>3. CASE CreateQueuedRow(r)
  BY <1>0, <1>3, TypeInvQueueUnchanged DEF CreateQueuedRow, Statuses
<1>4. CASE PushQueued(r)
  <2>1. Well(queue')
    BY <1>0, <1>4, EnqueueKeepsWell DEF PushQueued
  <2>2. TypeOK'
    BY <1>0, <1>4 DEF PushQueued
  <2> QED
    BY <1>4, <2>1, <2>2, TypeInvPrimed DEF PushQueued, TypeInv, DrainHolds
<1>5. CASE CreateRow(r)
  BY <1>0, <1>5, TypeInvQueueUnchanged DEF CreateRow, Statuses
<1>6. CASE TrackStarted(r)
  <2>1. active' \subseteq Ids /\ lease' \in [Checkouts -> Ids \cup {NoId}]
    BY <1>0, <1>6, IdTypes, LeaseTypes DEF TrackStarted, Track
  <2>2. /\ launched' \in [Runs -> 0 .. Executions]
        /\ exec' \in [Runs -> [1 .. Executions -> ExecStates]]
        /\ launched[r] + 1 \in 0 .. Executions
    BY <1>6, LaunchTypes DEF TrackStarted, Track, ExecStates
  <2>3. generation' \in [Runs -> 0 .. Executions]
    BY <1>0, <1>6, <2>2 DEF TrackStarted, Track
  <2> QED
    BY <1>0, <1>6, <2>1, <2>2, <2>3, TypeInvQueueUnchanged DEF TrackStarted
<1>7. CASE StartFails(r)
  <2>1. active' \subseteq Ids /\ lease' \in [Checkouts -> Ids \cup {NoId}]
    BY <1>0, <1>7, IdTypes, LeaseTypes DEF StartFails, ClearReservation
  <2> QED
    BY <1>0, <1>7, <2>1, TypeInvQueueUnchanged DEF StartFails
<1>8. CASE EnqueueFails(r)
  BY <1>0, <1>8, TypeInvQueueUnchanged DEF EnqueueFails
<1> QED
  BY <1>1, <1>2, <1>3, <1>4, <1>5, <1>6, <1>7, <1>8 DEF Starting

\* The steps of cancelRun keep the typing invariant.
LEMMA CancellingTypes ==
    ASSUME TypeInv, NEW r \in Runs, Cancelling(r)
    PROVE  TypeInv'
<1> USE DEF TypeOK, durable, manager, counters, CancelStates
<1>0. TypeOK /\ Well(queue)
  BY DEF TypeInv
<1>1. CASE CancelBegin(r)
  BY <1>0, <1>1, TypeInvQueueUnchanged DEF CancelBegin
<1>2. CASE CancelWrite(r)
  BY <1>0, <1>2, TypeInvQueueUnchanged DEF CancelWrite, Statuses
<1>3. CASE CancelDequeue(r)
  <2>1. Well(queue')
    BY <1>0, <1>3, RemoveRunKeepsWell DEF CancelDequeue
  <2>2. TypeOK'
    BY <1>0, <1>3 DEF CancelDequeue
  <2> QED
    BY <1>3, <2>1, <2>2, TypeInvPrimed DEF CancelDequeue, TypeInv, DrainHolds
<1>4. CASE CancelRelease(r)
  <2>1. /\ active' \subseteq Ids
        /\ lease' \in [Checkouts -> Ids \cup {NoId}]
        /\ generation' \in [Runs -> 0 .. Executions]
        /\ drain' \in DrainRecords
        /\ drain'.pc = "idle" <=> drain'.run = NoRun
        /\ Well(queue')
    BY <1>4, RemoveTrackedTypes DEF CancelRelease
  <2>2. TypeOK'
    BY <1>0, <1>4, <2>1 DEF CancelRelease, DrainRecords
  <2> QED
    BY <2>1, <2>2, TypeInvPrimed
<1> QED
  BY <1>1, <1>2, <1>3, <1>4 DEF Cancelling

\* The steps of deliverAnswer keep the typing invariant.
LEMMA AnsweringTypes ==
    ASSUME TypeInv, NEW r \in Runs, Answering(r)
    PROVE  TypeInv'
<1> USE DEF TypeOK, durable, manager, counters, ResumeStates
<1>0. TypeOK /\ Well(queue) /\ 0 \in 0 .. Executions
  BY AdmissionAssumption DEF TypeInv
<1>1. CASE AnswerCheck(r)
  BY <1>0, <1>1, TypeInvQueueUnchanged DEF AnswerCheck
<1>2. CASE AnswerAcquire(r)
  <2>1. active' \subseteq Ids /\ lease' \in [Checkouts -> Ids \cup {NoId}]
    BY <1>0, <1>2, IdTypes, LeaseTypes DEF AnswerAcquire, Reserve
  <2>2. /\ generation' \in [Runs -> 0 .. Executions]
        /\ resume' \in [Runs -> ResumeStates]
    BY <1>0, <1>2 DEF AnswerAcquire
  <2> QED
    BY <1>0, <1>2, <2>1, <2>2, TypeInvQueueUnchanged DEF AnswerAcquire
<1>3. CASE AnswerStore(r)
  BY <1>0, <1>3, TypeInvQueueUnchanged DEF AnswerStore
<1>4. CASE AnswerRefused(r)
  <2>1. CASE resume[r] = "inserted"
    <3>1. /\ active' \subseteq Ids
          /\ lease' \in [Checkouts -> Ids \cup {NoId}]
          /\ generation' \in [Runs -> 0 .. Executions]
          /\ drain' \in DrainRecords
          /\ drain'.pc = "idle" <=> drain'.run = NoRun
          /\ Well(queue')
      BY <1>4, <2>1, RemoveTrackedTypes DEF AnswerRefused
    <3>2. TypeOK'
      BY <1>0, <1>4, <3>1 DEF AnswerRefused, DrainRecords
    <3> QED
      BY <3>1, <3>2, TypeInvPrimed
  <2>2. CASE resume[r] # "inserted"
    BY <1>0, <1>4, <2>2, TypeInvQueueUnchanged DEF AnswerRefused
  <2> QED
    BY <2>1, <2>2
<1>5. CASE AnswerLaunch(r)
  <2>1. /\ launched' \in [Runs -> 0 .. Executions]
        /\ exec' \in [Runs -> [1 .. Executions -> ExecStates]]
        /\ launched[r] + 1 \in 0 .. Executions
    BY <1>5, LaunchTypes DEF AnswerLaunch, ExecStates
  <2>2. generation' \in [Runs -> 0 .. Executions]
    BY <1>0, <1>5, <2>1 DEF AnswerLaunch
  <2> QED
    BY <1>0, <1>5, <2>1, <2>2, TypeInvQueueUnchanged DEF AnswerLaunch
<1> QED
  BY <1>1, <1>2, <1>3, <1>4, <1>5 DEF Answering

\* The steps of startDequeuedAdmission and of the drain loop keep the typing
\* invariant, the drain's hold on a run included.
LEMMA DrainingTypes ==
    ASSUME TypeInv, Draining
    PROVE  TypeInv'
<1> USE DEF TypeOK, durable, manager, counters
<1>0. TypeOK /\ Well(queue)
  BY DEF TypeInv
<1> DEFINE r == drain.run
<1>a. /\ r \in Runs
      /\ drain.pc # "idle"
      /\ drain \in DrainRecords
      /\ drain.roots \in SUBSET Roots
      /\ drain.callers \in SUBSET (Callers \cup {NoCaller})
      /\ RootOf[r] \in Roots
      /\ CallerOf[r] \in Callers \cup {NoCaller}
  <2>1. drain.pc # "idle"
    BY DEF Draining, DrainRead, DrainReserve, DrainMaterialize, DrainActivate,
           DrainTrack, DrainFails, DrainCancelled
  <2> QED
    BY <2>1, HeldRun
<1>b. /\ StartId(r) \in Ids /\ DrainId(r) \in Ids /\ RunId(r) \in Ids
      /\ LeaseTo(DrainId(r)) \in [Checkouts -> Ids \cup {NoId}]
      /\ LeaseTo(RunId(r)) \in [Checkouts -> Ids \cup {NoId}]
      /\ LeaseWithout(DrainId(r)) \in [Checkouts -> Ids \cup {NoId}]
  BY <1>a, IdTypes, LeaseTypes
<1>c. Well(RequeueFront(queue, r))
  BY <1>0, <1>a, EnqueueKeepsWell
<1>d. drain.run # NoRun
  BY <1>a, QueueAssumption
<1>e. ASSUME NEW pc \in DrainStates \ {"idle"}, drain' = [drain EXCEPT !.pc = pc]
      PROVE  drain' \in DrainRecords /\ (drain'.pc = "idle" <=> drain'.run = NoRun)
  BY <1>a, <1>d, <1>e DEF DrainRecords
<1>f. ASSUME drain' = IdleDrain
      PROVE  drain' \in DrainRecords /\ (drain'.pc = "idle" <=> drain'.run = NoRun)
  BY <1>f DEF DrainRecords, IdleDrain, DrainStates
<1>g. ASSUME NEW act, NEW q, Well(q), NEW roots \in SUBSET Roots,
             NEW callers \in SUBSET (Callers \cup {NoCaller}),
             DrainLoop(act, q, roots, callers)
      PROVE  /\ drain' \in DrainRecords
             /\ (drain'.pc = "idle" <=> drain'.run = NoRun)
             /\ Well(queue')
  BY <1>g, DrainLoopTypes
<1> DEFINE DrainOK == /\ drain' \in DrainRecords
                      /\ (drain'.pc = "idle" <=> drain'.run = NoRun)
                      /\ Well(queue')
           MapsOK == /\ active' \subseteq Ids
                     /\ lease' \in [Checkouts -> Ids \cup {NoId}]
<1> HIDE DEF r
<1>1. CASE DrainRead
  <2>1. DrainOK
    BY <1>0, <1>1, <1>a, <1>e, <1>g DEF DrainRead, DrainStates, r
  <2>2. TypeOK'
    BY <1>0, <1>1, <2>1 DEF DrainRead, DrainRecords
  <2> QED
    BY <2>1, <2>2, TypeInvPrimed
<1>2. CASE DrainReserve
  <2>1. DrainOK
    <3>1. CASE PutBackAndLoop(drain.roots, drain.callers)
      BY <1>a, <1>c, <1>g, <3>1 DEF PutBackAndLoop, r
    <3>2. CASE PutBackAndLoop(drain.roots \cup {RootOf[r]}, drain.callers)
      BY <1>a, <1>c, <1>g, <3>2 DEF PutBackAndLoop, r
    <3>3. CASE PutBackAndLoop(drain.roots, drain.callers \cup {CallerOf[r]})
      BY <1>a, <1>c, <1>g, <3>3 DEF PutBackAndLoop, r
    <3>4. CASE queue' = RequeueFront(queue, r) /\ drain' = IdleDrain
      BY <1>c, <1>f, <3>4
    <3>5. CASE drain' = [drain EXCEPT !.pc = "reserved"] /\ queue' = queue
      BY <1>0, <1>e, <3>5 DEF DrainStates
    <3> QED
      BY <1>2, <3>1, <3>2, <3>3, <3>4, <3>5 DEF DrainReserve, r
  <2>2. MapsOK
    BY <1>0, <1>2, <1>b DEF DrainReserve, Reserve, r
  <2>3. TypeOK'
    BY <1>0, <1>2, <2>1, <2>2 DEF DrainReserve, DrainRecords
  <2> QED
    BY <2>1, <2>3, TypeInvPrimed
<1>3. CASE DrainMaterialize
  <2>1. DrainOK
    BY <1>0, <1>3, <1>a, <1>e, <1>g DEF DrainMaterialize, DrainStates, r
  <2>2. MapsOK
    BY <1>0, <1>3, <1>b DEF DrainMaterialize, ClearReservation, r
  <2>3. TypeOK'
    BY <1>0, <1>3, <2>1, <2>2 DEF DrainMaterialize, DrainRecords
  <2> QED
    BY <2>1, <2>3, TypeInvPrimed
<1>4. CASE DrainActivate
  <2>1. DrainOK
    BY <1>0, <1>4, <1>a, <1>e, <1>g DEF DrainActivate, DrainStates, r
  <2>2. MapsOK
    BY <1>0, <1>4, <1>b DEF DrainActivate, ClearReservation, r
  <2>3. status' \in [Runs -> Statuses]
    BY <1>0, <1>4, <1>a DEF DrainActivate, Statuses, r
  <2>4. TypeOK'
    BY <1>0, <1>4, <2>1, <2>2, <2>3 DEF DrainActivate, DrainRecords
  <2> QED
    BY <2>1, <2>4, TypeInvPrimed
<1>5. CASE DrainTrack
  <2>1. DrainOK
    BY <1>0, <1>5, <1>a, <1>g DEF DrainTrack
  <2>2. MapsOK
    BY <1>0, <1>5, <1>b DEF DrainTrack, Track, r
  <2>3. /\ launched' \in [Runs -> 0 .. Executions]
        /\ exec' \in [Runs -> [1 .. Executions -> ExecStates]]
        /\ launched[r] + 1 \in 0 .. Executions
    BY <1>5, <1>a, LaunchTypes DEF DrainTrack, Track, ExecStates, r
  <2>4. generation' \in [Runs -> 0 .. Executions]
    BY <1>0, <1>5, <1>a, <2>3 DEF DrainTrack, Track, r
  <2>5. TypeOK'
    BY <1>0, <1>5, <2>1, <2>2, <2>3, <2>4 DEF DrainTrack, DrainRecords
  <2> QED
    BY <2>1, <2>5, TypeInvPrimed
<1>6. CASE DrainFails
  <2>1. DrainOK
    BY <1>0, <1>6, <1>e DEF DrainFails, DrainStates
  <2>2. MapsOK
    BY <1>0, <1>6, <1>b DEF DrainFails, ClearReservation, r
  <2>3. cancel' \in [Runs -> CancelStates]
    BY <1>0, <1>6, <1>a DEF DrainFails, CancelStates, r
  <2>4. TypeOK'
    BY <1>0, <1>6, <2>1, <2>2, <2>3 DEF DrainFails, DrainRecords
  <2> QED
    BY <2>1, <2>4, TypeInvPrimed
<1>7. CASE DrainCancelled
  <2>1. DrainOK
    BY <1>0, <1>7, <1>a, <1>g DEF DrainCancelled
  <2>2. TypeOK'
    BY <1>0, <1>7, <2>1 DEF DrainCancelled, DrainRecords
  <2> QED
    BY <2>1, <2>2, TypeInvPrimed
<1> QED
  BY <1>1, <1>2, <1>3, <1>4, <1>5, <1>6, <1>7 DEF Draining

\* Startup, which attaches, resumes and re-enqueues stored runs, keeps the
\* typing invariant.
LEMMA BootingTypes ==
    ASSUME TypeInv, NEW r \in Runs,
           AttachWaiting(r) \/ ResumeStalled(r) \/ Reenqueue(r)
    PROVE  TypeInv'
<1> USE DEF TypeOK, durable, manager, counters
<1>0. TypeOK /\ Well(queue)
  BY DEF TypeInv
<1>1. CASE AttachWaiting(r)
  <2>1. active' \subseteq Ids /\ lease' \in [Checkouts -> Ids \cup {NoId}]
    BY <1>0, <1>1, IdTypes, LeaseTypes DEF AttachWaiting, Reserve
  <2>2. status' \in [Runs -> Statuses] /\ gate' \in [Runs -> BOOLEAN]
    BY <1>0, <1>1 DEF AttachWaiting, Statuses
  <2> QED
    BY <1>0, <1>1, <2>1, <2>2, TypeInvQueueUnchanged DEF AttachWaiting
<1>2. CASE ResumeStalled(r)
  <2>1. active' \subseteq Ids /\ lease' \in [Checkouts -> Ids \cup {NoId}]
    BY <1>0, <1>2, IdTypes, LeaseTypes DEF ResumeStalled, Reserve
  <2>2. /\ launched' \in [Runs -> 0 .. Executions]
        /\ exec' \in [Runs -> [1 .. Executions -> ExecStates]]
        /\ generation' \in [Runs -> 0 .. Executions]
    <3>1. CASE ResumeConflict(r)
      BY <1>0, <1>2, <3>1 DEF ResumeStalled
    <3>2. CASE ~ResumeConflict(r)
      <4>1. /\ launched' \in [Runs -> 0 .. Executions]
            /\ exec' \in [Runs -> [1 .. Executions -> ExecStates]]
            /\ launched[r] + 1 \in 0 .. Executions
        BY <1>2, <3>2, LaunchTypes DEF ResumeStalled, ExecStates
      <4> QED
        BY <1>0, <1>2, <3>2, <4>1 DEF ResumeStalled
    <3> QED
      BY <3>1, <3>2
  <2> QED
    BY <1>0, <1>2, <2>1, <2>2, TypeInvQueueUnchanged DEF ResumeStalled
<1>3. CASE Reenqueue(r)
  <2>1. Well(queue')
    BY <1>0, <1>3, EnqueueKeepsWell DEF Reenqueue
  <2>2. TypeOK'
    BY <1>0, <1>3 DEF Reenqueue
  <2> QED
    BY <1>3, <2>1, <2>2, TypeInvPrimed DEF Reenqueue, TypeInv, DrainHolds
<1> QED
  BY <1>1, <1>2, <1>3

\* The end of a startup phase, shutdown, a new slot count and a crash keep the
\* typing invariant.
LEMMA HostTypes ==
    ASSUME TypeInv,
           BootNext \/ StopAccepting \/ Crash
             \/ \E n \in SlotCounts : SetMaxConcurrent(n)
    PROVE  TypeInv'
<1> USE DEF TypeOK, durable, manager, counters
<1>0. TypeOK /\ Well(queue)
  BY DEF TypeInv
<1>1. CASE BootNext
  <2>1. /\ drain' \in DrainRecords
        /\ (drain'.pc = "idle" <=> drain'.run = NoRun)
        /\ Well(queue')
    BY <1>0, <1>1, CallDrainTypes DEF BootNext, TypeInv, DrainHolds, DrainRecords
  <2>2. boot' \in BootPhases
    BY <1>0, <1>1 DEF BootNext, BootPhases
  <2>3. gate' \in [Runs -> BOOLEAN]
    BY <1>0, <1>1 DEF BootNext
  <2>4. TypeOK'
    BY <1>0, <1>1, <2>1, <2>2, <2>3 DEF BootNext, DrainRecords
  <2> QED
    BY <2>1, <2>4, TypeInvPrimed
<1>2. CASE StopAccepting
  BY <1>0, <1>2, TypeInvQueueUnchanged DEF StopAccepting
<1>3. CASE \E n \in SlotCounts : SetMaxConcurrent(n)
  BY <1>0, <1>3, TypeInvQueueUnchanged DEF SetMaxConcurrent
<1>4. CASE Crash
  <2>1. Well(queue')
    BY <1>4, EmptyQueueWell DEF Crash
  <2>2. drain' \in DrainRecords /\ (drain'.pc = "idle" <=> drain'.run = NoRun)
    BY <1>4 DEF Crash, IdleDrain, DrainRecords, DrainStates
  <2>3. /\ exec' \in [Runs -> [1 .. Executions -> ExecStates]]
        /\ launched' \in [Runs -> 0 .. Executions]
        /\ generation' \in [Runs -> 0 .. Executions]
    BY <1>4, AdmissionAssumption DEF Crash, ExecStates
  <2>4. TypeOK'
    BY <1>0, <1>4, <2>2, <2>3
       DEF Crash, BootPhases, StartStates, CancelStates, ResumeStates,
           DrainRecords
  <2> QED
    BY <2>1, <2>2, <2>4, TypeInvPrimed
<1> QED
  BY <1>1, <1>2, <1>3, <1>4

\* A host that starts on any store satisfies the typing invariant.
LEMMA TypeInvInit == Init => TypeInv
<1> SUFFICES ASSUME Init
             PROVE  TypeInv
  OBVIOUS
<1>1. Well(queue)
  BY EmptyQueueWell DEF Init
<1>2. drain \in DrainRecords /\ DrainHolds
  BY DEF Init, IdleDrain, DrainHolds, DrainRecords, DrainStates
<1>3. status \in [Runs -> Statuses] /\ gate \in [Runs -> BOOLEAN]
  BY DEF Init, Statuses
<1>4. /\ exec \in [Runs -> [1 .. Executions -> ExecStates]]
      /\ launched \in [Runs -> 0 .. Executions]
      /\ generation \in [Runs -> 0 .. Executions]
  BY AdmissionAssumption DEF Init, ExecStates
<1>5. TypeOK
  BY <1>2, <1>3, <1>4
     DEF Init, TypeOK, BootPhases, StartStates, CancelStates, ResumeStates,
         DrainRecords
<1> QED
  BY <1>1, <1>2, <1>5 DEF TypeInv

\* The typing invariant is inductive.
LEMMA TypeInvNext == TypeInv /\ [Next]_vars => TypeInv'
<1> SUFFICES ASSUME TypeInv, [Next]_vars
             PROVE  TypeInv'
  OBVIOUS
<1>1. CASE UNCHANGED vars
  BY <1>1, TypeInvQueueUnchanged
     DEF vars, durable, manager, counters, TypeInv, TypeOK
<1>2. CASE Next
  BY <1>2, ExecutionTypes, StartingTypes, CancellingTypes, AnsweringTypes,
     DrainingTypes, BootingTypes, HostTypes DEF Next, Booting
<1> QED
  BY <1>1, <1>2

\* Every variable of the run manager keeps its type, whatever the number of
\* runs and the interleaving; in particular the drain always holds a run that
\* the queue really contained.
THEOREM TypeCorrect == Spec => []TypeOK
<1>1. TypeInv => TypeOK
  BY DEF TypeInv
<1> QED
  BY <1>1, TypeInvInit, TypeInvNext, PTL DEF Spec

-----------------------------------------------------------------------------
(* Provisional entries                                                     *)

Reserved == {"reserved", "created"}
DrainReserved == {"reserved", "linked", "activated"}

\* A step that adds or removes only the entry of a tracked run, and moves the
\* drain at most from the end of a pass to the beginning of another.
LEMMA TrackedStepKeepsOwned ==
    ASSUME ProvisionalEntriesOwned, NEW r \in Runs,
           active' \ {RunId(r)} = active \ {RunId(r)},
           start' = start,
           \/ drain' = drain
           \/ drain.pc = "idle" /\ drain'.pc \in {"idle", "reading"}
    PROVE  ProvisionalEntriesOwned'
<1>1. ASSUME NEW x \in Runs
      PROVE  /\ StartId(x) \in active' <=> StartId(x) \in active
             /\ DrainId(x) \in active' <=> DrainId(x) \in active
  BY IdTypes
<1> QED
  BY <1>1 DEF ProvisionalEntriesOwned

\* A step of the start of r that moves its provisional entry.
LEMMA StartStepKeepsOwned ==
    ASSUME TypeInv, ProvisionalEntriesOwned, NEW r \in Runs, NEW s,
           start' = [start EXCEPT ![r] = s],
           active' \ {StartId(r), RunId(r)} = active \ {StartId(r), RunId(r)},
           StartId(r) \in active' <=> s \in Reserved,
           drain' = drain
    PROVE  ProvisionalEntriesOwned'
<1>1. ASSUME NEW x \in Runs
      PROVE  /\ DrainId(x) \in active' <=> DrainId(x) \in active
             /\ x # r => (StartId(x) \in active' <=> StartId(x) \in active)
  BY IdTypes
<1>2. start \in [Runs -> StartStates]
  BY DEF TypeInv, TypeOK
<1> QED
  BY <1>1, <1>2 DEF ProvisionalEntriesOwned, Reserved

\* A step of the drain that moves the provisional entry of the run it holds.
LEMMA DrainStepKeepsOwned ==
    ASSUME TypeInv, ProvisionalEntriesOwned, drain.pc # "idle",
           start' = start,
           active' \ {DrainId(drain.run), RunId(drain.run)}
               = active \ {DrainId(drain.run), RunId(drain.run)},
           \/ /\ DrainId(drain.run) \in active'
              /\ drain'.run = drain.run
              /\ drain'.pc \in DrainReserved
           \/ /\ DrainId(drain.run) \notin active'
              /\ drain'.pc \notin DrainReserved
    PROVE  ProvisionalEntriesOwned'
<1>1. drain.run \in Runs
  BY HeldRun
<1>2. ASSUME NEW x \in Runs
      PROVE  /\ StartId(x) \in active' <=> StartId(x) \in active
             /\ x # drain.run => (DrainId(x) \in active' <=> DrainId(x) \in active)
  BY <1>1, IdTypes
<1> QED
  BY <1>1, <1>2 DEF ProvisionalEntriesOwned, DrainReserved

\* A starting host has no provisional entry.
LEMMA OwnedInit == Init => ProvisionalEntriesOwned
BY DEF Init, ProvisionalEntriesOwned, IdleDrain

\* Every step keeps the provisional entries owned: only reserving adds one,
\* and the operation that added it tracks or clears it before it ends.
LEMMA OwnedNext ==
    TypeInv /\ ProvisionalEntriesOwned /\ [Next]_vars => ProvisionalEntriesOwned'
<1> SUFFICES ASSUME TypeInv, ProvisionalEntriesOwned, [Next]_vars
             PROVE  ProvisionalEntriesOwned'
  OBVIOUS
<1> USE DEF durable, manager, counters
<1>0. ASSUME UNCHANGED <<active, start, drain>>
      PROVE  ProvisionalEntriesOwned'
  BY <1>0 DEF ProvisionalEntriesOwned
<1>1. ASSUME NEW r \in Runs, NEW g \in 1 .. Executions, Execution(r, g)
      PROVE  ProvisionalEntriesOwned'
  <2>1. CASE Settle(r, g)
    <3>1. /\ active' \ {RunId(r)} = active \ {RunId(r)}
          /\ \/ drain' = drain
             \/ drain.pc = "idle" /\ drain'.pc \in {"idle", "reading"}
      BY <2>1, UntrackTypes DEF Settle
    <3> QED
      BY <2>1, <3>1, TrackedStepKeepsOwned DEF Settle
  <2> QED
    BY <1>0, <1>1, <2>1
       DEF Execution, ReachGate, EndRead, EndWrite, ExecutionThrows, ResumedStageDone,
           ResumedStageFailed, ResumedStageRepaired
<1>2. ASSUME NEW r \in Runs, Starting(r)
      PROVE  ProvisionalEntriesOwned'
  <2>0. /\ StartId(r) # RunId(r)
        /\ StartId(r) \in active <=> start[r] \in Reserved
    BY IdTypes DEF ProvisionalEntriesOwned, Reserved
  <2>1. CASE StartRun(r)
    BY <2>0, <2>1, StartStepKeepsOwned DEF StartRun, Reserved
  <2>2. CASE Admit(r)
    BY <2>0, <2>2, StartStepKeepsOwned DEF Admit, Reserve, Reserved
  <2>3. CASE CreateQueuedRow(r)
    BY <2>0, <2>3, StartStepKeepsOwned DEF CreateQueuedRow, Reserved
  <2>4. CASE PushQueued(r)
    BY <2>0, <2>4, StartStepKeepsOwned DEF PushQueued, Reserved
  <2>5. CASE CreateRow(r)
    BY <2>0, <2>5, StartStepKeepsOwned DEF CreateRow, Reserved
  <2>6. CASE TrackStarted(r)
    BY <2>0, <2>6, StartStepKeepsOwned DEF TrackStarted, Track, Reserved
  <2>7. CASE StartFails(r)
    BY <2>0, <2>7, StartStepKeepsOwned DEF StartFails, ClearReservation, Reserved
  <2>8. CASE EnqueueFails(r)
    BY <2>0, <2>8, StartStepKeepsOwned DEF EnqueueFails, Reserved
  <2> QED
    BY <1>2, <2>1, <2>2, <2>3, <2>4, <2>5, <2>6, <2>7, <2>8 DEF Starting
<1>3. ASSUME NEW r \in Runs, Cancelling(r)
      PROVE  ProvisionalEntriesOwned'
  <2>1. CASE CancelRelease(r)
    <3>1. /\ active' = active \ {RunId(r)}
          /\ \/ drain' = drain
             \/ drain.pc = "idle" /\ drain'.pc \in {"idle", "reading"}
      BY <2>1, RemoveTrackedTypes DEF CancelRelease
    <3> QED
      BY <2>1, <3>1, TrackedStepKeepsOwned DEF CancelRelease
  <2> QED
    BY <1>0, <1>3, <2>1 DEF Cancelling, CancelBegin, CancelWrite, CancelDequeue
<1>4. ASSUME NEW r \in Runs, Answering(r)
      PROVE  ProvisionalEntriesOwned'
  <2>1. CASE AnswerAcquire(r)
    <3>1. /\ active' \ {RunId(r)} = active \ {RunId(r)}
          /\ UNCHANGED <<start, drain>>
      BY <2>1 DEF AnswerAcquire, Reserve
    <3> QED
      BY <3>1, TrackedStepKeepsOwned
  <2>2. CASE AnswerRefused(r)
    <3>1. CASE resume[r] = "inserted"
      <4>1. /\ active' = active \ {RunId(r)}
            /\ \/ drain' = drain
               \/ drain.pc = "idle" /\ drain'.pc \in {"idle", "reading"}
        BY <2>2, <3>1, RemoveTrackedTypes DEF AnswerRefused
      <4> QED
        BY <2>2, <4>1, TrackedStepKeepsOwned DEF AnswerRefused
    <3> QED
      BY <1>0, <2>2, <3>1 DEF AnswerRefused
  <2> QED
    BY <1>0, <1>4, <2>1, <2>2 DEF Answering, AnswerCheck, AnswerStore, AnswerLaunch
<1>5. CASE Draining
  <2> DEFINE r == drain.run
  <2>1. /\ drain.pc # "idle"
        /\ start' = start
    BY <1>5 DEF Draining, DrainRead, DrainReserve, DrainMaterialize,
                DrainActivate, DrainTrack, DrainFails, DrainCancelled
  <2>2. /\ r \in Runs
        /\ drain.roots \in SUBSET Roots
        /\ drain.callers \in SUBSET (Callers \cup {NoCaller})
        /\ RootOf[r] \in Roots
        /\ CallerOf[r] \in Callers \cup {NoCaller}
        /\ DrainId(r) # RunId(r)
        /\ DrainId(r) \in active <=> drain.pc \in DrainReserved
        /\ Well(queue)
        /\ Well(RequeueFront(queue, r))
        /\ drain \in DrainRecords
    BY <2>1, HeldRun, IdTypes, EnqueueKeepsWell
       DEF ProvisionalEntriesOwned, DrainReserved, TypeInv
  <2>3. ASSUME NEW act, NEW q, Well(q), NEW roots \in SUBSET Roots,
               NEW callers \in SUBSET (Callers \cup {NoCaller}),
               DrainLoop(act, q, roots, callers)
        PROVE  drain'.pc \notin DrainReserved
    BY <2>3, DrainLoopTypes DEF DrainReserved
  <2>4. ASSUME NEW pc, drain' = [drain EXCEPT !.pc = pc]
        PROVE  drain'.run = drain.run /\ drain'.pc = pc
    BY <2>2, <2>4 DEF DrainRecords
  <2>5. CASE DrainRead
    <3>1. drain'.pc \notin DrainReserved
      BY <2>2, <2>3, <2>4, <2>5 DEF DrainRead, DrainReserved
    <3> QED
      BY <2>1, <2>2, <2>5, <3>1, DrainStepKeepsOwned DEF DrainRead, DrainReserved
  <2>6. CASE DrainReserve
    <3>1. CASE Reserve(DrainId(r)) /\ drain' = [drain EXCEPT !.pc = "reserved"]
      BY <2>1, <2>2, <2>4, <3>1, DrainStepKeepsOwned DEF Reserve, DrainReserved
    <3>2. CASE UNCHANGED active /\ drain'.pc \notin DrainReserved
      BY <2>1, <2>2, <2>6, <3>2, DrainStepKeepsOwned DEF DrainReserve, DrainReserved
    <3>3. CASE UNCHANGED active /\ PutBackAndLoop(drain.roots, drain.callers)
      BY <2>2, <2>3, <3>2, <3>3 DEF PutBackAndLoop
    <3>4. CASE /\ UNCHANGED active
               /\ PutBackAndLoop(drain.roots \cup {RootOf[r]}, drain.callers)
      BY <2>2, <2>3, <3>2, <3>4 DEF PutBackAndLoop
    <3>5. CASE /\ UNCHANGED active
               /\ PutBackAndLoop(drain.roots, drain.callers \cup {CallerOf[r]})
      BY <2>2, <2>3, <3>2, <3>5 DEF PutBackAndLoop
    <3>6. CASE UNCHANGED active /\ drain' = IdleDrain
      BY <3>2, <3>6 DEF IdleDrain, DrainReserved
    <3> QED
      BY <2>6, <3>1, <3>3, <3>4, <3>5, <3>6 DEF DrainReserve
  <2>7. CASE DrainMaterialize
    <3>1. CASE drain' = [drain EXCEPT !.pc = "linked"] /\ active' = active
      BY <2>1, <2>2, <2>4, <2>7, <3>1, DrainStepKeepsOwned
         DEF DrainMaterialize, DrainReserved
    <3>2. CASE drain'.pc \notin DrainReserved /\ active' = active \ {DrainId(r)}
      BY <2>1, <2>2, <3>2, DrainStepKeepsOwned
    <3> QED
      BY <2>2, <2>3, <2>7, <3>1, <3>2 DEF DrainMaterialize, ClearReservation
  <2>8. CASE DrainActivate
    <3>1. CASE drain' = [drain EXCEPT !.pc = "activated"] /\ active' = active
      BY <2>1, <2>2, <2>4, <2>8, <3>1, DrainStepKeepsOwned
         DEF DrainActivate, DrainReserved
    <3>2. CASE drain'.pc \notin DrainReserved /\ active' = active \ {DrainId(r)}
      BY <2>1, <2>2, <3>2, DrainStepKeepsOwned
    <3> QED
      BY <2>2, <2>3, <2>8, <3>1, <3>2 DEF DrainActivate, ClearReservation
  <2>9. CASE DrainTrack
    <3>1. /\ drain'.pc \notin DrainReserved
          /\ active' = (active \ {DrainId(r)}) \cup {RunId(r)}
      BY <2>2, <2>3, <2>9 DEF DrainTrack, Track
    <3> QED
      BY <2>1, <2>2, <3>1, DrainStepKeepsOwned
  <2>10. CASE DrainFails
    <3>1. /\ drain'.pc \notin DrainReserved
          /\ active' = active \ {DrainId(r)}
      BY <2>4, <2>10 DEF DrainFails, ClearReservation, DrainReserved
    <3> QED
      BY <2>1, <2>2, <3>1, DrainStepKeepsOwned
  <2>11. CASE DrainCancelled
    <3>1. drain'.pc \notin DrainReserved
      BY <2>2, <2>3, <2>11 DEF DrainCancelled
    <3> QED
      BY <2>1, <2>2, <2>11, <3>1, DrainStepKeepsOwned
         DEF DrainCancelled, DrainReserved
  <2> QED
    BY <1>5, <2>5, <2>6, <2>7, <2>8, <2>9, <2>10, <2>11 DEF Draining
<1>6. ASSUME NEW r \in Runs, AttachWaiting(r) \/ ResumeStalled(r) \/ Reenqueue(r)
      PROVE  ProvisionalEntriesOwned'
  <2>1. active' \ {RunId(r)} = active \ {RunId(r)} /\ UNCHANGED <<start, drain>>
    BY <1>6 DEF AttachWaiting, ResumeStalled, Reenqueue, Reserve
  <2> QED
    BY <2>1, TrackedStepKeepsOwned
<1>7. CASE BootNext
  <2>1. /\ \/ drain' = drain
           \/ drain.pc = "idle" /\ drain'.pc \in {"idle", "reading"}
        /\ UNCHANGED <<active, start>>
    BY <1>7, CallDrainTypes DEF BootNext
  <2> QED
    BY <2>1 DEF ProvisionalEntriesOwned
<1>8. CASE StopAccepting \/ \E n \in SlotCounts : SetMaxConcurrent(n)
  BY <1>0, <1>8 DEF StopAccepting, SetMaxConcurrent
<1>9. CASE Crash
  <2>1. /\ active' = {}
        /\ \A x \in Runs : start'[x] \notin {"reserved", "created"}
        /\ drain'.pc = "idle"
    BY <1>9 DEF Crash, IdleDrain
  <2> QED
    BY <2>1 DEF ProvisionalEntriesOwned
<1>10. CASE UNCHANGED vars
  BY <1>0, <1>10 DEF vars
<1> QED
  BY <1>1, <1>2, <1>3, <1>4, <1>5, <1>6, <1>7, <1>8, <1>9, <1>10
     DEF Next, Booting

\* A provisional entry of the active map, whether of a start request or of the
\* drain, always belongs to an operation that will track or clear it: no slot
\* and no lease is held by an operation that already returned.
THEOREM ProvisionalAlwaysOwned == Spec => []ProvisionalEntriesOwned
<1>1. Init => TypeInv /\ ProvisionalEntriesOwned
  BY TypeInvInit, OwnedInit
<1>2. TypeInv /\ ProvisionalEntriesOwned /\ [Next]_vars
        => (TypeInv /\ ProvisionalEntriesOwned)'
  BY TypeInvNext, OwnedNext
<1> QED
  BY <1>1, <1>2, PTL DEF Spec

-----------------------------------------------------------------------------
(* Checkout leases                                                         *)

\* A new entry whose checkout is free, or already its own.
LEMMA ReserveKeepsLeases ==
    ASSUME TypeInv, LeasesMatchEntries, NEW id \in Ids, Reserve(id),
           KeyOfId(id) = NoCheckout \/ lease[KeyOfId(id)] \in {NoId, id}
    PROVE  LeasesMatchEntries'
<1>1. /\ active \subseteq Ids
      /\ lease \in [Checkouts -> Ids \cup {NoId}]
      /\ NoId \notin Ids
      /\ NoCheckout \notin Checkouts
      /\ \A x \in Ids : KeyOfId(x) \in Checkouts \cup {NoCheckout}
  BY AdmissionAssumption DEF TypeInv, TypeOK, Ids, KeyOfId, RunOfId
<1>2. /\ active' = active \cup {id}
      /\ \A k \in Checkouts : lease'[k] = IF k = KeyOfId(id) THEN id ELSE lease[k]
  BY DEF Reserve, LeaseTo
<1>3. ASSUME NEW x \in active', KeyOfId(x) # NoCheckout
      PROVE  lease'[KeyOfId(x)] = x
  <2>1. CASE x = id
    BY <1>1, <1>2, <1>3, <2>1
  <2>2. CASE x # id
    <3>1. x \in active /\ KeyOfId(x) \in Checkouts /\ lease[KeyOfId(x)] = x
      BY <1>1, <1>2, <1>3, <2>2 DEF LeasesMatchEntries
    <3>2. KeyOfId(x) # KeyOfId(id)
      BY <1>1, <1>3, <2>2, <3>1
    <3> QED
      BY <1>2, <3>1, <3>2
  <2> QED
    BY <2>1, <2>2
<1>4. ASSUME NEW k \in Checkouts, lease'[k] # NoId
      PROVE  lease'[k] \in active' /\ KeyOfId(lease'[k]) = k
  BY <1>2, <1>4 DEF LeasesMatchEntries
<1>5. \A x \in active' : KeyOfId(x) # NoCheckout => lease'[KeyOfId(x)] = x
  BY <1>3
<1>6. \A k \in Checkouts :
         lease'[k] # NoId => lease'[k] \in active' /\ KeyOfId(lease'[k]) = k
  BY <1>4
<1> QED
  BY <1>5, <1>6 DEF LeasesMatchEntries, KeyOfId, RunOfId

\* removeActiveEntry: an entry goes with its own lease and no other.
LEMMA RemoveKeepsLeases ==
    ASSUME TypeInv, LeasesMatchEntries, NEW id \in Ids,
           active' = active \ {id}, lease' = LeaseWithout(id)
    PROVE  LeasesMatchEntries'
<1>1. /\ active \subseteq Ids
      /\ \A x \in Ids : KeyOfId(x) \in Checkouts \cup {NoCheckout}
  BY AdmissionAssumption DEF TypeInv, TypeOK, Ids, KeyOfId, RunOfId
<1>2. \A k \in Checkouts : lease'[k] = IF lease[k] = id THEN NoId ELSE lease[k]
  BY DEF LeaseWithout
<1>3. \A x \in active' : KeyOfId(x) # NoCheckout => lease'[KeyOfId(x)] = x
  BY <1>1, <1>2 DEF LeasesMatchEntries
<1>4. \A k \in Checkouts :
         lease'[k] # NoId => lease'[k] \in active' /\ KeyOfId(lease'[k]) = k
  BY <1>2 DEF LeasesMatchEntries
<1> QED
  BY <1>3, <1>4 DEF LeasesMatchEntries, KeyOfId, RunOfId

\* track: the lease passes from the provisional entry to the entry of the run
\* without a moment at which the checkout is free or has two holders.
LEMMA TrackKeepsLeases ==
    ASSUME TypeInv, LeasesMatchEntries, NEW r \in Runs, NEW id \in active,
           RunOfId(id) = r, Track(id, r)
    PROVE  LeasesMatchEntries'
<1> DEFINE rid == RunId(r)
<1>1. /\ active \subseteq Ids
      /\ rid \in Ids
      /\ KeyOfId(rid) = KeyOfId(id)
      /\ NoId \notin Ids
      /\ NoCheckout \notin Checkouts
      /\ \A x \in Ids : KeyOfId(x) \in Checkouts \cup {NoCheckout}
  BY AdmissionAssumption, IdTypes DEF TypeInv, TypeOK, Ids, KeyOfId, RunOfId
<1>2. /\ active' = (active \ {id}) \cup {rid}
      /\ \A k \in Checkouts : lease'[k] = IF k = KeyOfId(rid) THEN rid ELSE lease[k]
  BY DEF Track, LeaseTo
<1> HIDE DEF rid
<1>3. ASSUME NEW x \in active', KeyOfId(x) # NoCheckout
      PROVE  lease'[KeyOfId(x)] = x
  <2>1. CASE x = rid
    BY <1>1, <1>2, <1>3, <2>1
  <2>2. CASE x # rid
    <3>1. x \in active /\ x # id /\ KeyOfId(x) \in Checkouts
          /\ lease[KeyOfId(x)] = x
      BY <1>1, <1>2, <1>3, <2>2 DEF LeasesMatchEntries
    <3>2. KeyOfId(x) # KeyOfId(id)
      BY <1>1, <3>1 DEF LeasesMatchEntries
    <3> QED
      BY <1>1, <1>2, <3>1, <3>2
  <2> QED
    BY <2>1, <2>2
<1>4. ASSUME NEW k \in Checkouts, lease'[k] # NoId
      PROVE  lease'[k] \in active' /\ KeyOfId(lease'[k]) = k
  <2>1. CASE k = KeyOfId(rid)
    BY <1>1, <1>2, <2>1
  <2>2. CASE k # KeyOfId(rid)
    <3>1. lease'[k] = lease[k] /\ lease[k] \in active /\ KeyOfId(lease[k]) = k
      BY <1>2, <1>4, <2>2 DEF LeasesMatchEntries
    <3>2. lease[k] # id
      BY <1>1, <2>2, <3>1
    <3> QED
      BY <1>2, <3>1, <3>2
  <2> QED
    BY <2>1, <2>2
<1>5. \A x \in active' : KeyOfId(x) # NoCheckout => lease'[KeyOfId(x)] = x
  BY <1>3
<1>6. \A k \in Checkouts :
         lease'[k] # NoId => lease'[k] \in active' /\ KeyOfId(lease'[k]) = k
  BY <1>4
<1> QED
  BY <1>5, <1>6 DEF LeasesMatchEntries, KeyOfId, RunOfId

\* The checks that precede a reservation: tryReserve for a start and for the
\* drain, findActiveCheckoutConflict for a resume.
LEMMA AdmittedKeyFree ==
    ASSUME NEW r \in Runs, Admission(r) = "reserve"
    PROVE  CheckoutOf[r] = NoCheckout \/ lease[CheckoutOf[r]] = NoId
BY DEF Admission, LeaseFree

\* A resume that finds no conflict may take the lease: nobody else has it.
LEMMA ResumableKeyFree ==
    ASSUME NEW r \in Runs, ~ResumeConflict(r)
    PROVE  CheckoutOf[r] = NoCheckout \/ lease[CheckoutOf[r]] \in {NoId, RunId(r)}
BY DEF ResumeConflict

\* A starting host has neither leases nor entries.
LEMMA LeasesInit == Init => LeasesMatchEntries
BY DEF Init, LeasesMatchEntries

\* Every step keeps leases and entries in agreement, given that the
\* provisional entries are owned: that is what tells that the entry an
\* operation tracks or clears is its own.
LEMMA LeasesNext ==
    TypeInv /\ ProvisionalEntriesOwned /\ LeasesMatchEntries /\ [Next]_vars
      => LeasesMatchEntries'
<1> SUFFICES ASSUME TypeInv, ProvisionalEntriesOwned, LeasesMatchEntries,
                    [Next]_vars
             PROVE  LeasesMatchEntries'
  OBVIOUS
<1> USE DEF durable, manager, counters
<1>0. ASSUME UNCHANGED <<active, lease>>
      PROVE  LeasesMatchEntries'
  BY <1>0 DEF LeasesMatchEntries, KeyOfId, RunOfId
<1>a. ASSUME NEW r \in Runs, Reserve(RunId(r)), ~ResumeConflict(r)
      PROVE  LeasesMatchEntries'
  BY <1>a, IdTypes, ResumableKeyFree, ReserveKeepsLeases DEF KeyOfId
<1>b. ASSUME NEW r \in Runs, RemoveTracked(r)
      PROVE  LeasesMatchEntries'
  <2>1. \/ active' = active \ {RunId(r)} /\ lease' = LeaseWithout(RunId(r))
        \/ UNCHANGED <<active, lease>>
    BY <1>b DEF RemoveTracked
  <2> QED
    BY <1>0, <2>1, IdTypes, RemoveKeepsLeases
<1>1. ASSUME NEW r \in Runs, NEW g \in 1 .. Executions, Execution(r, g)
      PROVE  LeasesMatchEntries'
  BY <1>0, <1>1, <1>b
     DEF Execution, ReachGate, EndRead, EndWrite, ExecutionThrows, ResumedStageDone,
         ResumedStageFailed, ResumedStageRepaired, Settle, Untrack
<1>2. ASSUME NEW r \in Runs, Starting(r)
      PROVE  LeasesMatchEntries'
  <2>1. CASE Admit(r)
    <3>1. CASE Admission(r) = "reserve" /\ Reserve(StartId(r))
      BY <3>1, IdTypes, AdmittedKeyFree, ReserveKeepsLeases DEF KeyOfId
    <3> QED
      BY <1>0, <2>1, <3>1 DEF Admit
  <2>2. CASE TrackStarted(r)
    <3>1. StartId(r) \in active
      BY <2>2 DEF TrackStarted, ProvisionalEntriesOwned
    <3> QED
      BY <2>2, <3>1, IdTypes, TrackKeepsLeases DEF TrackStarted
  <2>3. CASE StartFails(r)
    BY <2>3, IdTypes, RemoveKeepsLeases DEF StartFails, ClearReservation
  <2> QED
    BY <1>0, <1>2, <2>1, <2>2, <2>3
       DEF Starting, StartRun, CreateQueuedRow, PushQueued, EnqueueFails, CreateRow
<1>3. ASSUME NEW r \in Runs, Cancelling(r)
      PROVE  LeasesMatchEntries'
  BY <1>0, <1>3, <1>b
     DEF Cancelling, CancelBegin, CancelWrite, CancelDequeue, CancelRelease
<1>4. ASSUME NEW r \in Runs, Answering(r)
      PROVE  LeasesMatchEntries'
  BY <1>0, <1>4, <1>a, <1>b
     DEF Answering, AnswerCheck, AnswerAcquire, AnswerStore, AnswerRefused,
         AnswerLaunch
<1>5. CASE Draining
  <2> DEFINE r == drain.run
  <2>1. r \in Runs
    <3>1. drain.pc # "idle"
      BY <1>5 DEF Draining, DrainRead, DrainReserve, DrainMaterialize,
                  DrainActivate, DrainTrack, DrainFails, DrainCancelled
    <3> QED
      BY <3>1, HeldRun
  <2>2. ASSUME ClearReservation(DrainId(r))
        PROVE  LeasesMatchEntries'
    BY <2>1, <2>2, IdTypes, RemoveKeepsLeases DEF ClearReservation
  <2>3. CASE DrainReserve
    <3>1. CASE Admission(r) = "reserve" /\ Reserve(DrainId(r))
      BY <2>1, <3>1, IdTypes, AdmittedKeyFree, ReserveKeepsLeases DEF KeyOfId
    <3> QED
      BY <1>0, <2>3, <3>1 DEF DrainReserve
  <2>4. CASE DrainTrack
    <3>1. DrainId(r) \in active
      BY <2>1, <2>4 DEF DrainTrack, ProvisionalEntriesOwned
    <3> QED
      BY <2>1, <2>4, <3>1, IdTypes, TrackKeepsLeases DEF DrainTrack
  <2>5. CASE DrainMaterialize \/ DrainActivate \/ DrainFails
    BY <1>0, <2>2, <2>5 DEF DrainMaterialize, DrainActivate, DrainFails
  <2>6. CASE DrainRead \/ DrainCancelled
    BY <1>0, <2>6 DEF DrainRead, DrainCancelled
  <2> QED
    BY <1>5, <2>3, <2>4, <2>5, <2>6 DEF Draining
<1>6. ASSUME NEW r \in Runs, AttachWaiting(r) \/ ResumeStalled(r) \/ Reenqueue(r)
      PROVE  LeasesMatchEntries'
  BY <1>0, <1>6, <1>a DEF AttachWaiting, ResumeStalled, Reenqueue
<1>7. CASE BootNext \/ StopAccepting \/ \E n \in SlotCounts : SetMaxConcurrent(n)
  BY <1>0, <1>7 DEF BootNext, StopAccepting, SetMaxConcurrent
<1>8. CASE Crash
  <2>1. active' = {} /\ lease' = [k \in Checkouts |-> NoId]
    BY <1>8 DEF Crash
  <2> QED
    BY <2>1 DEF LeasesMatchEntries
<1>9. CASE UNCHANGED vars
  BY <1>0, <1>9 DEF vars
<1> QED
  BY <1>1, <1>2, <1>3, <1>4, <1>5, <1>6, <1>7, <1>8, <1>9 DEF Next, Booting

\* Two runs never use one checkout at the same time and no lease outlives its
\* holder: the checkoutLeases map and the active map agree after every step
\* of starts, drain, cancels, answers, startup and crash.
THEOREM LeasesAlwaysMatch == Spec => []LeasesMatchEntries
<1> DEFINE IInv == TypeInv /\ ProvisionalEntriesOwned /\ LeasesMatchEntries
<1>1. Init => IInv
  BY TypeInvInit, OwnedInit, LeasesInit
<1>2. IInv /\ [Next]_vars => IInv'
  BY TypeInvNext, OwnedNext, LeasesNext
<1> QED
  BY <1>1, <1>2, PTL DEF Spec

-----------------------------------------------------------------------------
(* The run manager implements the abstract lease table                     *)

\* What the proofs below use of the types: entries and leases name runs, and
\* the placeholders are no runs, ids or checkouts.
LEMMA LeaseFacts ==
    ASSUME TypeInv
    PROVE  /\ active \subseteq Ids
           /\ lease \in [Checkouts -> Ids \cup {NoId}]
           /\ NoId \notin Ids /\ NoRun \notin Runs /\ NoCheckout \notin Checkouts
           /\ \A id \in Ids : RunOfId(id) \in Runs
                              /\ KeyOfId(id) = CheckoutOf[RunOfId(id)]
                              /\ KeyOfId(id) \in Checkouts \cup {NoCheckout}
           /\ \A r \in Runs : CheckoutOf[r] \in Checkouts \cup {NoCheckout}
BY AdmissionAssumption, QueueAssumption DEF TypeInv, TypeOK, Ids, KeyOfId, RunOfId

\* The abstract state depends on nothing but the entries and the leases.
LEMMA MappedUnchanged ==
    ASSUME UNCHANGED <<active, lease>>
    PROVE  UNCHANGED <<Working, HolderOf>>
BY DEF Working, HolderOf, RunOfId

\* A run works in a checkout exactly if the checkout is leased to it.
HoldersWork ==
    /\ Working = {r \in Runs : /\ CheckoutOf[r] # NoCheckout
                               /\ HolderOf[CheckoutOf[r]] = r}
    /\ \A k \in Checkouts : HolderOf[k] = NoRun <=> lease[k] = NoId

\* That is so while leases and entries agree.
LEMMA WorkingHolds == TypeInv /\ LeasesMatchEntries => HoldersWork
<1> SUFFICES ASSUME TypeInv, LeasesMatchEntries
             PROVE  HoldersWork
  OBVIOUS
<1> USE LeaseFacts
<1>1. \A k \in Checkouts : HolderOf[k] = IF lease[k] = NoId THEN NoRun
                                         ELSE RunOfId(lease[k])
  BY DEF HolderOf
<1>2. ASSUME NEW r \in Working
      PROVE  HolderOf[CheckoutOf[r]] = r
  <2>1. PICK id \in active : RunOfId(id) = r
    BY DEF Working
  <2>2. CheckoutOf[r] # NoCheckout /\ KeyOfId(id) = CheckoutOf[r]
    BY <2>1 DEF Working
  <2>3. lease[CheckoutOf[r]] = id /\ CheckoutOf[r] \in Checkouts
    BY <2>1, <2>2 DEF LeasesMatchEntries
  <2> QED
    BY <1>1, <2>1, <2>3
<1>3. ASSUME NEW r \in Runs, CheckoutOf[r] # NoCheckout, HolderOf[CheckoutOf[r]] = r
      PROVE  r \in Working
  <2>1. CheckoutOf[r] \in Checkouts
    BY <1>3
  <2>2. lease[CheckoutOf[r]] # NoId /\ RunOfId(lease[CheckoutOf[r]]) = r
    BY <1>1, <1>3, <2>1
  <2>3. lease[CheckoutOf[r]] \in active
    BY <2>1, <2>2 DEF LeasesMatchEntries
  <2> QED
    BY <1>3, <2>2, <2>3 DEF Working
<1>4. Working \subseteq Runs /\ \A r \in Working : CheckoutOf[r] # NoCheckout
  BY DEF Working
<1>5. \A k \in Checkouts : HolderOf[k] = NoRun <=> lease[k] = NoId
  BY <1>1
<1> QED
  BY <1>2, <1>3, <1>4, <1>5 DEF HoldersWork

\* The invariants hold before and after the step, and so does what follows.
LEMMA WorkingHoldsPrimed ==
    ASSUME TypeInv, LeasesMatchEntries, TypeInv', LeasesMatchEntries'
    PROVE  HoldersWork /\ HoldersWork'
<1>1. (TypeInv /\ LeasesMatchEntries => HoldersWork)'
  BY WorkingHolds, PTL
<1> QED
  BY <1>1, WorkingHolds

\* A step after which every checkout is leased to the same run as before is no
\* step of the lease table.
LEMMA SameHolders ==
    ASSUME HoldersWork, HoldersWork', HolderOf' = HolderOf
    PROVE  UNCHANGED <<Working, HolderOf>>
BY DEF HoldersWork

\* A new entry takes a free checkout, or was there before.
LEMMA ReserveMaps ==
    ASSUME TypeInv, LeasesMatchEntries, HoldersWork, HoldersWork',
           NEW id \in Ids, Reserve(id),
           KeyOfId(id) = NoCheckout \/ lease[KeyOfId(id)] \in {NoId, id}
    PROVE  Leases!Next \/ UNCHANGED <<Working, HolderOf>>
<1> DEFINE r == RunOfId(id)
           c == CheckoutOf[r]
<1>1. /\ r \in Runs /\ KeyOfId(id) = c /\ c \in Checkouts \cup {NoCheckout}
      /\ NoCheckout \notin Checkouts /\ NoRun \notin Runs /\ NoId \notin Ids
  BY LeaseFacts
<1>2. \A k \in Checkouts : lease'[k] = IF k = c THEN id ELSE lease[k]
  BY <1>1 DEF Reserve, LeaseTo
<1>3. /\ HolderOf = [k \in Checkouts |-> HolderOf[k]]
      /\ HolderOf' = [k \in Checkouts |-> IF k = c THEN r ELSE HolderOf[k]]
  BY <1>1, <1>2 DEF HolderOf
<1>4. CASE c = NoCheckout
  BY <1>1, <1>3, <1>4, SameHolders
<1>5. CASE c # NoCheckout /\ lease[c] = id
  <2>1. HolderOf[c] = r
    BY <1>1, <1>5 DEF HolderOf
  <2> QED
    BY <1>3, <2>1, SameHolders
<1>6. CASE c # NoCheckout /\ lease[c] = NoId
  <2>1. c \in Checkouts /\ HolderOf[c] = NoRun
    BY <1>1, <1>6 DEF HoldersWork
  <2>2. r \notin Working
    BY <1>1, <2>1 DEF HoldersWork
  <2>3. HolderOf' = [HolderOf EXCEPT ![c] = r]
    BY <1>3
  <2>4. Working' = Working \cup {r}
    <3>1. \A x \in Runs : CheckoutOf[x] # NoCheckout =>
                 (HolderOf'[CheckoutOf[x]] = x <=> x = r \/ HolderOf[CheckoutOf[x]] = x)
      BY <1>1, <1>3, <2>1, LeaseFacts
    <3> QED
      BY <1>1, <1>6, <3>1 DEF HoldersWork
  <2>5. Leases!Enter(r)
    BY <2>1, <2>2, <2>3, <2>4 DEF Leases!Enter
  <2> QED
    BY <1>1, <2>5 DEF Leases!Next
<1> QED
  BY <1>1, <1>4, <1>5, <1>6

\* removeActiveEntry ends the work of a run, or of none.
LEMMA RemoveMaps ==
    ASSUME TypeInv, LeasesMatchEntries, HoldersWork, HoldersWork',
           NEW id \in Ids, lease' = LeaseWithout(id)
    PROVE  Leases!Next \/ UNCHANGED <<Working, HolderOf>>
<1> DEFINE r == RunOfId(id)
           c == CheckoutOf[r]
<1>1. /\ r \in Runs /\ KeyOfId(id) = c /\ c \in Checkouts \cup {NoCheckout}
      /\ NoCheckout \notin Checkouts /\ NoRun \notin Runs /\ NoId \notin Ids
  BY LeaseFacts
<1>2. \A k \in Checkouts : lease'[k] = IF lease[k] = id THEN NoId ELSE lease[k]
  BY DEF LeaseWithout
<1>3. CASE \E k \in Checkouts : lease[k] = id
  <2>1. c \in Checkouts /\ lease[c] = id
    BY <1>1, <1>3 DEF LeasesMatchEntries
  <2>2. \A k \in Checkouts : lease[k] = id => k = c
    BY <1>1 DEF LeasesMatchEntries
  <2>3. HolderOf' = [HolderOf EXCEPT ![c] = NoRun] /\ HolderOf[c] = r
    BY <1>1, <1>2, <2>1, <2>2 DEF HolderOf
  <2>4. r \in Working
    BY <1>1, <2>1, <2>3 DEF HoldersWork
  <2>5. Working' = Working \ {r}
    <3>1. \A x \in Runs : CheckoutOf[x] # NoCheckout =>
                 (HolderOf'[CheckoutOf[x]] = x <=> x # r /\ HolderOf[CheckoutOf[x]] = x)
      BY <1>1, <2>1, <2>3, LeaseFacts DEF HolderOf
    <3> QED
      BY <3>1 DEF HoldersWork
  <2>6. Leases!Leave(r)
    BY <2>3, <2>4, <2>5 DEF Leases!Leave
  <2> QED
    BY <1>1, <2>6 DEF Leases!Next
<1>4. CASE \A k \in Checkouts : lease[k] # id
  <2>1. HolderOf' = HolderOf
    BY <1>2, <1>4 DEF HolderOf
  <2> QED
    BY <2>1, SameHolders
<1> QED
  BY <1>3, <1>4

\* track hands the lease from one entry of a run to another: nothing changes
\* for the lease table.
LEMMA TrackMaps ==
    ASSUME TypeInv, LeasesMatchEntries, HoldersWork, HoldersWork',
           NEW r \in Runs, NEW id \in active, RunOfId(id) = r, Track(id, r)
    PROVE  UNCHANGED <<Working, HolderOf>>
<1> DEFINE c == CheckoutOf[r]
<1>1. /\ KeyOfId(id) = c /\ c \in Checkouts \cup {NoCheckout}
      /\ NoCheckout \notin Checkouts /\ NoId \notin Ids
      /\ RunId(r) \in Ids /\ RunOfId(RunId(r)) = r /\ KeyOfId(RunId(r)) = c
      /\ id \in Ids
  BY LeaseFacts, IdTypes
<1>2. \A k \in Checkouts : lease'[k] = IF k = c THEN RunId(r) ELSE lease[k]
  BY <1>1 DEF Track, LeaseTo
<1>3. c \in Checkouts => lease[c] = id
  BY <1>1 DEF LeasesMatchEntries
<1>4. HolderOf' = HolderOf
  BY <1>1, <1>2, <1>3 DEF HolderOf
<1> QED
  BY <1>4, SameHolders

\* A starting host maps to the empty lease table.
LEMMA MapInit == Init => Leases!Init
<1> SUFFICES ASSUME Init PROVE Leases!Init
  OBVIOUS
<1>1. active = {} /\ lease = [k \in Checkouts |-> NoId]
  BY DEF Init
<1>2. Working = {} /\ HolderOf = [k \in Checkouts |-> NoRun]
  BY <1>1 DEF Working, HolderOf
<1> QED
  BY <1>2 DEF Leases!Init

\* Every step of the run manager is a step of the lease table or none.
LEMMA MapNext ==
    ASSUME TypeInv, ProvisionalEntriesOwned, LeasesMatchEntries,
           TypeInv', LeasesMatchEntries', [Next]_vars
    PROVE  Leases!Next \/ UNCHANGED <<Working, HolderOf>>
<1> DEFINE Mapped == Leases!Next \/ UNCHANGED <<Working, HolderOf>>
<1> USE DEF durable, manager, counters
<1>h. HoldersWork /\ HoldersWork'
  BY WorkingHoldsPrimed
<1>0. ASSUME UNCHANGED <<active, lease>>
      PROVE  Mapped
  BY <1>0, MappedUnchanged
<1>a. ASSUME NEW r \in Runs, Reserve(RunId(r)), ~ResumeConflict(r)
      PROVE  Mapped
  BY <1>a, <1>h, IdTypes, ResumableKeyFree, ReserveMaps DEF KeyOfId
<1>b. ASSUME NEW r \in Runs, RemoveTracked(r)
      PROVE  Mapped
  <2>1. lease' = LeaseWithout(RunId(r)) \/ UNCHANGED <<active, lease>>
    BY <1>b DEF RemoveTracked
  <2> QED
    BY <1>0, <1>h, <2>1, IdTypes, RemoveMaps
<1>c. ASSUME NEW id \in Ids, ClearReservation(id)
      PROVE  Mapped
  BY <1>c, <1>h, RemoveMaps DEF ClearReservation
<1> SUFFICES Mapped
  OBVIOUS
<1> HIDE DEF Mapped
<1>1. ASSUME NEW r \in Runs, NEW g \in 1 .. Executions, Execution(r, g)
      PROVE  Mapped
  BY <1>0, <1>1, <1>b
     DEF Execution, ReachGate, EndRead, EndWrite, ExecutionThrows, ResumedStageDone,
         ResumedStageFailed, ResumedStageRepaired, Settle, Untrack
<1>2. ASSUME NEW r \in Runs, Starting(r)
      PROVE  Mapped
  <2>1. CASE Admit(r)
    <3>1. CASE Admission(r) = "reserve" /\ Reserve(StartId(r))
      BY <1>h, <3>1, IdTypes, AdmittedKeyFree, ReserveMaps DEF KeyOfId, Mapped
    <3> QED
      BY <1>0, <2>1, <3>1 DEF Admit
  <2>2. CASE TrackStarted(r)
    <3>1. StartId(r) \in active
      BY <2>2 DEF TrackStarted, ProvisionalEntriesOwned
    <3> QED
      BY <1>h, <2>2, <3>1, IdTypes, TrackMaps DEF TrackStarted, Mapped
  <2>3. CASE StartFails(r)
    BY <1>c, <2>3, IdTypes DEF StartFails
  <2> QED
    BY <1>0, <1>2, <2>1, <2>2, <2>3
       DEF Starting, StartRun, CreateQueuedRow, PushQueued, EnqueueFails, CreateRow
<1>3. ASSUME NEW r \in Runs, Cancelling(r)
      PROVE  Mapped
  BY <1>0, <1>3, <1>b
     DEF Cancelling, CancelBegin, CancelWrite, CancelDequeue, CancelRelease
<1>4. ASSUME NEW r \in Runs, Answering(r)
      PROVE  Mapped
  BY <1>0, <1>4, <1>a, <1>b
     DEF Answering, AnswerCheck, AnswerAcquire, AnswerStore, AnswerRefused,
         AnswerLaunch
<1>5. CASE Draining
  <2> DEFINE r == drain.run
  <2>1. r \in Runs /\ DrainId(r) \in Ids
    <3>1. drain.pc # "idle"
      BY <1>5 DEF Draining, DrainRead, DrainReserve, DrainMaterialize,
                  DrainActivate, DrainTrack, DrainFails, DrainCancelled
    <3> QED
      BY <3>1, HeldRun, IdTypes
  <2>2. CASE DrainReserve
    <3>1. CASE Admission(r) = "reserve" /\ Reserve(DrainId(r))
      BY <1>h, <2>1, <3>1, IdTypes, AdmittedKeyFree, ReserveMaps DEF KeyOfId, Mapped
    <3> QED
      BY <1>0, <2>2, <3>1 DEF DrainReserve
  <2>3. CASE DrainTrack
    <3>1. DrainId(r) \in active
      BY <2>1, <2>3 DEF DrainTrack, ProvisionalEntriesOwned
    <3> QED
      BY <1>h, <2>1, <2>3, <3>1, IdTypes, TrackMaps DEF DrainTrack, Mapped
  <2>4. CASE DrainMaterialize \/ DrainActivate \/ DrainFails
    BY <1>0, <1>c, <2>1, <2>4 DEF DrainMaterialize, DrainActivate, DrainFails
  <2>5. CASE DrainRead \/ DrainCancelled
    BY <1>0, <2>5 DEF DrainRead, DrainCancelled
  <2> QED
    BY <1>5, <2>2, <2>3, <2>4, <2>5 DEF Draining
<1>6. ASSUME NEW r \in Runs, AttachWaiting(r) \/ ResumeStalled(r) \/ Reenqueue(r)
      PROVE  Mapped
  BY <1>0, <1>6, <1>a DEF AttachWaiting, ResumeStalled, Reenqueue
<1>7. CASE BootNext \/ StopAccepting \/ \E n \in SlotCounts : SetMaxConcurrent(n)
  BY <1>0, <1>7 DEF BootNext, StopAccepting, SetMaxConcurrent
<1>8. CASE Crash
  <2>1. active' = {} /\ lease' = [k \in Checkouts |-> NoId]
    BY <1>8 DEF Crash
  <2>2. Working' = {} /\ HolderOf' = [k \in Checkouts |-> NoRun]
    BY <2>1 DEF Working, HolderOf
  <2> QED
    BY <2>2 DEF Leases!Next, Leases!Restart, Mapped
<1>9. CASE UNCHANGED vars
  BY <1>0, <1>9 DEF vars
<1> QED
  BY <1>1, <1>2, <1>3, <1>4, <1>5, <1>6, <1>7, <1>8, <1>9
     DEF Next, Booting

\* The run manager, with its queue, provisional entries, awaits and crashes,
\* implements the lease table: a checkout changes hands only by being given
\* back by the run that has it, for any number of runs and checkouts.
THEOREM LeaseTableImplemented == Spec => LeasesImplemented
<1> DEFINE IInv == TypeInv /\ ProvisionalEntriesOwned /\ LeasesMatchEntries
<1>1. Init => IInv /\ Leases!Init
  BY TypeInvInit, OwnedInit, LeasesInit, MapInit
<1>2. IInv /\ [Next]_vars => IInv'
  BY TypeInvNext, OwnedNext, LeasesNext
<1>3. IInv /\ IInv' /\ [Next]_vars => [Leases!Next]_<<Working, HolderOf>>
  BY MapNext
<1> QED
  BY <1>1, <1>2, <1>3, PTL DEF Spec, LeasesImplemented, Leases!Spec

-----------------------------------------------------------------------------
(* A queued run is not lost                                                *)

\* The runs that the queue lists or the drain holds.
Waiting == {r \in Runs : InQueue(queue, r) \/ drain.run = r}

\* No run is listed twice, and the run that the drain holds is not listed.
Listed ==
    /\ Distinct(queue)
    /\ \A r \in Runs : drain.run = r => ~InQueue(queue, r)

\* No operation but its start works on a run that the store does not have.
AbsentUntouched(r) ==
    status[r] = "absent" =>
        /\ r \notin Waiting
        /\ cancel[r] = "idle"
        /\ resume[r] = "idle"
        /\ gate[r] = FALSE
        /\ \A g \in 1 .. Executions : exec[r][g] = "none"

\* A start creates the row of its run, and enqueues it after that.
StartInOrder(r) ==
    /\ start[r] \in {"validating", "enqueueing", "reserved"}
          => status[r] = "absent"
    /\ start[r] \in {"created", "row"} => status[r] # "absent"
    /\ start[r] \in {"row", "stranded"} => r \notin Waiting

\* Startup serves no starts and enqueues every run once.
BootInOrder(r) ==
    boot # "up" =>
        /\ start[r] \in {"idle", "done"}
        /\ r \in Waiting => boot = "reenqueue" /\ r \in visited

\* A cancel that is past its write, and a drain that is past the activation,
\* may drop the run: it is not stored as queued any more.
DropsAreDecided(r) ==
    status[r] = "queued" =>
        /\ cancel[r] \in {"idle", "read"}
        /\ drain.run = r => drain.pc # "activated"
        /\ drain.run = r /\ drain.pc = "cancelling" => cancel[r] = "read"

\* Somebody is still going to look at a run that is stored as queued.
QueuedExpected(r) ==
    status[r] = "queued" =>
        \/ r \in Waiting
        \/ start[r] \in {"row", "stranded"}
        \/ boot # "up" /\ r \notin visited

RunInv(r) ==
    /\ AbsentUntouched(r)
    /\ StartInOrder(r)
    /\ BootInOrder(r)
    /\ DropsAreDecided(r)
    /\ QueuedExpected(r)

NotLostInv == Listed /\ \A r \in Runs : RunInv(r)

\* A step keeps the invariant of a run that it leaves alone; the drain may
\* take the run from the queue or put it back.
LEMMA RunLeftAlone ==
    ASSUME NEW x \in Runs, RunInv(x),
           status'[x] = status[x], gate'[x] = gate[x], start'[x] = start[x],
           cancel'[x] = cancel[x], resume'[x] = resume[x], exec'[x] = exec[x],
           boot' = boot, x \in visited' <=> x \in visited,
           x \in Waiting' <=> x \in Waiting,
           drain'.run = x /\ drain'.pc \in {"activated", "cancelling"} =>
               drain.run = x /\ drain'.pc = drain.pc
    PROVE  RunInv(x)'
<1> USE DEF RunInv
<1>1. AbsentUntouched(x)'
  BY DEF AbsentUntouched
<1>2. StartInOrder(x)' /\ BootInOrder(x)' /\ QueuedExpected(x)'
  BY DEF StartInOrder, BootInOrder, QueuedExpected
<1>3. DropsAreDecided(x)'
  BY DEF DropsAreDecided
<1> QED
  BY <1>1, <1>2, <1>3

\* The state of the queue and the drain after a step, as the invariant sees it.
LEMMA WaitingPrimed ==
    ASSUME NEW S \in SUBSET Runs, Distinct(queue'),
           \A x \in Runs : drain'.run = x => ~InQueue(queue', x),
           \A x \in Runs : InQueue(queue', x) \/ drain'.run = x <=> x \in S
    PROVE  Listed' /\ Waiting' = S
BY DEF Listed, Waiting, Distinct, InQueue

\* A step that leaves the queue and the run of the drain alone.
LEMMA WaitingSame ==
    ASSUME Listed, queue' = queue, drain'.run = drain.run
    PROVE  Listed' /\ Waiting' = Waiting
BY DEF Listed, Waiting, Distinct, InQueue

\* The loop head of drainAdmissionQueue takes a run from the queue or none: the
\* runs that wait are the ones the queue had.
LEMMA LoopWaiting ==
    ASSUME NEW act, NEW q, Well(q), Distinct(q), NEW roots, NEW callers,
           DrainLoop(act, q, roots, callers)
    PROVE  /\ Listed'
           /\ Waiting' = QueuedRuns(q)
           /\ drain'.pc \in {"idle", "reading"}
<1>0. QueuedRuns(q) \in SUBSET Runs
  BY DEF QueuedRuns
<1>1. CASE /\ accepting
           /\ Cardinality(act) < maxConcurrent
           /\ CanDequeue(q, roots, callers)
  <2> DEFINE next == DequeueNext(q, roots, callers)
  <2>1. /\ next.run \in Runs
        /\ InQueue(q, next.run)
        /\ Distinct(next.queue)
        /\ \A x \in Runs :
              InQueue(next.queue, x) <=> x # next.run /\ InQueue(q, x)
    BY <1>1, DequeueMembers
  <2>2. /\ drain' = [pc |-> "reading", run |-> next.run,
                     roots |-> roots, callers |-> callers]
        /\ queue' = next.queue
    BY <1>1 DEF DrainLoop
  <2> HIDE DEF next
  <2>3. drain'.run = next.run /\ drain'.pc = "reading"
    BY <2>2
  <2>4. /\ Distinct(queue')
        /\ \A x \in Runs : drain'.run = x => ~InQueue(queue', x)
        /\ \A x \in Runs :
              InQueue(queue', x) \/ drain'.run = x <=> x \in QueuedRuns(q)
    BY <2>1, <2>2, <2>3 DEF QueuedRuns
  <2> QED
    BY <1>0, <2>3, <2>4, WaitingPrimed
<1>2. CASE ~ (/\ accepting
              /\ Cardinality(act) < maxConcurrent
              /\ CanDequeue(q, roots, callers))
  <2>1. drain' = IdleDrain /\ queue' = q
    BY <1>2 DEF DrainLoop
  <2>2. drain'.pc = "idle" /\ \A x \in Runs : drain'.run # x
    BY <2>1, QueueAssumption DEF IdleDrain
  <2>3. \A x \in Runs :
           InQueue(queue', x) \/ drain'.run = x <=> x \in QueuedRuns(q)
    BY <2>1, <2>2 DEF QueuedRuns
  <2> QED
    BY <1>0, <2>1, <2>2, <2>3, WaitingPrimed
<1> QED
  BY <1>1, <1>2

\* A call of drainAdmissionQueue loses and duplicates no entry.
LEMMA CallDrainWaiting ==
    ASSUME TypeInv, Listed, NEW act, CallDrain(act, queue)
    PROVE  /\ Listed'
           /\ Waiting' = Waiting
           /\ drain' = drain \/ drain'.pc \in {"idle", "reading"}
<1>1. CASE drain.pc = "idle"
  <2>1. DrainLoop(act, queue, {}, {})
    BY <1>1 DEF CallDrain
  <2>2. Waiting = QueuedRuns(queue)
    BY <1>1, QueueAssumption DEF Waiting, QueuedRuns, TypeInv, DrainHolds
  <2> QED
    BY <2>1, <2>2, LoopWaiting DEF TypeInv, Listed
<1>2. CASE drain.pc # "idle"
  BY <1>2, WaitingSame DEF CallDrain
<1> QED
  BY <1>1, <1>2

\* Neither does removeActiveEntry of a tracked run, nor untrackIfGeneration.
LEMMA RemoveTrackedWaiting ==
    ASSUME TypeInv, Listed, NEW r \in Runs, NEW g,
           RemoveTracked(r) \/ Untrack(r, g)
    PROVE  /\ Listed'
           /\ Waiting' = Waiting
           /\ drain' = drain \/ drain'.pc \in {"idle", "reading"}
<1>1. CASE RemoveTracked(r)
  BY <1>1, CallDrainWaiting, WaitingSame DEF RemoveTracked
<1>2. CASE Untrack(r, g)
  BY <1>1, <1>2, WaitingSame DEF Untrack
<1> QED
  BY <1>1, <1>2

\* The steps of an execution: the run has a row, and keeps one.
LEMMA ExecutionNotLost ==
    ASSUME TypeInv, NotLostInv, NEW r \in Runs, NEW g \in 1 .. Executions,
           Execution(r, g)
    PROVE  NotLostInv'
<1> USE DEF durable, manager, counters
<1>1. Listed /\ \A x \in Runs : RunInv(x)
  BY DEF NotLostInv
<1>2. /\ status \in [Runs -> Statuses] /\ gate \in [Runs -> BOOLEAN]
      /\ resume \in [Runs -> ResumeStates]
      /\ exec \in [Runs -> [1 .. Executions -> ExecStates]]
  BY DEF TypeInv, TypeOK
<1>3. exec[r][g] # "none"
  BY DEF Execution, ReachGate, EndRead, EndWrite, ExecutionThrows,
         ResumedStageDone, ResumedStageFailed, ResumedStageRepaired, Settle
<1>4. status[r] # "absent"
  BY <1>1, <1>3 DEF RunInv, AbsentUntouched
<1>5. /\ UNCHANGED <<boot, visited, start, cancel>>
      /\ \A x \in Runs \ {r} : /\ status'[x] = status[x]
                               /\ gate'[x] = gate[x]
                               /\ resume'[x] = resume[x]
  BY <1>2 DEF Execution, ReachGate, EndRead, EndWrite, ExecutionThrows,
         ResumedStageDone, ResumedStageFailed, ResumedStageRepaired, Settle
<1>6. \A x \in Runs \ {r} : exec'[x] = exec[x]
  BY <1>2 DEF Execution, ReachGate, EndRead, EndWrite, ExecutionThrows,
         ResumedStageDone, ResumedStageFailed, ResumedStageRepaired, Settle
<1>7. /\ Listed'
      /\ Waiting' = Waiting
      /\ drain' = drain \/ drain'.pc \in {"idle", "reading"}
  <2>1. CASE UNCHANGED <<queue, drain>>
    BY <1>1, <2>1, WaitingSame
  <2>2. CASE Settle(r, g)
    BY <1>1, <2>2, RemoveTrackedWaiting DEF Settle
  <2> QED
    BY <2>1, <2>2 DEF Execution, ReachGate, EndRead, EndWrite, ExecutionThrows,
         ResumedStageDone, ResumedStageFailed, ResumedStageRepaired
<1>8. status'[r] # "absent" /\ (status'[r] = "queued" => status[r] = "queued")
  BY <1>2, <1>4 DEF Execution, ReachGate, EndRead, EndWrite, ExecutionThrows,
         ResumedStageDone, ResumedStageFailed, ResumedStageRepaired, Settle
<1>9. RunInv(r)'
  <2>1. AbsentUntouched(r)'
    BY <1>8 DEF AbsentUntouched
  <2>2. StartInOrder(r)' /\ BootInOrder(r)' /\ QueuedExpected(r)'
    BY <1>1, <1>4, <1>5, <1>7, <1>8
       DEF RunInv, StartInOrder, BootInOrder, QueuedExpected
  <2>3. DropsAreDecided(r)'
    BY <1>1, <1>5, <1>7, <1>8 DEF RunInv, DropsAreDecided
  <2> QED
    BY <2>1, <2>2, <2>3 DEF RunInv
<1>10. ASSUME NEW x \in Runs \ {r}
       PROVE  RunInv(x)'
  BY <1>1, <1>5, <1>6, <1>7, RunLeftAlone
<1> QED
  BY <1>7, <1>9, <1>10 DEF NotLostInv

\* The steps of startRun: only the creation of the row makes a run queued, and
\* the enqueue that follows it finds the run not listed.
LEMMA StartingNotLost ==
    ASSUME TypeInv, NotLostInv, NEW r \in Runs, Starting(r)
    PROVE  NotLostInv'
<1> USE DEF durable, manager, counters
<1>1. Listed /\ \A x \in Runs : RunInv(x)
  BY DEF NotLostInv
<1>2. /\ status \in [Runs -> Statuses] /\ start \in [Runs -> StartStates]
      /\ exec \in [Runs -> [1 .. Executions -> ExecStates]]
  BY DEF TypeInv, TypeOK
<1>3. /\ UNCHANGED <<boot, visited, drain, gate, cancel, resume>>
      /\ \A x \in Runs \ {r} : /\ status'[x] = status[x]
                               /\ start'[x] = start[x]
  BY <1>2 DEF Starting, StartRun, Admit, CreateQueuedRow, PushQueued,
         EnqueueFails, CreateRow, TrackStarted, StartFails
<1>4. \A x \in Runs \ {r} : exec'[x] = exec[x]
  BY <1>2 DEF Starting, StartRun, Admit, CreateQueuedRow, PushQueued,
         EnqueueFails, CreateRow, TrackStarted, StartFails, Track, Launch
<1>5. ASSUME Listed', \A x \in Runs \ {r} : x \in Waiting' <=> x \in Waiting,
             RunInv(r)'
      PROVE  NotLostInv'
  <2>1. ASSUME NEW x \in Runs \ {r}
        PROVE  RunInv(x)'
    BY <1>1, <1>3, <1>4, <1>5, RunLeftAlone
  <2> QED
    BY <1>5, <2>1 DEF NotLostInv
<1> USE DEF RunInv, AbsentUntouched, StartInOrder, BootInOrder,
            DropsAreDecided, QueuedExpected
<1>6. CASE PushQueued(r)
  <2>1. r \notin Waiting /\ boot = "up" /\ status[r] # "absent"
    BY <1>1, <1>6 DEF PushQueued
  <2>2. ~InQueue(queue, r) /\ drain.run # r
    BY <2>1 DEF Waiting
  <2>3. /\ Distinct(queue')
        /\ \A x \in Runs : InQueue(queue', x) <=> x = r \/ InQueue(queue, x)
    BY <1>1, <1>6, <2>2, EnqueueMembers DEF PushQueued, TypeInv, Listed
  <2>4. Listed' /\ Waiting' = Waiting \cup {r}
    <3>1. \A x \in Runs : drain'.run = x => ~InQueue(queue', x)
      BY <1>1, <1>3, <2>2, <2>3 DEF Listed
    <3>2. \A x \in Runs :
             InQueue(queue', x) \/ drain'.run = x <=> x \in Waiting \cup {r}
      BY <1>3, <2>3 DEF Waiting
    <3>3. Waiting \cup {r} \in SUBSET Runs
      BY DEF Waiting
    <3> QED
      BY <2>3, <3>1, <3>2, <3>3, WaitingPrimed
  <2>5. RunInv(r)'
    BY <1>1, <1>2, <1>3, <1>6, <2>1, <2>4 DEF PushQueued
  <2> QED
    BY <1>5, <2>4, <2>5
<1>7. CASE UNCHANGED queue
  <2>1. Listed' /\ Waiting' = Waiting
    BY <1>1, <1>3, <1>7, WaitingSame
  <2>2. CASE StartRun(r)
    <3>1. RunInv(r)'
      BY <1>1, <1>2, <2>1, <2>2 DEF StartRun
    <3> QED
      BY <1>5, <2>1, <3>1
  <2>3. CASE Admit(r)
    <3>1. start'[r] \in {"reserved", "enqueueing", "done"}
      BY <1>2, <2>3 DEF Admit
    <3>2. RunInv(r)'
      BY <1>1, <1>3, <2>1, <2>3, <3>1 DEF Admit
    <3> QED
      BY <1>5, <2>1, <3>2
  <2>4. CASE CreateQueuedRow(r)
    <3>1. /\ status'[r] = "queued" /\ start'[r] = "row"
          /\ r \notin Waiting /\ cancel[r] = "idle" /\ boot = "up"
      BY <1>1, <1>2, <2>4 DEF CreateQueuedRow
    <3>2. drain'.run # r /\ cancel'[r] = "idle" /\ boot' = "up"
      BY <1>3, <3>1 DEF Waiting
    <3>3. RunInv(r)'
      BY <2>1, <3>1, <3>2
    <3> QED
      BY <1>5, <2>1, <3>3
  <2>5. CASE EnqueueFails(r)
    <3>1. RunInv(r)'
      BY <1>1, <1>2, <2>1, <2>5 DEF EnqueueFails
    <3> QED
      BY <1>5, <2>1, <3>1
  <2>6. CASE CreateRow(r)
    <3>1. RunInv(r)'
      BY <1>1, <1>2, <2>1, <2>6 DEF CreateRow
    <3> QED
      BY <1>5, <2>1, <3>1
  <2>7. CASE TrackStarted(r)
    <3>1. start'[r] = "done" /\ status' = status /\ status[r] # "absent"
      BY <1>1, <1>2, <2>7 DEF TrackStarted
    <3>2. RunInv(r)'
      BY <1>1, <1>3, <2>1, <2>7, <3>1 DEF TrackStarted
    <3> QED
      BY <1>5, <2>1, <3>2
  <2>8. CASE StartFails(r)
    <3>1. RunInv(r)'
      BY <1>1, <1>2, <2>1, <2>8 DEF StartFails
    <3> QED
      BY <1>5, <2>1, <3>1
  <2> QED
    BY <1>6, <2>2, <2>3, <2>4, <2>5, <2>6, <2>7, <2>8 DEF Starting
<1> QED
  BY <1>6, <1>7 DEF Starting, StartRun, Admit, CreateQueuedRow,
         EnqueueFails, CreateRow, TrackStarted, StartFails

\* The steps of cancelRun: it leaves the queue alone until it has stored
\* "cancelled".
LEMMA CancellingNotLost ==
    ASSUME TypeInv, NotLostInv, NEW r \in Runs, Cancelling(r)
    PROVE  NotLostInv'
<1> USE DEF durable, manager, counters
<1>1. Listed /\ \A x \in Runs : RunInv(x)
  BY DEF NotLostInv
<1>2. /\ status \in [Runs -> Statuses] /\ cancel \in [Runs -> CancelStates]
      /\ gate \in [Runs -> BOOLEAN]
  BY DEF TypeInv, TypeOK
<1>3. /\ UNCHANGED <<boot, visited, start, resume, exec>>
      /\ \A x \in Runs \ {r} : /\ status'[x] = status[x]
                               /\ cancel'[x] = cancel[x]
                               /\ gate'[x] = gate[x]
  BY <1>2 DEF Cancelling, CancelBegin, CancelWrite, CancelDequeue, CancelRelease
<1>4. ASSUME Listed', \A x \in Runs \ {r} : x \in Waiting' <=> x \in Waiting,
             drain' = drain \/ drain'.pc \in {"idle", "reading"}, RunInv(r)'
      PROVE  NotLostInv'
  <2>1. ASSUME NEW x \in Runs \ {r}
        PROVE  RunInv(x)'
    BY <1>1, <1>3, <1>4, RunLeftAlone
  <2> QED
    BY <1>4, <2>1 DEF NotLostInv
<1> USE DEF RunInv, AbsentUntouched, StartInOrder, BootInOrder,
            DropsAreDecided, QueuedExpected
<1>5. CASE CancelBegin(r)
  <2>1. Listed' /\ Waiting' = Waiting /\ drain' = drain
    BY <1>1, <1>5, WaitingSame DEF CancelBegin
  <2>2. RunInv(r)'
    BY <1>1, <1>2, <1>5, <2>1 DEF CancelBegin
  <2> QED
    BY <1>4, <2>1, <2>2
<1>6. CASE CancelWrite(r)
  <2>1. Listed' /\ Waiting' = Waiting /\ drain' = drain
    BY <1>1, <1>6, WaitingSame DEF CancelWrite
  <2>2. RunInv(r)'
    BY <1>1, <1>2, <1>6, <2>1 DEF CancelWrite
  <2> QED
    BY <1>4, <2>1, <2>2
<1>7. CASE CancelDequeue(r)
  <2>1. status[r] \notin {"absent", "queued"} /\ drain' = drain
    BY <1>1, <1>7 DEF CancelDequeue
  <2>2. /\ Distinct(queue')
        /\ \A x \in Runs : InQueue(queue', x) <=> x # r /\ InQueue(queue, x)
    BY <1>1, <1>7, RemoveRunMembers DEF CancelDequeue, TypeInv, Listed
  <2> DEFINE left == {x \in Waiting : x # r \/ drain.run = r}
  <2>3. Listed' /\ Waiting' = left
    <3>1. \A x \in Runs : drain'.run = x => ~InQueue(queue', x)
      BY <1>1, <2>1, <2>2 DEF Listed
    <3>2. \A x \in Runs : InQueue(queue', x) \/ drain'.run = x <=> x \in left
      BY <2>1, <2>2 DEF Waiting
    <3>3. left \in SUBSET Runs
      BY DEF Waiting
    <3> HIDE DEF left
    <3> QED
      BY <2>2, <3>1, <3>2, <3>3, WaitingPrimed
  <2>4. RunInv(r)'
    BY <1>1, <1>2, <1>7, <2>1, <2>3 DEF CancelDequeue
  <2>5. \A x \in Runs \ {r} : x \in Waiting' <=> x \in Waiting
    BY <2>3
  <2> QED
    BY <1>4, <2>1, <2>3, <2>4, <2>5
<1>8. CASE CancelRelease(r)
  <2>1. /\ Listed'
        /\ Waiting' = Waiting
        /\ drain' = drain \/ drain'.pc \in {"idle", "reading"}
    BY <1>1, <1>8, RemoveTrackedWaiting DEF CancelRelease
  <2>2. status[r] \notin {"absent", "queued"} /\ status' = status
    BY <1>1, <1>8 DEF CancelRelease
  <2>3. RunInv(r)'
    BY <1>1, <1>3, <2>1, <2>2
  <2> QED
    BY <1>4, <2>1, <2>3
<1> QED
  BY <1>5, <1>6, <1>7, <1>8 DEF Cancelling

\* The steps of deliverAnswer: it works on a run that has a row, and does not
\* store its status.
LEMMA AnsweringNotLost ==
    ASSUME TypeInv, NotLostInv, NEW r \in Runs, Answering(r)
    PROVE  NotLostInv'
<1> USE DEF durable, manager, counters
<1>1. Listed /\ \A x \in Runs : RunInv(x)
  BY DEF NotLostInv
<1>2. /\ resume \in [Runs -> ResumeStates]
      /\ gate \in [Runs -> BOOLEAN]
      /\ exec \in [Runs -> [1 .. Executions -> ExecStates]]
  BY DEF TypeInv, TypeOK
<1>3. status[r] # "absent"
  BY <1>1, <1>2 DEF RunInv, AbsentUntouched, Answering, AnswerCheck,
         AnswerAcquire, AnswerStore, AnswerRefused, AnswerLaunch
<1>4. /\ UNCHANGED <<boot, visited, status, start, cancel>>
      /\ \A x \in Runs \ {r} : /\ resume'[x] = resume[x]
                               /\ gate'[x] = gate[x]
  BY <1>2 DEF Answering, AnswerCheck, AnswerAcquire, AnswerStore,
         AnswerRefused, AnswerLaunch
<1>5. \A x \in Runs \ {r} : exec'[x] = exec[x]
  BY <1>2 DEF Answering, AnswerCheck, AnswerAcquire, AnswerStore,
         AnswerRefused, AnswerLaunch, Launch
<1>6. /\ Listed'
      /\ Waiting' = Waiting
      /\ drain' = drain \/ drain'.pc \in {"idle", "reading"}
  <2>1. CASE UNCHANGED <<queue, drain>>
    BY <1>1, <2>1, WaitingSame
  <2>2. CASE RemoveTracked(r)
    BY <1>1, <2>2, RemoveTrackedWaiting
  <2> QED
    BY <2>1, <2>2 DEF Answering, AnswerCheck, AnswerAcquire, AnswerStore,
         AnswerRefused, AnswerLaunch
<1>7. RunInv(r)'
  BY <1>1, <1>3, <1>4, <1>6 DEF RunInv, AbsentUntouched, StartInOrder,
     BootInOrder, DropsAreDecided, QueuedExpected
<1>8. ASSUME NEW x \in Runs \ {r}
      PROVE  RunInv(x)'
  BY <1>1, <1>4, <1>5, <1>6, RunLeftAlone
<1> QED
  BY <1>6, <1>7, <1>8 DEF NotLostInv

\* The steps of startDequeuedAdmission: the loop goes on without the run it
\* holds only when the run is no longer queued, and puts it back otherwise.
LEMMA DrainingNotLost ==
    ASSUME TypeInv, NotLostInv, Draining
    PROVE  NotLostInv'
<1> USE DEF durable, manager, counters
<1>1. Listed /\ \A x \in Runs : RunInv(x)
  BY DEF NotLostInv
<1>2. /\ status \in [Runs -> Statuses] /\ cancel \in [Runs -> CancelStates]
      /\ exec \in [Runs -> [1 .. Executions -> ExecStates]]
      /\ Well(queue) /\ Distinct(queue)
  BY <1>1 DEF TypeInv, TypeOK, Listed
<1>3. PICK r \in Runs :
          drain.run = r /\ drain \in DrainRecords /\ drain.pc # "idle"
  <2>1. drain.pc # "idle"
    BY DEF Draining, DrainRead, DrainReserve, DrainMaterialize, DrainActivate,
           DrainTrack, DrainFails, DrainCancelled
  <2> QED
    BY <2>1, HeldRun
<1>4. ~InQueue(queue, r) /\ r \in Waiting /\ QueuedRuns(queue) = Waiting \ {r}
  BY <1>1, <1>3 DEF Listed, Waiting, QueuedRuns
<1>5. /\ Well(RequeueFront(queue, r))
      /\ Distinct(RequeueFront(queue, r))
      /\ QueuedRuns(RequeueFront(queue, r)) = Waiting
  BY <1>2, <1>3, <1>4, EnqueueKeepsWell, EnqueueMembers DEF Waiting, QueuedRuns
<1>6. status[r] # "absent"
  BY <1>1, <1>3, <1>4 DEF RunInv, AbsentUntouched
<1>7. /\ UNCHANGED <<boot, visited, start, resume, gate>>
      /\ \A x \in Runs \ {r} : /\ status'[x] = status[x]
                               /\ cancel'[x] = cancel[x]
  BY <1>2, <1>3 DEF Draining, DrainRead, DrainReserve, DrainMaterialize,
         DrainActivate, DrainTrack, DrainFails, DrainCancelled
<1>8. \A x \in Runs \ {r} : exec'[x] = exec[x]
  BY <1>2, <1>3 DEF Draining, DrainRead, DrainReserve, DrainMaterialize,
         DrainActivate, DrainTrack, DrainFails, DrainCancelled, Track, Launch
<1>9. ASSUME Listed', \A x \in Runs \ {r} : x \in Waiting' <=> x \in Waiting,
             drain'.pc \in {"idle", "reading"} \/ drain'.run = r, RunInv(r)'
      PROVE  NotLostInv'
  <2>1. ASSUME NEW x \in Runs \ {r}
        PROVE  RunInv(x)'
    BY <1>3, <1>1, <1>7, <1>8, <1>9, RunLeftAlone
  <2> QED
    BY <1>9, <2>1 DEF NotLostInv
<1> DEFINE Dropped == /\ Listed' /\ Waiting' = Waiting \ {r}
                      /\ drain'.pc \in {"idle", "reading"}
           Returned == /\ Listed' /\ Waiting' = Waiting
                       /\ drain'.pc \in {"idle", "reading"}
           Kept == /\ Listed' /\ Waiting' = Waiting
                   /\ drain'.run = r
<1>10. ASSUME NEW act, NEW roots, NEW callers,
              DrainLoop(act, queue, roots, callers)
       PROVE  Dropped
  BY <1>2, <1>4, <1>10, LoopWaiting
<1>11. ASSUME NEW roots, NEW callers, PutBackAndLoop(roots, callers)
       PROVE  Returned
  BY <1>3, <1>5, <1>11, LoopWaiting DEF PutBackAndLoop
<1>12. ASSUME queue' = queue, NEW pc, drain' = [drain EXCEPT !.pc = pc]
       PROVE  Kept /\ drain'.pc = pc
  <2>1. drain'.run = drain.run /\ drain'.pc = pc
    BY <1>3, <1>12 DEF DrainRecords
  <2> QED
    BY <1>3, <1>1, <1>12, <2>1, WaitingSame
<1> USE DEF RunInv, AbsentUntouched, StartInOrder, BootInOrder,
            DropsAreDecided, QueuedExpected
<1>13. ASSUME Dropped, status' = status, cancel' = cancel, status[r] # "queued"
       PROVE  NotLostInv'
  <2>1. RunInv(r)'
    BY <1>1, <1>3, <1>6, <1>7, <1>13
  <2> QED
    BY <1>9, <1>13, <2>1
<1>14. ASSUME Returned, status' = status, cancel' = cancel
       PROVE  NotLostInv'
  <2>1. RunInv(r)'
    BY <1>1, <1>3, <1>6, <1>7, <1>14
  <2> QED
    BY <1>9, <1>14, <2>1
<1>15. ASSUME Kept, status' = status, cancel' = cancel,
              drain'.pc \notin {"activated", "cancelling"}
       PROVE  NotLostInv'
  <2>1. RunInv(r)'
    BY <1>1, <1>3, <1>6, <1>7, <1>15
  <2> QED
    BY <1>9, <1>15, <2>1
<1> HIDE DEF RunInv, AbsentUntouched, StartInOrder, BootInOrder,
             DropsAreDecided, QueuedExpected, Dropped, Returned, Kept
<1>16. CASE DrainRead
  <2>1. CASE status[r] = "queued"
    BY <1>3, <1>12, <1>15, <1>16, <2>1 DEF DrainRead
  <2>2. CASE status[r] # "queued"
    BY <1>3, <1>10, <1>13, <1>16, <2>2 DEF DrainRead
  <2> QED
    BY <2>1, <2>2
<1>17. CASE DrainReserve
  <2>1. status' = status /\ cancel' = cancel
    BY <1>17 DEF DrainReserve
  <2>2. CASE \E roots, callers : PutBackAndLoop(roots, callers)
    BY <1>11, <1>14, <2>1, <2>2
  <2>3. CASE drain' = [drain EXCEPT !.pc = "reserved"] /\ queue' = queue
    BY <1>12, <1>15, <2>1, <2>3
  <2>4. CASE queue' = RequeueFront(queue, r) /\ drain' = IdleDrain
    <3>1. drain'.pc = "idle" /\ \A x \in Runs : drain'.run # x
      BY <2>4, QueueAssumption DEF IdleDrain
    <3>2. \A x \in Runs : InQueue(queue', x) \/ drain'.run = x <=> x \in Waiting
      BY <1>5, <2>4, <3>1 DEF QueuedRuns
    <3>3. Waiting \in SUBSET Runs
      BY DEF Waiting
    <3>4. Listed' /\ Waiting' = Waiting
      BY <1>5, <2>4, <3>1, <3>2, <3>3, WaitingPrimed
    <3> QED
      BY <1>14, <2>1, <3>1, <3>4 DEF Returned
  <2> QED
    BY <1>3, <1>17, <2>2, <2>3, <2>4 DEF DrainReserve
<1>18. CASE DrainMaterialize
  <2>1. CASE status[r] = "queued"
    BY <1>3, <1>12, <1>15, <1>18, <2>1 DEF DrainMaterialize
  <2>2. CASE status[r] # "queued"
    BY <1>3, <1>10, <1>13, <1>18, <2>2 DEF DrainMaterialize
  <2> QED
    BY <2>1, <2>2
<1>19. CASE DrainActivate
  <2>1. CASE status[r] = "queued"
    <3>1. Kept /\ drain'.pc = "activated"
      BY <1>3, <1>12, <1>19, <2>1 DEF DrainActivate
    <3>2. status'[r] = "running" /\ cancel' = cancel
      BY <1>2, <1>3, <1>19, <2>1 DEF DrainActivate
    <3>3. RunInv(r)'
      BY <1>1, <1>3, <1>6, <1>7, <3>1, <3>2
         DEF RunInv, AbsentUntouched, StartInOrder, BootInOrder,
             DropsAreDecided, QueuedExpected, Kept
    <3> QED
      BY <1>9, <3>1, <3>3 DEF Kept
  <2>2. CASE status[r] # "queued"
    BY <1>3, <1>10, <1>13, <1>19, <2>2 DEF DrainActivate
  <2> QED
    BY <2>1, <2>2
<1>20. CASE DrainTrack
  <2>1. status[r] # "queued"
    BY <1>1, <1>3, <1>20 DEF DrainTrack, RunInv, DropsAreDecided
  <2> QED
    BY <1>10, <1>13, <1>20, <2>1 DEF DrainTrack
<1>21. CASE DrainFails
  <2>1. Kept /\ drain'.pc = "cancelling"
    BY <1>12, <1>21 DEF DrainFails
  <2>2. /\ status' = status
        /\ cancel'[r] = IF cancel[r] = "idle" /\ status[r] \notin Terminal
                        THEN "read" ELSE cancel[r]
    BY <1>2, <1>3, <1>21 DEF DrainFails
  <2>3. status[r] = "queued" => cancel'[r] = "read"
    BY <1>1, <1>3, <2>2 DEF RunInv, DropsAreDecided, Terminal
  <2>4. RunInv(r)'
    BY <1>1, <1>3, <1>6, <1>7, <2>1, <2>2, <2>3
       DEF RunInv, AbsentUntouched, StartInOrder, BootInOrder,
           DropsAreDecided, QueuedExpected, Kept
  <2> QED
    BY <1>9, <2>1, <2>4 DEF Kept
<1>22. CASE DrainCancelled
  <2>1. status[r] # "queued"
    BY <1>1, <1>3, <1>22 DEF DrainCancelled, RunInv, DropsAreDecided
  <2> QED
    BY <1>10, <1>13, <1>22, <2>1 DEF DrainCancelled
<1> QED
  BY <1>16, <1>17, <1>18, <1>19, <1>20, <1>21, <1>22 DEF Draining

\* Startup: a run is re-enqueued once, because only the runs dealt with so far
\* are listed.
LEMMA BootingNotLost ==
    ASSUME TypeInv, NotLostInv, NEW r \in Runs,
           AttachWaiting(r) \/ ResumeStalled(r) \/ Reenqueue(r)
    PROVE  NotLostInv'
<1> USE DEF durable, manager, counters
<1>1. Listed /\ \A x \in Runs : RunInv(x)
  BY DEF NotLostInv
<1>2. /\ status \in [Runs -> Statuses] /\ gate \in [Runs -> BOOLEAN]
      /\ exec \in [Runs -> [1 .. Executions -> ExecStates]]
  BY DEF TypeInv, TypeOK
<1>3. /\ UNCHANGED <<boot, start, resume, cancel, drain>>
      /\ visited' = visited \cup {r}
      /\ \A x \in Runs \ {r} : /\ status'[x] = status[x]
                               /\ gate'[x] = gate[x]
  BY <1>2 DEF AttachWaiting, ResumeStalled, Reenqueue
<1>4. \A x \in Runs \ {r} : exec'[x] = exec[x]
  BY <1>2 DEF AttachWaiting, ResumeStalled, Reenqueue, Launch
<1>5. ASSUME Listed', \A x \in Runs \ {r} : x \in Waiting' <=> x \in Waiting,
             RunInv(r)'
      PROVE  NotLostInv'
  <2>1. ASSUME NEW x \in Runs \ {r}
        PROVE  RunInv(x)'
    BY <1>1, <1>3, <1>4, <1>5, RunLeftAlone
  <2> QED
    BY <1>5, <2>1 DEF NotLostInv
<1> USE DEF RunInv, AbsentUntouched, StartInOrder, BootInOrder,
            DropsAreDecided, QueuedExpected
<1>6. CASE AttachWaiting(r) \/ ResumeStalled(r)
  <2>1. Listed' /\ Waiting' = Waiting
    BY <1>1, <1>6, WaitingSame DEF AttachWaiting, ResumeStalled
  <2>2. status[r] = "running" /\ status'[r] \in {"running", "failed"}
    BY <1>2, <1>6 DEF AttachWaiting, ResumeStalled, NeedsBoot
  <2>3. RunInv(r)'
    BY <1>1, <1>3, <2>1, <2>2
  <2> QED
    BY <1>5, <2>1, <2>3
<1>7. CASE Reenqueue(r)
  <2>1. r \notin Waiting /\ status[r] = "queued" /\ boot = "reenqueue"
    BY <1>1, <1>7 DEF Reenqueue, NeedsBoot
  <2>2. ~InQueue(queue, r) /\ drain.run # r
    BY <2>1 DEF Waiting
  <2>3. /\ Distinct(queue')
        /\ \A x \in Runs : InQueue(queue', x) <=> x = r \/ InQueue(queue, x)
    BY <1>1, <1>7, <2>2, EnqueueMembers DEF Reenqueue, TypeInv, Listed
  <2>4. Listed' /\ Waiting' = Waiting \cup {r}
    <3>1. \A x \in Runs : drain'.run = x => ~InQueue(queue', x)
      BY <1>1, <1>3, <2>2, <2>3 DEF Listed
    <3>2. \A x \in Runs :
             InQueue(queue', x) \/ drain'.run = x <=> x \in Waiting \cup {r}
      BY <1>3, <2>3 DEF Waiting
    <3>3. Waiting \cup {r} \in SUBSET Runs
      BY DEF Waiting
    <3> QED
      BY <2>3, <3>1, <3>2, <3>3, WaitingPrimed
  <2>5. status' = status
    BY <1>7 DEF Reenqueue
  <2>6. RunInv(r)'
    BY <1>1, <1>3, <2>1, <2>2, <2>4, <2>5
  <2> QED
    BY <1>5, <2>4, <2>6
<1> QED
  BY <1>6, <1>7

\* The end of a startup phase, shutdown, a new slot count and a crash.
LEMMA HostNotLost ==
    ASSUME TypeInv, NotLostInv,
           BootNext \/ StopAccepting \/ Crash
             \/ \E n \in SlotCounts : SetMaxConcurrent(n)
    PROVE  NotLostInv'
<1> USE DEF durable, manager, counters
<1>1. Listed /\ \A x \in Runs : RunInv(x)
  BY DEF NotLostInv
<1>2. boot \in BootPhases /\ gate \in [Runs -> BOOLEAN]
      /\ start \in [Runs -> StartStates]
  BY DEF TypeInv, TypeOK
<1>3. CASE BootNext
  <2>1. /\ Listed'
        /\ Waiting' = Waiting
        /\ drain' = drain \/ drain'.pc \in {"idle", "reading"}
    BY <1>1, <1>3, CallDrainWaiting, WaitingSame DEF BootNext
  <2>2. /\ UNCHANGED <<status, start, cancel, resume, exec>>
        /\ visited' = {}
        /\ boot # "up"
        /\ boot' = "up" => boot = "reenqueue"
        /\ boot' = "reenqueue" => boot = "resume"
        /\ boot = "reenqueue" => boot' = "up"
    BY <1>2, <1>3 DEF BootNext, BootPhases
  <2>3. \A x \in Runs : gate[x] = FALSE => gate'[x] = FALSE
    BY <1>2, <1>3 DEF BootNext
  <2>4. \A x \in Runs : boot = "reenqueue" /\ status[x] = "queued" => x \in visited
    BY <1>3 DEF BootNext, NeedsBoot
  <2>5. ASSUME NEW x \in Runs
        PROVE  RunInv(x)'
    BY <1>1, <2>1, <2>2, <2>3, <2>4
       DEF RunInv, AbsentUntouched, StartInOrder, BootInOrder,
           DropsAreDecided, QueuedExpected
  <2> QED
    BY <2>1, <2>5 DEF NotLostInv
<1>4. CASE StopAccepting \/ \E n \in SlotCounts : SetMaxConcurrent(n)
  <2>1. /\ UNCHANGED <<status, gate, start, cancel, resume, exec, boot, visited,
                       queue, drain>>
    BY <1>4 DEF StopAccepting, SetMaxConcurrent
  <2>2. Listed' /\ Waiting' = Waiting
    BY <1>1, <2>1, WaitingSame
  <2>3. ASSUME NEW x \in Runs
        PROVE  RunInv(x)'
    BY <1>1, <2>1, <2>2, RunLeftAlone
  <2> QED
    BY <2>2, <2>3 DEF NotLostInv
<1>5. CASE Crash
  <2>1. queue' = EmptyQueue /\ drain' = IdleDrain
    BY <1>5 DEF Crash
  <2>2. \A x \in Runs : drain'.run # x
    BY <2>1, QueueAssumption DEF IdleDrain
  <2>3. Listed' /\ Waiting' = {}
    BY <2>1, <2>2, EmptyQueueMembers, WaitingPrimed
  <2>4. ASSUME NEW x \in Runs
        PROVE  RunInv(x)'
    <3>1. /\ status'[x] = status[x] /\ gate'[x] = gate[x]
          /\ start'[x] \in {"idle", "done"}
          /\ cancel'[x] = "idle" /\ resume'[x] = "idle"
          /\ \A g \in 1 .. Executions : exec'[x][g] = "none"
          /\ boot' = "attach" /\ visited' = {} /\ drain'.pc = "idle"
      BY <1>2, <1>5 DEF Crash, IdleDrain
    <3> QED
      BY <1>1, <2>2, <2>3, <3>1
         DEF RunInv, AbsentUntouched, StartInOrder, BootInOrder,
             DropsAreDecided, QueuedExpected
  <2> QED
    BY <2>3, <2>4 DEF NotLostInv
<1> QED
  BY <1>3, <1>4, <1>5

\* A host that starts on any store has lost nothing yet.
LEMMA NotLostInit == Init => NotLostInv
<1> SUFFICES ASSUME Init
             PROVE  NotLostInv
  OBVIOUS
<1>1. \A x \in Runs : ~InQueue(queue, x) /\ drain.run # x
  BY EmptyQueueMembers, QueueAssumption DEF Init, IdleDrain
<1>2. Listed /\ Waiting = {}
  BY <1>1, EmptyQueueMembers DEF Init, Listed, Waiting
<1>3. ASSUME NEW x \in Runs
      PROVE  RunInv(x)
  <2>1. status[x] = "absent" => gate[x] = FALSE
    BY DEF Init
  <2>2. /\ start[x] = "idle" /\ cancel[x] = "idle" /\ resume[x] = "idle"
        /\ \A g \in 1 .. Executions : exec[x][g] = "none"
        /\ boot = "attach" /\ visited = {}
    BY DEF Init
  <2> QED
    BY <1>1, <1>2, <2>1, <2>2
       DEF RunInv, AbsentUntouched, StartInOrder, BootInOrder,
           DropsAreDecided, QueuedExpected
<1> QED
  BY <1>2, <1>3 DEF NotLostInv

\* The invariant is inductive.
LEMMA NotLostNext == TypeInv /\ NotLostInv /\ [Next]_vars => NotLostInv'
<1> SUFFICES ASSUME TypeInv, NotLostInv, [Next]_vars
             PROVE  NotLostInv'
  OBVIOUS
<1>1. CASE UNCHANGED vars
  <2>1. /\ UNCHANGED <<status, gate, start, cancel, resume, exec, boot, visited,
                       queue, drain>>
    BY <1>1 DEF vars, durable, manager
  <2>2. Listed' /\ Waiting' = Waiting
    BY <2>1, WaitingSame DEF NotLostInv
  <2>3. ASSUME NEW x \in Runs
        PROVE  RunInv(x)'
    BY <2>1, <2>2, RunLeftAlone DEF NotLostInv
  <2> QED
    BY <2>2, <2>3 DEF NotLostInv
<1>2. CASE Next
  BY <1>2, ExecutionNotLost, StartingNotLost, CancellingNotLost,
     AnsweringNotLost, DrainingNotLost, BootingNotLost, HostNotLost
     DEF Next, Booting
<1> QED
  BY <1>1, <1>2

\* No run that is stored as queued is lost or listed twice, for any number of
\* runs, projects and callers, whatever the interleaving of starts, drain
\* passes, cancels, answers, settling executions, startup and crashes: it is in
\* the queue once, or held by the drain, or its own start or the startup is
\* still going to enqueue it (or the start failed right before it could).
THEOREM QueuedRunNeverLost == Spec => []QueuedRunNotLost
<1>1. TypeInv /\ NotLostInv => QueuedRunNotLost
  <2> SUFFICES ASSUME TypeInv, NotLostInv, NEW r \in Runs
               PROVE  LET copies == Cardinality(
                                      {i \in DOMAIN queue.lists[RootOf[r]] :
                                         queue.lists[RootOf[r]][i] = r})
                          held   == IF drain.run = r THEN 1 ELSE 0
                      IN  /\ copies + held <= 1
                          /\ status[r] = "queued" =>
                                \/ copies + held = 1
                                \/ start[r] \in {"row", "stranded"}
                                \/ boot # "up" /\ r \notin visited
    BY DEF QueuedRunNotLost
  <2> DEFINE l == queue.lists[RootOf[r]]
             copies == Cardinality({i \in DOMAIN l : l[i] = r})
  <2>1. l \in Seq(Runs) /\ IsInjective(l)
    BY QueueAssumption, WellParts DEF TypeInv, NotLostInv, Listed, Distinct
  <2>2. InQueue(queue, r) = Contains(l, r)
    BY DEF InQueue
  <2> HIDE DEF l
  <2>3. copies = IF InQueue(queue, r) THEN 1 ELSE 0
    BY <2>1, <2>2, CopiesCounted
  <2>4. drain.run = r => ~InQueue(queue, r)
    BY DEF NotLostInv, Listed
  <2>5. status[r] = "queued" =>
            \/ InQueue(queue, r) \/ drain.run = r
            \/ start[r] \in {"row", "stranded"}
            \/ boot # "up" /\ r \notin visited
    BY DEF NotLostInv, RunInv, QueuedExpected, Waiting
  <2> HIDE DEF copies
  <2> QED
    BY <2>3, <2>4, <2>5 DEF copies, l
<1> QED
  BY <1>1, TypeInvInit, TypeInvNext, NotLostInit, NotLostNext, PTL DEF Spec

-----------------------------------------------------------------------------
(* A cancelled run is not activated                                        *)

\* Only three steps store "running" over another status: the creation of a row,
\* where there was none; the activation of a queued run; and the repair of a
\* resumed stage.
LEMMA RunningStored ==
    ASSUME TypeInv, NotLostInv, [Next]_vars, NEW r \in Runs,
           status'[r] = "running", status[r] # "running"
    PROVE  \/ status[r] \in {"absent", "queued"}
           \/ \E g \in 1 .. Executions : exec[r][g] = "stage"
<1> USE DEF durable, manager, counters
<1>1. status \in [Runs -> Statuses] /\ RunInv(r)
  BY DEF TypeInv, TypeOK, NotLostInv
<1>2. CASE UNCHANGED vars
  BY <1>2 DEF vars
<1>3. ASSUME NEW x \in Runs, Starting(x)
      PROVE  status[r] = "absent"
  <2>1. CASE CreateRow(x)
    <3>1. x = r
      BY <1>1, <2>1 DEF CreateRow
    <3> QED
      BY <1>1, <2>1, <3>1 DEF CreateRow, RunInv, StartInOrder
  <2>2. CASE CreateQueuedRow(x)
    BY <1>1, <2>2 DEF CreateQueuedRow
  <2>3. CASE status' = status
    BY <2>3
  <2> QED
    BY <1>3, <2>1, <2>2, <2>3 DEF Starting, StartRun, Admit, PushQueued,
           EnqueueFails, TrackStarted, StartFails
<1>4. ASSUME NEW x \in Runs, Cancelling(x) \/ Answering(x)
      PROVE  FALSE
  BY <1>1, <1>4 DEF Cancelling, CancelBegin, CancelWrite, CancelDequeue,
     CancelRelease, Answering, AnswerCheck, AnswerAcquire, AnswerStore,
     AnswerRefused, AnswerLaunch
<1>5. ASSUME NEW x \in Runs, NEW g \in 1 .. Executions, Execution(x, g)
      PROVE  exec[r][g] = "stage"
  BY <1>1, <1>5 DEF Execution, ReachGate, EndRead, EndWrite, ExecutionThrows,
     ResumedStageDone, ResumedStageFailed, ResumedStageRepaired, Settle
<1>6. CASE Draining
  <2>1. CASE DrainActivate
    <3>1. drain.run \in Runs
      BY <2>1, HeldRun DEF DrainActivate
    <3> QED
      BY <1>1, <2>1, <3>1 DEF DrainActivate
  <2>2. CASE status' = status
    BY <2>2
  <2> QED
    BY <1>6, <2>1, <2>2 DEF Draining, DrainRead, DrainReserve,
       DrainMaterialize, DrainTrack, DrainFails, DrainCancelled
<1>7. CASE \E x \in Runs : AttachWaiting(x) \/ ResumeStalled(x) \/ Reenqueue(x)
  BY <1>1, <1>7 DEF AttachWaiting, ResumeStalled, Reenqueue
<1>8. CASE BootNext \/ StopAccepting \/ Crash
             \/ \E n \in SlotCounts : SetMaxConcurrent(n)
  BY <1>8 DEF BootNext, StopAccepting, Crash, SetMaxConcurrent
<1> QED
  BY <1>2, <1>3, <1>4, <1>5, <1>6, <1>7, <1>8 DEF Next, Booting

\* A run that was cancelled is not activated by its start or by the drain,
\* whatever the interleaving and for every value of the constants; only the
\* repair of a stage that was resumed before the cancel overwrites the status.
THEOREM CancelledNeverActivated == Spec => CancelledNotActivated
<1>1. TypeInv /\ NotLostInv /\ [Next]_vars =>
        [\A r \in Runs :
            status[r] = "cancelled" /\ status'[r] = "running" =>
                \E g \in 1 .. Executions : exec[r][g] = "stage"]_vars
  BY RunningStored
<1> QED
  BY <1>1, TypeInvInit, TypeInvNext, NotLostInit, NotLostNext, PTL
     DEF Spec, CancelledNotActivated

-----------------------------------------------------------------------------
(* The limits                                                              *)

\* No run is attached or resumed, which would track it over the limits on
\* purpose: no stage asks, the store starts empty, the host does not crash; and
\* the operator does not lower the number of slots below the runs in progress.
AdmittedOnly ==
    /\ Asking = {}
    /\ Persisted = {}
    /\ MaxCrashes = 0
    /\ \A m, n \in SlotCounts : m = n

\* The inductive invariant of such a host: no answer is in progress, and
\* startup finds an empty store.
NothingResumed ==
    /\ crashes = 0
    /\ \A r \in Runs : gate[r] = FALSE /\ resume[r] = "idle"
    /\ boot # "up" => \A r \in Runs : status[r] = "absent"

LimitsInv == NothingResumed /\ IsFiniteSet(active) /\ LimitsRespected

ForProject(act, p) == {id \in act : RootOf[RunOfId(id)] = p}
ForCaller(act, c) == {id \in act : CallerOf[RunOfId(id)] = c}

\* The limits for a set of entries and a number of slots.
WithinLimits(act, slots) ==
    /\ IsFiniteSet(act)
    /\ Cardinality(act) <= slots
    /\ \A p \in Roots : Cardinality(ForProject(act, p)) <= ProjectCap
    /\ \A c \in Callers : Cardinality(ForCaller(act, c)) <= CallerQuota[c]

\* The limits of a state and of its successor.
LEMMA LimitsOfState ==
    /\ IsFiniteSet(active) /\ LimitsRespected
          <=> WithinLimits(active, maxConcurrent)
    /\ IsFiniteSet(active') /\ LimitsRespected'
          <=> WithinLimits(active', maxConcurrent')
BY DEF LimitsRespected, WithinLimits, ForProject, ForCaller, CountForProject,
       CountForCaller

\* A finite set with one more element.
LEMMA OneMore ==
    ASSUME NEW S, IsFiniteSet(S), NEW n \in Nat, Cardinality(S) < n, NEW x,
           NEW T \in SUBSET (S \cup {x})
    PROVE  Cardinality(T) <= n
<1>1. Cardinality(S) \in Nat
  BY FS_CardinalityType
<1>2. IsFiniteSet(S \cup {x}) /\ Cardinality(S \cup {x}) <= Cardinality(S) + 1
  <2>1. /\ IsFiniteSet(S \cup {x})
        /\ Cardinality(S \cup {x}) =
              IF x \in S THEN Cardinality(S) ELSE Cardinality(S) + 1
    BY FS_AddElement
  <2> QED
    BY <1>1, <2>1
<1>3. /\ IsFiniteSet(T) /\ Cardinality(T) <= Cardinality(S \cup {x})
  BY <1>2, FS_Subset
<1>4. Cardinality(T) \in Nat /\ Cardinality(S \cup {x}) \in Nat
  BY <1>2, <1>3, FS_CardinalityType
<1> QED
  BY <1>1, <1>2, <1>3, <1>4

\* A finite set with one element in the place of another.
LEMMA OneForOne ==
    ASSUME NEW S, IsFiniteSet(S), NEW x \in S, NEW y
    PROVE  /\ IsFiniteSet((S \ {x}) \cup {y})
           /\ Cardinality((S \ {x}) \cup {y}) <= Cardinality(S)
<1> DEFINE A == S \ {x}
<1>1. Cardinality(S) \in Nat
  BY FS_CardinalityType
<1>2. IsFiniteSet(A) /\ Cardinality(A) = Cardinality(S) - 1
  BY FS_RemoveElement
<1>3. /\ IsFiniteSet(A \cup {y})
      /\ Cardinality(A \cup {y}) =
            IF y \in A THEN Cardinality(A) ELSE Cardinality(A) + 1
  BY <1>2, FS_AddElement
<1> HIDE DEF A
<1>4. Cardinality(A \cup {y}) <= Cardinality(S)
  BY <1>1, <1>2, <1>3
<1> QED
  BY <1>3, <1>4 DEF A

\* Giving entries up keeps the limits.
LEMMA FewerEntries ==
    ASSUME NEW act, NEW new \in SUBSET act, NEW slots \in Nat,
           WithinLimits(act, slots)
    PROVE  WithinLimits(new, slots)
<1> USE AdmissionAssumption
<1>1. ASSUME NEW S, IsFiniteSet(S), NEW T \in SUBSET S, NEW n \in Nat,
             Cardinality(S) <= n
      PROVE  IsFiniteSet(T) /\ Cardinality(T) <= n
  <2>1. IsFiniteSet(T) /\ Cardinality(T) <= Cardinality(S)
    BY <1>1, FS_Subset
  <2>2. Cardinality(S) \in Nat /\ Cardinality(T) \in Nat
    BY <1>1, <2>1, FS_CardinalityType
  <2> QED
    BY <1>1, <2>1, <2>2
<1>2. IsFiniteSet(act) /\ Cardinality(act) <= slots
  BY DEF WithinLimits
<1>3. IsFiniteSet(new) /\ Cardinality(new) <= slots
  BY <1>1, <1>2
<1>4. ASSUME NEW p \in Roots
      PROVE  Cardinality(ForProject(new, p)) <= ProjectCap
  <2>1. ForProject(act, p) \in SUBSET act
        /\ ForProject(new, p) \in SUBSET ForProject(act, p)
    BY DEF ForProject
  <2>2. IsFiniteSet(ForProject(act, p))
        /\ Cardinality(ForProject(act, p)) <= ProjectCap
    BY <1>2, <2>1, FS_Subset DEF WithinLimits
  <2> QED
    BY <1>1, <2>1, <2>2
<1>5. ASSUME NEW c \in Callers
      PROVE  Cardinality(ForCaller(new, c)) <= CallerQuota[c]
  <2>1. ForCaller(act, c) \in SUBSET act
        /\ ForCaller(new, c) \in SUBSET ForCaller(act, c)
    BY DEF ForCaller
  <2>2. IsFiniteSet(ForCaller(act, c))
        /\ Cardinality(ForCaller(act, c)) <= CallerQuota[c]
    BY <1>2, <2>1, FS_Subset DEF WithinLimits
  <2>3. CallerQuota[c] \in Nat
    OBVIOUS
  <2> QED
    BY <1>1, <2>1, <2>2, <2>3
<1> QED
  BY <1>3, <1>4, <1>5 DEF WithinLimits

\* track puts the entry of the run in the place of its provisional entry: both
\* count for the same project and the same caller.
LEMMA SwappedEntry ==
    ASSUME NEW act, NEW x \in act, NEW y, RunOfId(x) = RunOfId(y),
           NEW slots \in Nat, WithinLimits(act, slots)
    PROVE  WithinLimits((act \ {x}) \cup {y}, slots)
<1> USE AdmissionAssumption
<1> DEFINE new == (act \ {x}) \cup {y}
<1>1. ASSUME NEW S, IsFiniteSet(S), NEW n \in Nat, Cardinality(S) <= n,
             x \in S
      PROVE  IsFiniteSet((S \ {x}) \cup {y})
             /\ Cardinality((S \ {x}) \cup {y}) <= n
  <2>1. /\ IsFiniteSet((S \ {x}) \cup {y})
        /\ Cardinality((S \ {x}) \cup {y}) <= Cardinality(S)
    BY <1>1, OneForOne
  <2>2. Cardinality(S) \in Nat /\ Cardinality((S \ {x}) \cup {y}) \in Nat
    BY <1>1, <2>1, FS_CardinalityType
  <2> QED
    BY <1>1, <2>1, <2>2
<1>2. IsFiniteSet(act) /\ Cardinality(act) <= slots
  BY DEF WithinLimits
<1>3. IsFiniteSet(new) /\ Cardinality(new) <= slots
  BY <1>1, <1>2
<1>4. ASSUME NEW p \in Roots
      PROVE  Cardinality(ForProject(new, p)) <= ProjectCap
  <2> DEFINE S == ForProject(act, p)
  <2>1. IsFiniteSet(S) /\ Cardinality(S) <= ProjectCap /\ ProjectCap \in Nat
    <3>1. S \in SUBSET act
      BY DEF ForProject
    <3> QED
      BY <1>2, <3>1, FS_Subset DEF WithinLimits
  <2>2. CASE RootOf[RunOfId(x)] = p
    <3>1. x \in S /\ ForProject(new, p) = (S \ {x}) \cup {y}
      BY <2>2 DEF ForProject
    <3> HIDE DEF S
    <3> QED
      BY <1>1, <2>1, <3>1
  <2>3. CASE RootOf[RunOfId(x)] # p
    <3>1. ForProject(new, p) = S
      BY <2>3 DEF ForProject
    <3> QED
      BY <2>1, <3>1
  <2> QED
    BY <2>2, <2>3
<1>5. ASSUME NEW c \in Callers
      PROVE  Cardinality(ForCaller(new, c)) <= CallerQuota[c]
  <2> DEFINE S == ForCaller(act, c)
  <2>1. IsFiniteSet(S) /\ Cardinality(S) <= CallerQuota[c]
        /\ CallerQuota[c] \in Nat
    <3>1. S \in SUBSET act
      BY DEF ForCaller
    <3> QED
      BY <1>2, <3>1, FS_Subset DEF WithinLimits
  <2>2. CASE CallerOf[RunOfId(x)] = c
    <3>1. x \in S /\ ForCaller(new, c) = (S \ {x}) \cup {y}
      BY <2>2 DEF ForCaller
    <3> HIDE DEF S
    <3> QED
      BY <1>1, <2>1, <3>1
  <2>3. CASE CallerOf[RunOfId(x)] # c
    <3>1. ForCaller(new, c) = S
      BY <2>3 DEF ForCaller
    <3> QED
      BY <2>1, <3>1
  <2> QED
    BY <2>2, <2>3
<1> QED
  BY <1>3, <1>4, <1>5 DEF WithinLimits

\* tryReserve and tryAdmitOrEnqueue add an entry only when each limit it counts
\* for has room for one more.
LEMMA AdmittedEntry ==
    ASSUME TypeInv, WithinLimits(active, maxConcurrent), NEW id \in Ids,
           Admission(RunOfId(id)) = "reserve"
    PROVE  WithinLimits(active \cup {id}, maxConcurrent)
<1> USE AdmissionAssumption
<1> DEFINE r == RunOfId(id)
           new == active \cup {id}
<1>1. /\ Cardinality(active) < maxConcurrent
      /\ ~ (CountForProject(RootOf[r]) >= ProjectCap)
      /\ ~OverQuota(r)
  BY DEF Admission
<1>2. /\ maxConcurrent \in Nat /\ ProjectCap \in Nat
      /\ \A c \in Callers : CallerQuota[c] \in Nat
      /\ r \in Runs
  BY DEF TypeInv, TypeOK, Ids, RunOfId
<1>3. IsFiniteSet(active)
  BY DEF WithinLimits
<1>4. IsFiniteSet(new) /\ Cardinality(new) <= maxConcurrent
  BY <1>1, <1>2, <1>3, OneMore, FS_AddElement
<1>5. ASSUME NEW p \in Roots
      PROVE  Cardinality(ForProject(new, p)) <= ProjectCap
  <2> DEFINE S == ForProject(active, p)
  <2>1. S \in SUBSET active /\ S = {x \in active : RootOf[RunOfId(x)] = p}
    BY DEF ForProject
  <2>2. IsFiniteSet(S) /\ Cardinality(S) \in Nat /\ Cardinality(S) <= ProjectCap
    BY <1>3, <2>1, FS_Subset, FS_CardinalityType DEF WithinLimits
  <2>3. CASE RootOf[r] = p
    <3>1. Cardinality(S) < ProjectCap
      BY <1>1, <1>2, <2>2, <2>3 DEF CountForProject, ForProject
    <3>2. ForProject(new, p) \in SUBSET (S \cup {id})
      BY DEF ForProject
    <3> HIDE DEF S
    <3> QED
      BY <1>2, <2>2, <3>1, <3>2, OneMore
  <2>4. CASE RootOf[r] # p
    <3>1. ForProject(new, p) = S
      BY <2>4 DEF ForProject
    <3> QED
      BY <2>2, <3>1
  <2> QED
    BY <2>3, <2>4
<1>6. ASSUME NEW c \in Callers
      PROVE  Cardinality(ForCaller(new, c)) <= CallerQuota[c]
  <2> DEFINE S == ForCaller(active, c)
  <2>1. S \in SUBSET active
    BY DEF ForCaller
  <2>2. IsFiniteSet(S) /\ Cardinality(S) \in Nat
        /\ Cardinality(S) <= CallerQuota[c]
    BY <1>3, <2>1, FS_Subset, FS_CardinalityType DEF WithinLimits
  <2>3. CASE CallerOf[r] = c
    <3>1. c # NoCaller
      BY QueueAssumption
    <3>2. ~ (Cardinality(S) >= CallerQuota[c])
      BY <1>1, <2>3, <3>1 DEF OverQuota, CountForCaller, ForCaller
    <3>3. Cardinality(S) < CallerQuota[c]
      BY <1>2, <2>2, <3>2
    <3>4. ForCaller(new, c) \in SUBSET (S \cup {id})
      BY DEF ForCaller
    <3> HIDE DEF S
    <3> QED
      BY <1>2, <2>2, <3>3, <3>4, OneMore
  <2>4. CASE CallerOf[r] # c
    <3>1. ForCaller(new, c) = S
      BY <2>4 DEF ForCaller
    <3> QED
      BY <2>2, <3>1
  <2> QED
    BY <2>3, <2>4
<1> QED
  BY <1>4, <1>5, <1>6 DEF WithinLimits

\* A host that only admits runs stays one: nothing asks, so nothing is answered,
\* and startup over an empty store attaches, resumes and re-enqueues nothing.
LEMMA NothingResumedNext ==
    ASSUME AdmittedOnly, TypeInv, NotLostInv, NothingResumed, [Next]_vars
    PROVE  NothingResumed'
<1> USE DEF durable, manager, counters, NothingResumed
<1>1. /\ status \in [Runs -> Statuses] /\ gate \in [Runs -> BOOLEAN]
      /\ resume \in [Runs -> ResumeStates] /\ boot \in BootPhases
      /\ \A x \in Runs : RunInv(x)
  BY DEF TypeInv, TypeOK, NotLostInv
<1>2. CASE UNCHANGED vars
  BY <1>2 DEF vars
<1>3. ASSUME NEW r \in Runs, Starting(r)
      PROVE  NothingResumed'
  <2>1. UNCHANGED <<crashes, gate, resume, boot>>
    BY <1>3 DEF Starting, StartRun, Admit, CreateQueuedRow, PushQueued,
           EnqueueFails, CreateRow, TrackStarted, StartFails, Track, Launch
  <2>2. boot # "up" => status' = status
    BY <1>1, <1>3 DEF RunInv, BootInOrder, Starting, StartRun, Admit,
       CreateQueuedRow, PushQueued, EnqueueFails, CreateRow, TrackStarted,
       StartFails
  <2> QED
    BY <2>1, <2>2
<1>4. ASSUME NEW r \in Runs, Cancelling(r)
      PROVE  NothingResumed'
  <2>1. UNCHANGED <<crashes, resume, boot>>
    BY <1>4 DEF Cancelling, CancelBegin, CancelWrite, CancelDequeue,
                CancelRelease
  <2>2. \A x \in Runs : gate'[x] = FALSE
    BY <1>1, <1>4 DEF Cancelling, CancelBegin, CancelWrite, CancelDequeue,
                      CancelRelease
  <2>3. boot # "up" => status' = status
    BY <1>1, <1>4 DEF RunInv, AbsentUntouched, Cancelling, CancelBegin,
       CancelWrite, CancelDequeue, CancelRelease
  <2> QED
    BY <2>1, <2>2, <2>3
<1>5. ASSUME NEW r \in Runs, Answering(r)
      PROVE  FALSE
  BY <1>5 DEF Answering, AnswerCheck, AnswerAcquire, AnswerStore,
              AnswerRefused, AnswerLaunch
<1>6. ASSUME NEW r \in Runs, NEW g \in 1 .. Executions, Execution(r, g)
      PROVE  NothingResumed'
  <2>1. UNCHANGED <<crashes, gate, boot>>
    BY <1>6 DEF AdmittedOnly, Execution, ReachGate, EndRead, EndWrite,
       ExecutionThrows, ResumedStageDone, ResumedStageFailed,
       ResumedStageRepaired, Settle
  <2>2. \A x \in Runs : resume'[x] = "idle"
    BY <1>1, <1>6 DEF Execution, ReachGate, EndRead, EndWrite,
       ExecutionThrows, ResumedStageDone, ResumedStageFailed,
       ResumedStageRepaired, Settle
  <2>3. exec[r][g] # "none"
    BY <1>6 DEF Execution, ReachGate, EndRead, EndWrite, ExecutionThrows,
       ResumedStageDone, ResumedStageFailed, ResumedStageRepaired, Settle
  <2>4. boot = "up"
    BY <1>1, <2>3 DEF RunInv, AbsentUntouched
  <2> QED
    BY <2>1, <2>2, <2>4
<1>7. CASE Draining
  <2>1. UNCHANGED <<crashes, gate, resume, boot>>
    BY <1>7 DEF Draining, DrainRead, DrainReserve, DrainMaterialize,
       DrainActivate, DrainTrack, DrainFails, DrainCancelled
  <2>2. drain.run \in Runs
    <3>1. drain.pc # "idle"
      BY <1>7 DEF Draining, DrainRead, DrainReserve, DrainMaterialize,
                  DrainActivate, DrainTrack, DrainFails, DrainCancelled
    <3> QED
      BY <3>1, HeldRun
  <2>3. boot = "up"
    BY <1>1, <2>2 DEF RunInv, AbsentUntouched, Waiting
  <2> QED
    BY <2>1, <2>3
<1>8. ASSUME NEW r \in Runs, AttachWaiting(r) \/ ResumeStalled(r) \/ Reenqueue(r)
      PROVE  FALSE
  BY <1>8 DEF AttachWaiting, ResumeStalled, Reenqueue, NeedsBoot
<1>9. CASE BootNext
  <2>1. UNCHANGED <<crashes, resume, status>> /\ boot # "up"
    BY <1>9 DEF BootNext
  <2>2. \A x \in Runs : gate'[x] = FALSE
    BY <1>1, <1>9 DEF BootNext
  <2> QED
    BY <2>1, <2>2
<1>10. CASE StopAccepting \/ \E n \in SlotCounts : SetMaxConcurrent(n)
  BY <1>10 DEF StopAccepting, SetMaxConcurrent
<1>11. CASE Crash
  BY <1>11 DEF Crash, AdmittedOnly
<1> QED
  BY <1>2, <1>3, <1>4, <1>5, <1>6, <1>7, <1>8, <1>9, <1>10, <1>11
     DEF Next, Booting

\* In such a host every step gives entries up, replaces a provisional entry by
\* the entry of its run, or adds one entry that was admitted.
LEMMA LimitsNext ==
    ASSUME AdmittedOnly, TypeInv, TypeInv', ProvisionalEntriesOwned,
           NothingResumed, WithinLimits(active, maxConcurrent), [Next]_vars
    PROVE  WithinLimits(active', maxConcurrent')
<1> USE DEF durable, manager, counters
<1>0. maxConcurrent \in Nat /\ maxConcurrent' = maxConcurrent
  <2>1. maxConcurrent \in SlotCounts /\ maxConcurrent' \in SlotCounts
    BY DEF TypeInv, TypeOK
  <2> QED
    BY <2>1, AdmissionAssumption DEF AdmittedOnly
<1> SUFFICES WithinLimits(active', maxConcurrent)
  BY <1>0
<1>a. ASSUME active' \in SUBSET active
      PROVE  WithinLimits(active', maxConcurrent)
  BY <1>0, <1>a, FewerEntries
<1>b. ASSUME NEW r \in Runs, RemoveTracked(r)
      PROVE  WithinLimits(active', maxConcurrent)
  BY <1>a, <1>b DEF RemoveTracked
<1>c. ASSUME NEW id, ClearReservation(id)
      PROVE  WithinLimits(active', maxConcurrent)
  BY <1>a, <1>c DEF ClearReservation
<1>d. ASSUME NEW id \in active, NEW r \in Runs, Track(id, r), RunOfId(id) = r
      PROVE  WithinLimits(active', maxConcurrent)
  BY <1>0, <1>d, IdTypes, SwappedEntry DEF Track
<1>1. ASSUME NEW r \in Runs, NEW g \in 1 .. Executions, Execution(r, g)
      PROVE  WithinLimits(active', maxConcurrent)
  BY <1>1, <1>a, <1>b
     DEF Execution, ReachGate, EndRead, EndWrite, ExecutionThrows,
         ResumedStageDone, ResumedStageFailed, ResumedStageRepaired, Settle,
         Untrack
<1>2. ASSUME NEW r \in Runs, Starting(r)
      PROVE  WithinLimits(active', maxConcurrent)
  <2>1. CASE Admit(r)
    <3>1. CASE Admission(r) = "reserve" /\ Reserve(StartId(r))
      <4>1. StartId(r) \in Ids /\ Admission(RunOfId(StartId(r))) = "reserve"
        BY <3>1, IdTypes
      <4>2. WithinLimits(active \cup {StartId(r)}, maxConcurrent)
        BY <4>1, AdmittedEntry
      <4> QED
        BY <3>1, <4>2 DEF Reserve
    <3> QED
      BY <1>a, <2>1, <3>1 DEF Admit
  <2>2. CASE TrackStarted(r)
    <3>1. StartId(r) \in active
      BY <2>2 DEF TrackStarted, ProvisionalEntriesOwned
    <3> QED
      BY <1>d, <2>2, <3>1, IdTypes DEF TrackStarted
  <2>3. CASE StartFails(r)
    BY <1>c, <2>3 DEF StartFails
  <2> QED
    BY <1>2, <1>a, <2>1, <2>2, <2>3
       DEF Starting, StartRun, CreateQueuedRow, PushQueued, EnqueueFails,
           CreateRow
<1>3. ASSUME NEW r \in Runs, Cancelling(r)
      PROVE  WithinLimits(active', maxConcurrent)
  BY <1>3, <1>a, <1>b
     DEF Cancelling, CancelBegin, CancelWrite, CancelDequeue, CancelRelease
<1>4. ASSUME NEW r \in Runs, Answering(r)
      PROVE  FALSE
  BY <1>4 DEF NothingResumed, Answering, AnswerCheck, AnswerAcquire,
              AnswerStore, AnswerRefused, AnswerLaunch
<1>5. CASE Draining
  <2>1. PICK r \in Runs : drain.run = r
    <3>1. drain.pc # "idle"
      BY <1>5 DEF Draining, DrainRead, DrainReserve, DrainMaterialize,
                  DrainActivate, DrainTrack, DrainFails, DrainCancelled
    <3> QED
      BY <3>1, HeldRun
  <2>2. CASE DrainReserve
    <3>1. CASE Admission(r) = "reserve" /\ Reserve(DrainId(r))
      <4>1. DrainId(r) \in Ids /\ Admission(RunOfId(DrainId(r))) = "reserve"
        BY <3>1, IdTypes
      <4>2. WithinLimits(active \cup {DrainId(r)}, maxConcurrent)
        BY <4>1, AdmittedEntry
      <4> QED
        BY <3>1, <4>2 DEF Reserve
    <3> QED
      BY <1>a, <2>1, <2>2, <3>1 DEF DrainReserve
  <2>3. CASE DrainTrack
    <3>1. DrainId(r) \in active
      BY <2>1, <2>3 DEF DrainTrack, ProvisionalEntriesOwned
    <3> QED
      BY <1>d, <2>1, <2>3, <3>1, IdTypes DEF DrainTrack
  <2>4. CASE DrainMaterialize \/ DrainActivate \/ DrainFails
    BY <1>a, <1>c, <2>4 DEF DrainMaterialize, DrainActivate, DrainFails
  <2>5. CASE DrainRead \/ DrainCancelled
    BY <1>a, <2>5 DEF DrainRead, DrainCancelled
  <2> QED
    BY <1>5, <2>2, <2>3, <2>4, <2>5 DEF Draining
<1>6. ASSUME NEW r \in Runs, AttachWaiting(r) \/ ResumeStalled(r) \/ Reenqueue(r)
      PROVE  WithinLimits(active', maxConcurrent)
  BY <1>6 DEF NothingResumed, AttachWaiting, ResumeStalled, Reenqueue, NeedsBoot
<1>7. CASE BootNext \/ StopAccepting \/ \E n \in SlotCounts : SetMaxConcurrent(n)
  <2>1. active' = active
    BY <1>7 DEF BootNext, StopAccepting, SetMaxConcurrent
  <2> QED
    BY <1>a, <2>1
<1>8. CASE Crash
  BY <1>8, <1>a DEF Crash
<1>9. CASE UNCHANGED vars
  BY <1>9, <1>a DEF vars
<1> QED
  BY <1>0, <1>1, <1>2, <1>3, <1>4, <1>5, <1>6, <1>7, <1>8, <1>9
     DEF Next, Booting

\* In a host that only admits runs (no run is attached or resumed over the
\* limits, and the number of slots is not lowered), the slots, the per-project
\* cap and every caller quota hold at every moment, for any number of runs,
\* projects and callers: the checks of tryAdmitOrEnqueue and tryReserve count
\* provisional entries too, and track replaces an entry without a gap or an
\* overlap.
THEOREM LimitsAlwaysRespected ==
    ASSUME AdmittedOnly
    PROVE  Spec => []LimitsRespected
<1> DEFINE IInv == /\ TypeInv /\ ProvisionalEntriesOwned /\ NotLostInv
                   /\ LimitsInv
<1>1. Init => IInv
  <2> SUFFICES ASSUME Init
               PROVE  LimitsInv
    BY TypeInvInit, OwnedInit, NotLostInit
  <2>1. \A r \in Runs : gate[r] = FALSE /\ resume[r] = "idle"
                        /\ status[r] = "absent"
    BY DEF Init, AdmittedOnly
  <2>2. WithinLimits({}, maxConcurrent)
    <3>1. \A x : ForProject({}, x) = {} /\ ForCaller({}, x) = {}
      BY DEF ForProject, ForCaller
    <3>2. /\ maxConcurrent \in Nat /\ ProjectCap \in Nat
          /\ \A c \in Callers : CallerQuota[c] \in Nat
      BY AdmissionAssumption DEF Init
    <3> QED
      BY <3>1, <3>2, FS_EmptySet DEF WithinLimits
  <2> QED
    BY <2>1, <2>2, LimitsOfState DEF Init, LimitsInv, NothingResumed
<1>2. IInv /\ [Next]_vars => IInv'
  <2> SUFFICES ASSUME IInv, [Next]_vars
               PROVE  IInv'
    OBVIOUS
  <2>1. TypeInv' /\ ProvisionalEntriesOwned' /\ NotLostInv'
    BY TypeInvNext, OwnedNext, NotLostNext
  <2>2. NothingResumed'
    BY NothingResumedNext DEF LimitsInv
  <2>3. WithinLimits(active', maxConcurrent')
    BY <2>1, LimitsNext, LimitsOfState DEF LimitsInv
  <2>4. IsFiniteSet(active') /\ LimitsRespected'
    BY <2>3, LimitsOfState
  <2>5. IsFiniteSet(active)'
    BY <2>4
  <2> QED
    BY <2>1, <2>2, <2>4, <2>5 DEF LimitsInv
<1>3. IInv => LimitsRespected
  BY DEF LimitsInv
<1> QED
  BY <1>1, <1>2, <1>3, PTL DEF Spec
=============================================================================
