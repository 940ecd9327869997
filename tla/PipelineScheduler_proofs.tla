---------------------- MODULE PipelineScheduler_proofs ----------------------
(***************************************************************************)
(* Proofs about PipelineScheduler.                                         *)
(*                                                                         *)
(* For every pipeline and any number of scheduling loops: the type         *)
(* invariant, and that no loop has more than MaxActive stages in flight.   *)
(*                                                                         *)
(* For as long as nobody has answered a question of a stage, that is for   *)
(* the loop that starts the run, whatever the order of its workers, their  *)
(* failures, the repairs and a cancel: what is stored as started was       *)
(* ready, what is settled stays so, and the outcome of the run is the one  *)
(* its stages and envelopes have.  Past an answer there may be two loops   *)
(* over one store, each with a copy of its own, and not all of this holds  *)
(* (run pipeline_two_loops).                                               *)
(***************************************************************************)
EXTENDS PipelineScheduler, FiniteSetTheorems, WellFoundedInduction,
        NaturalsInduction, TLAPS

-----------------------------------------------------------------------------
(* The operators of the schedule                                           *)

\* SetTo gives x to the stages of S and leaves the others.
LEMMA SetToAt ==
    ASSUME NEW f, NEW S, NEW x
    PROVE  /\ DOMAIN SetTo(f, S, x) = Stages
           /\ \A s \in Stages : SetTo(f, S, x)[s] = IF s \in S THEN x ELSE f[s]
BY DEF SetTo

\* SetTo keeps the type of a function of the stages.
LEMMA SetToType ==
    ASSUME NEW V, NEW f \in [Stages -> V], NEW S, NEW x \in V
    PROVE  SetTo(f, S, x) \in [Stages -> V]
BY DEF SetTo

\* The first loop is a loop.
LEMMA OneIsLoop == 1 \in Loops
BY BoundAssumption DEF Loops

-----------------------------------------------------------------------------
(* Type correctness                                                        *)

\* The attempts are kept for every stage.
TypeInv == TypeOK /\ attempts \in [Stages -> Nat]

PcState == {"off", "resume", "tick", "wind", "done"}
LoopState ==
    [pc : PcState, st : [Stages -> ScheduleState], halted : BOOLEAN,
     linked : BOOLEAN, cut : BOOLEAN, from : Stages \cup {NoStage}]
TaskState == {"none", "prep", "worker", "ok", "ask", "bad", "dead"}

\* The parts of the type invariant, by name.
LEMMA TypeParts ==
    TypeInv <=>
        /\ run \in {"running", "succeeded", "failed", "cancelled"}
        /\ stage \in [Stages -> StoredState]
        /\ route \in [Gated -> {"unset", "fire", "miss", "missing"}]
        /\ attempts \in [Stages -> Nat]
        /\ \A s \in Stages : attempts[s] \in 0..MaxAttempts[s]
        /\ loop \in [Loops -> LoopState]
        /\ task \in [Loops -> [Stages -> TaskState]]
        /\ halt \in {"none", "clear", "cut"}
        /\ owner \in Loops \cup {0}
        /\ cancel \in {"idle", "written", "killing", "marking", "done"}
BY Zenon DEF TypeInv, TypeOK, LoopState, PcState, TaskState

\* The run is started with everything pending.
LEMMA TypeInit == Init => TypeInv
<1> SUFFICES ASSUME Init PROVE TypeInv
  OBVIOUS
<1>1. AllPending \in [Stages -> ScheduleState] /\ AllPending \in [Stages -> StoredState]
  BY DEF AllPending, ScheduleState, StoredState
<1>2. \A pc \in PcState : Blank(pc) \in LoopState
  BY <1>1 DEF Blank, LoopState
<1>3. loop \in [Loops -> LoopState]
  <2>1. Blank("off") \in LoopState /\ [Blank("tick") EXCEPT !.linked = TRUE] \in LoopState
    BY <1>1 DEF Blank, LoopState, PcState
  <2> QED
    BY <2>1 DEF Init
<1>4. attempts \in [Stages -> Nat] /\ \A s \in Stages : attempts[s] \in 0..MaxAttempts[s]
  BY BoundAssumption DEF Init
<1>5. task \in [Loops -> [Stages -> TaskState]]
  BY DEF Init, TaskState
<1>6. route \in [Gated -> {"unset", "fire", "miss", "missing"}]
  BY DEF Init
<1>7. owner \in Loops \cup {0}
  BY OneIsLoop DEF Init
<1> QED
  BY <1>1, <1>3, <1>4, <1>5, <1>6, <1>7, TypeParts DEF Init
\* The same parts of the next state.
LEMMA TypePartsNext ==
    ASSUME run' \in {"running", "succeeded", "failed", "cancelled"},
           stage' \in [Stages -> StoredState],
           route' \in [Gated -> {"unset", "fire", "miss", "missing"}],
           attempts' \in [Stages -> Nat],
           \A s \in Stages : attempts'[s] \in 0..MaxAttempts[s],
           loop' \in [Loops -> LoopState],
           task' \in [Loops -> [Stages -> TaskState]],
           halt' \in {"none", "clear", "cut"},
           owner' \in Loops \cup {0},
           cancel' \in {"idle", "written", "killing", "marking", "done"}
    PROVE  TypeInv'
BY Zenon DEF TypeInv, TypeOK, LoopState, PcState, TaskState

\* An ended loop is a loop, and so is a loop that lost its halt object.
LEMMA FinishType ==
    ASSUME TypeInv, NEW l \in Loops, Finish(l)
    PROVE  /\ loop' \in [Loops -> LoopState]
           /\ owner' \in Loops \cup {0}
           /\ halt' \in {"none", "clear", "cut"}
<1> DEFINE ended == [loop EXCEPT ![l] = Blank("done")]
<1>1. Blank("done") \in LoopState
  BY DEF Blank, LoopState, PcState, AllPending, ScheduleState
<1>2. loop \in [Loops -> LoopState]
  BY TypeParts
<1>3. ended \in [Loops -> LoopState]
  BY <1>1, <1>2
<1> HIDE DEF ended
<1>4. Unlinked(ended) \in [Loops -> LoopState]
  BY <1>3 DEF Unlinked, LoopState
<1>5. CASE owner = l
  <2>1. loop' = Unlinked(ended) /\ owner' = 0 /\ halt' = "none"
    BY <1>5 DEF Finish, Forget, ended
  <2> QED
    BY <1>4, <2>1
<1>6. CASE owner # l
  <2>1. loop' = ended /\ owner' = owner /\ halt' = halt
    BY <1>6 DEF Finish, ended
  <2> QED
    BY <1>3, <2>1, TypeParts
<1> QED
  BY <1>5, <1>6

\* Setting one task of one loop keeps the type of the tasks.
LEMMA SetTaskType ==
    ASSUME TypeInv, NEW l \in Loops, NEW s \in Stages, NEW x \in TaskState,
           SetTask(l, s, x)
    PROVE  task' \in [Loops -> [Stages -> TaskState]]
BY TypeParts DEF SetTask

\* Replacing the schedule and the halt of one loop keeps the type of the loops.
LEMMA LoopExceptType ==
    ASSUME TypeInv, NEW l \in Loops, NEW st \in [Stages -> ScheduleState],
           NEW halted \in BOOLEAN
    PROVE  /\ [loop EXCEPT ![l].st = st] \in [Loops -> LoopState]
           /\ [loop EXCEPT ![l].st = st, ![l].halted = halted]
                \in [Loops -> LoopState]
<1>1. loop \in [Loops -> LoopState] /\ loop[l] \in LoopState
  BY TypeParts
<1>2. /\ [loop[l] EXCEPT !.st = st] \in LoopState
      /\ [loop[l] EXCEPT !.st = st, !.halted = halted] \in LoopState
  BY <1>1 DEF LoopState
<1>3. /\ [loop EXCEPT ![l].st = st] = [loop EXCEPT ![l] = [loop[l] EXCEPT !.st = st]]
      /\ [loop EXCEPT ![l].st = st, ![l].halted = halted]
           = [loop EXCEPT ![l] = [loop[l] EXCEPT !.st = st, !.halted = halted]]
  BY <1>1
<1> QED
  BY <1>1, <1>2, <1>3

\* The steps of a scheduling loop.
LEMMA LoopStepType ==
    ASSUME TypeInv, NEW l \in Loops, LoopStep(l) PROVE TypeInv'
<1>0. /\ loop \in [Loops -> LoopState]
      /\ loop[l].st \in [Stages -> ScheduleState]
      /\ loop[l].halted \in BOOLEAN /\ loop[l].cut \in BOOLEAN
      /\ stage \in [Stages -> StoredState]
  BY TypeParts DEF LoopState
<1>1. CASE SkipStalled(l)
  <2>1. PICK s \in Stages :
          /\ loop' = [loop EXCEPT ![l].st = SetTo(@, Cascade(loop[l].st, {s}), "skipped")]
          /\ stage' = SetTo(stage, Cascade(loop[l].st, {s}), "skipped")
    BY <1>1 DEF SkipStalled
  <2> DEFINE skips == Cascade(loop[l].st, {s})
  <2> HIDE DEF skips
  <2>2. loop' = [loop EXCEPT ![l].st = SetTo(loop[l].st, skips, "skipped")]
    BY <2>1 DEF skips
  <2>3. /\ SetTo(loop[l].st, skips, "skipped") \in [Stages -> ScheduleState]
        /\ SetTo(stage, skips, "skipped") \in [Stages -> StoredState]
    <3>1. "skipped" \in ScheduleState /\ "skipped" \in StoredState
      BY DEF ScheduleState, StoredState, Terminal
    <3> QED
      BY <1>0, <3>1, SetToType
  <2>4. loop' \in [Loops -> LoopState]
    BY <2>2, <2>3, LoopExceptType
  <2>5. stage' \in [Stages -> StoredState]
    BY <2>1, <2>3 DEF skips
  <2>6. UNCHANGED <<run, route, attempts, task, halt, owner, cancel>>
    BY <1>1 DEF SkipStalled
  <2> QED
    BY <2>4, <2>5, <2>6, TypeParts, TypePartsNext
<1>2. CASE Tick(l)
  <2> DEFINE st == loop[l].st
             halted == loop[l].halted \/ loop[l].cut
             room == IF Cardinality(InFlight(l)) >= MaxActive THEN 0
                     ELSE MaxActive - Cardinality(InFlight(l))
             started == IF halted THEN {} ELSE First(Runnable(l), room)
             idle == InFlight(l) \cup started = {}
             dropped == IF idle /\ halted THEN Having(st, Stages, "pending") ELSE {}
             st2 == SetTo(SetTo(st, started, "active"), dropped, "skipped")
  <2>1. /\ loop' = [loop EXCEPT ![l].st = st2, ![l].halted = halted,
                                ![l].pc = IF idle THEN "wind" ELSE "tick"]
        /\ task' = [task EXCEPT ![l] = SetTo(@, started, "prep")]
        /\ UNCHANGED <<run, stage, route, attempts, halt, owner, cancel>>
    BY <1>2 DEF Tick
  <2>2. halted \in BOOLEAN /\ (IF idle THEN "wind" ELSE "tick") \in PcState
    BY <1>0 DEF PcState
  <2> HIDE DEF started, dropped, halted, idle
  <2>3. st2 \in [Stages -> ScheduleState]
    BY <1>0, SetToType DEF ScheduleState, Terminal
  <2> HIDE DEF st2, st
  <2>4. loop' \in [Loops -> LoopState]
    <3> DEFINE next == [loop[l] EXCEPT !.st = st2, !.halted = halted,
                                       !.pc = IF idle THEN "wind" ELSE "tick"]
    <3>1. next \in LoopState
      BY <1>0, <2>2, <2>3 DEF LoopState
    <3>2. loop' = [loop EXCEPT ![l] = next]
      BY <1>0, <2>1
    <3> HIDE DEF next
    <3> QED
      BY <1>0, <3>1, <3>2
  <2>5. SetTo(task[l], started, "prep") \in [Stages -> TaskState]
    BY TypeParts, SetToType DEF TaskState
  <2>6. task' \in [Loops -> [Stages -> TaskState]]
    BY <2>1, <2>5, TypeParts
  <2> QED
    BY <2>1, <2>4, <2>6, TypeParts, TypePartsNext
<1>3. CASE LeaveLoop(l)
  <2>1. loop' \in [Loops -> LoopState]
    BY <1>0, <1>3 DEF LeaveLoop, LoopState, PcState
  <2>2. UNCHANGED <<run, stage, route, attempts, task, halt, owner, cancel>>
    BY <1>3 DEF LeaveLoop
  <2> QED
    BY <2>1, <2>2, TypeParts, TypePartsNext
<1>4. CASE WindDown(l)
  <2>1. /\ Finish(l)
        /\ UNCHANGED <<stage, route, attempts, task, cancel>>
    BY <1>4 DEF WindDown
  <2>2. run' \in {"running", "succeeded", "failed", "cancelled"}
    BY <1>4, TypeParts DEF WindDown, WriteTerminal, Outcome
  <2> QED
    BY <2>1, <2>2, FinishType, TypeParts, TypePartsNext
<1> QED
  BY <1>1, <1>2, <1>3, <1>4 DEF LoopStep
\* The preparation and the worker of a stage.
LEMMA WorkerStepType ==
    ASSUME TypeInv, NEW l \in Loops, NEW s \in Stages,
           Spawn(l, s) \/ WorkerEnds(l, s)
    PROVE  TypeInv'
<1>0. {"running", "succeeded", "waiting", "failed"} \subseteq StoredState
  BY DEF StoredState, Terminal
<1>1. CASE Spawn(l, s)
  <2>1. task' \in [Loops -> [Stages -> TaskState]]
    BY <1>1, SetTaskType DEF Spawn, TaskState
  <2>2. stage' \in [Stages -> StoredState]
    BY <1>0, <1>1, TypeParts DEF Spawn
  <2>3. /\ attempts' \in [Stages -> Nat]
        /\ \A t \in Stages : attempts'[t] \in 0..MaxAttempts[t]
    <3>1. attempts' = attempts \/ attempts' = [attempts EXCEPT ![s] = IF @ = 0 THEN 1 ELSE @]
      BY <1>1 DEF Spawn
    <3> QED
      BY <3>1, TypeParts, BoundAssumption
  <2>4. UNCHANGED <<run, route, loop, halt, owner, cancel>>
    BY <1>1 DEF Spawn
  <2> QED
    BY <2>1, <2>2, <2>3, <2>4, TypeParts, TypePartsNext
<1>2. CASE WorkerSucceeds(l, s)
  <2>1. task' \in [Loops -> [Stages -> TaskState]]
    BY <1>2, SetTaskType DEF WorkerSucceeds, TaskState
  <2>2. stage' \in [Stages -> StoredState]
    BY <1>0, <1>2, TypeParts DEF WorkerSucceeds
  <2>3. route' \in [Gated -> {"unset", "fire", "miss", "missing"}]
    <3>1. PICK r \in [{e \in Gated : e[1] = s} -> {"fire", "miss", "missing"}] :
            route' = [e \in Gated |-> IF e[1] = s THEN r[e] ELSE route[e]]
      BY <1>2 DEF WorkerSucceeds
    <3> QED
      BY <3>1, TypeParts
  <2>4. UNCHANGED <<run, attempts, loop, halt, owner, cancel>>
    BY <1>2 DEF WorkerSucceeds
  <2> QED
    BY <2>1, <2>2, <2>3, <2>4, TypeParts, TypePartsNext
<1>3. CASE WorkerAsks(l, s) \/ WorkerFails(l, s) \/ WorkerDies(l, s)
  <2>1. task' \in [Loops -> [Stages -> TaskState]]
    BY <1>3, SetTaskType DEF WorkerAsks, WorkerFails, WorkerDies, TaskState
  <2>2. stage' \in [Stages -> StoredState]
    BY <1>0, <1>3, TypeParts DEF WorkerAsks, WorkerFails, WorkerDies
  <2>3. UNCHANGED <<run, route, attempts, loop, halt, owner, cancel>>
    BY <1>3 DEF WorkerAsks, WorkerFails, WorkerDies
  <2> QED
    BY <2>1, <2>2, <2>3, TypeParts, TypePartsNext
<1> QED
  BY <1>1, <1>2, <1>3 DEF WorkerEnds

\* Giving a stage up.
LEMMA GiveUpType ==
    ASSUME TypeInv, NEW l \in Loops, NEW s \in Stages, NEW stored \in StoredState,
           GiveUp(l, s, stored)
    PROVE  TypeInv'
<1> DEFINE known == [loop[l].st EXCEPT ![s] = "failed"]
           skips == Cascade(known, {c \in Stages : Rejects(known, s, c, "failed")})
           routed == SetTo(known, skips, "skipped")
           halted == loop[l].halted \/ ~FailureAccepted(routed, s)
<1>0. /\ loop[l].st \in [Stages -> ScheduleState]
      /\ loop[l].halted \in BOOLEAN /\ stage \in [Stages -> StoredState]
  BY TypeParts DEF LoopState
<1>1. /\ loop' = [loop EXCEPT ![l].st = routed, ![l].halted = halted]
      /\ stage' = [SetTo(stage, skips, "skipped") EXCEPT ![s] = stored]
      /\ SetTask(l, s, "none")
      /\ UNCHANGED <<run, route, attempts, halt, owner, cancel>>
  BY <1>0 DEF GiveUp
<1>2. known \in [Stages -> ScheduleState]
  BY <1>0 DEF ScheduleState, Terminal
<1>3. halted \in BOOLEAN
  BY <1>0 DEF FailureAccepted
<1> HIDE DEF known, skips, halted
<1>4. routed \in [Stages -> ScheduleState] /\ SetTo(stage, skips, "skipped") \in [Stages -> StoredState]
  BY <1>0, <1>2, SetToType DEF ScheduleState, StoredState, Terminal
<1> HIDE DEF routed
<1>5. loop' \in [Loops -> LoopState]
  BY <1>1, <1>3, <1>4, LoopExceptType
<1>6. stage' \in [Stages -> StoredState]
  BY <1>1, <1>4
<1>7. task' \in [Loops -> [Stages -> TaskState]]
  BY <1>1, SetTaskType DEF TaskState
<1> QED
  BY <1>1, <1>5, <1>6, <1>7, TypeParts, TypePartsNext

\* A loop hears of a result.
LEMMA ResultType ==
    ASSUME TypeInv, NEW l \in Loops, NEW s \in Stages,
           \/ StageSucceeded(l, s) \/ StageWaits(l, s) \/ StageRepaired(l, s)
           \/ StageFailed(l, s) \/ PreparationFails(l, s)
    PROVE  TypeInv'
<1>0. /\ loop[l].st \in [Stages -> ScheduleState]
      /\ loop[l].halted \in BOOLEAN /\ stage \in [Stages -> StoredState]
      /\ loop \in [Loops -> LoopState]
  BY TypeParts DEF LoopState
<1>1. CASE StageSucceeded(l, s)
  <2> DEFINE known == [loop[l].st EXCEPT ![s] = "succeeded"]
             skips == Cascade(known, EagerSkips({s}))
             routed == SetTo(known, skips, "skipped")
             broken == MissingEdges({s}) # {}
             opened == IF broken THEN {} ELSE Reopened(routed)
  <2>1. /\ loop' = [loop EXCEPT ![l].st = SetTo(routed, opened, "pending"),
                                ![l].halted = loop[l].halted \/ broken]
        /\ stage' = SetTo(SetTo(stage, skips, "skipped"), opened, "pending")
        /\ SetTask(l, s, "none")
        /\ UNCHANGED <<run, route, attempts, halt, owner, cancel>>
    BY <1>0, <1>1 DEF StageSucceeded
  <2>2. known \in [Stages -> ScheduleState] /\ (loop[l].halted \/ broken) \in BOOLEAN
    BY <1>0 DEF ScheduleState, Terminal
  <2> HIDE DEF known, skips, opened, broken
  <2>3. /\ SetTo(routed, opened, "pending") \in [Stages -> ScheduleState]
        /\ SetTo(SetTo(stage, skips, "skipped"), opened, "pending") \in [Stages -> StoredState]
    BY <1>0, <2>2, SetToType DEF ScheduleState, StoredState, Terminal
  <2> HIDE DEF routed
  <2>4. loop' \in [Loops -> LoopState]
    BY <2>1, <2>2, <2>3, LoopExceptType
  <2>5. task' \in [Loops -> [Stages -> TaskState]]
    BY <2>1, SetTaskType DEF TaskState
  <2> QED
    BY <2>1, <2>3, <2>4, <2>5, TypeParts, TypePartsNext
<1>2. CASE StageWaits(l, s) \/ StageRepaired(l, s)
  <2>1. PICK x \in {"waiting", "pending"} : loop' = [loop EXCEPT ![l].st[s] = x]
    BY <1>2 DEF StageWaits, StageRepaired
  <2>2. [loop[l].st EXCEPT ![s] = x] \in [Stages -> ScheduleState]
    BY <1>0 DEF ScheduleState
  <2>3. loop' = [loop EXCEPT ![l].st = [loop[l].st EXCEPT ![s] = x]]
    BY <1>0, <2>1
  <2>4. loop' \in [Loops -> LoopState]
    BY <2>2, <2>3, LoopExceptType
  <2>5. task' \in [Loops -> [Stages -> TaskState]]
    BY <1>2, SetTaskType DEF TaskState, StageWaits, StageRepaired
  <2>6. /\ attempts' \in [Stages -> Nat]
        /\ \A t \in Stages : attempts'[t] \in 0..MaxAttempts[t]
    <3>1. \/ attempts' = attempts
          \/ /\ attempts[s] < MaxAttempts[s]
             /\ attempts' = [attempts EXCEPT ![s] = @ + 1]
      BY <1>2 DEF StageWaits, StageRepaired, Repairable
    <3>2. /\ attempts \in [Stages -> Nat] /\ MaxAttempts \in [Stages -> Nat]
          /\ \A t \in Stages : attempts[t] \in 0..MaxAttempts[t]
      BY TypeParts, BoundAssumption
    <3> QED
      BY <3>1, <3>2
  <2>7. stage' \in [Stages -> StoredState]
    BY <1>0, <1>2 DEF StageWaits, StageRepaired, StoredState
  <2>8. UNCHANGED <<run, route, halt, owner, cancel>>
    BY <1>2 DEF StageWaits, StageRepaired
  <2> QED
    BY <2>4, <2>5, <2>6, <2>7, <2>8, TypeParts, TypePartsNext
<1>3. CASE StageFailed(l, s) \/ PreparationFails(l, s)
  BY <1>0, <1>3, GiveUpType DEF StageFailed, PreparationFails, StoredState, Terminal
<1> QED
  BY <1>1, <1>2, <1>3
\* An answer, and what becomes of the resumed stage.
LEMMA ResumeType ==
    ASSUME TypeInv, NEW l \in Loops, NEW s \in Stages,
           \/ Answer(l, s) \/ ResumedStageSucceeds(l, s)
           \/ ResumedStageAsks(l, s) \/ ResumedStageFails(l, s)
    PROVE  TypeInv'
<1>0. /\ loop \in [Loops -> LoopState] /\ loop[l] \in LoopState
      /\ stage \in [Stages -> StoredState]
  BY TypeParts
<1>1. CASE Answer(l, s)
  <2>1. loop' \in [Loops -> LoopState]
    <3> DEFINE next == [loop[l] EXCEPT !.pc = "resume", !.from = s]
    <3>1. next \in LoopState
      BY <1>0 DEF LoopState, PcState
    <3>2. loop' = [loop EXCEPT ![l] = next]
      BY <1>0, <1>1 DEF Answer
    <3> HIDE DEF next
    <3> QED
      BY <1>0, <3>1, <3>2
  <2>2. stage' \in [Stages -> StoredState]
    BY <1>0, <1>1 DEF Answer, StoredState
  <2>3. task' \in [Loops -> [Stages -> TaskState]]
    BY <1>1, SetTaskType DEF Answer, TaskState
  <2>4. owner' = l /\ UNCHANGED <<run, route, attempts, halt, cancel>>
    BY <1>1 DEF Answer
  <2> QED
    BY <2>1, <2>2, <2>3, <2>4, TypeParts, TypePartsNext
<1>2. CASE ResumedStageSucceeds(l, s)
  <2> DEFINE h == Schedule(s)
  <2>1. /\ h.st \in [Stages -> ScheduleState] /\ h.halted \in BOOLEAN
    <3>1. Hydrated \in [Stages -> ScheduleState]
      BY <1>0 DEF Hydrated, ScheduleState, StoredState, Terminal
    <3>2. SetTo(Hydrated, Reopened(Hydrated), "pending") \in [Stages -> ScheduleState]
      BY <3>1, SetToType DEF ScheduleState
    <3>3. [SetTo(Hydrated, Reopened(Hydrated), "pending") EXCEPT ![s] = "succeeded"]
            \in [Stages -> ScheduleState]
      BY <3>2 DEF ScheduleState, Terminal
    <3>4. UnhandledFailure(Hydrated) \in BOOLEAN
      BY DEF UnhandledFailure
    <3> QED
      BY <3>3, <3>4 DEF Schedule
  <2>2. task' \in [Loops -> [Stages -> TaskState]]
    BY <1>2, SetTaskType DEF ResumedStageSucceeds, TaskState
  <2>3. UNCHANGED <<route, attempts, cancel>>
    BY <1>2 DEF ResumedStageSucceeds
  <2>4. \/ /\ \/ UNCHANGED run \/ WriteTerminal("failed") \/ WriteTerminal("succeeded")
           /\ stage' = SetTo(stage, h.opened, "pending")
           /\ Finish(l)
        \/ Continue(l, s)
    BY <1>2 DEF ResumedStageSucceeds, WriteTerminal
  <2>5. CASE /\ \/ UNCHANGED run \/ WriteTerminal("failed") \/ WriteTerminal("succeeded")
             /\ stage' = SetTo(stage, h.opened, "pending")
             /\ Finish(l)
    <3>1. stage' \in [Stages -> StoredState]
      BY <1>0, <2>5, SetToType DEF StoredState
    <3>2. run' \in {"running", "succeeded", "failed", "cancelled"}
      BY <2>5, TypeParts DEF WriteTerminal
    <3> QED
      BY <2>2, <2>3, <2>5, <3>1, <3>2, FinishType, TypeParts, TypePartsNext
  <2>6. CASE Continue(l, s)
    <3> DEFINE done == Having(h.st, Stages, "succeeded")
               skips == Cascade(h.st, EagerSkips(done))
               next == [pc |-> "tick", st |-> SetTo(h.st, skips, "skipped"),
                        halted |-> h.halted \/ MissingEdges(done) # {},
                        linked |-> TRUE, cut |-> halt = "cut", from |-> s]
    <3>1. /\ loop' = [loop EXCEPT ![l] = next]
          /\ halt' = IF halt = "none" THEN "clear" ELSE halt
          /\ stage' = SetTo(SetTo(stage, h.opened, "pending"), skips, "skipped")
          /\ UNCHANGED <<run, owner>>
      BY <2>6 DEF Continue
    <3> HIDE DEF h
    <3>2. SetTo(h.st, skips, "skipped") \in [Stages -> ScheduleState]
      BY <2>1, SetToType DEF ScheduleState, Terminal
    <3>3. stage' \in [Stages -> StoredState]
      BY <1>0, <3>1, SetToType DEF StoredState, Terminal
    <3> HIDE DEF skips, done
    <3>4. next \in LoopState
      BY <2>1, <3>2 DEF LoopState, PcState
    <3> HIDE DEF next
    <3>5. loop' \in [Loops -> LoopState]
      BY <1>0, <3>1, <3>4
    <3> QED
      BY <2>2, <2>3, <3>1, <3>3, <3>5, TypeParts, TypePartsNext
  <2> QED
    BY <2>4, <2>5, <2>6
<1>3. CASE ResumedStageAsks(l, s) \/ ResumedStageFails(l, s)
  <2>1. task' \in [Loops -> [Stages -> TaskState]]
    BY <1>3, SetTaskType DEF ResumedStageAsks, ResumedStageFails, TaskState
  <2>2. stage' \in [Stages -> StoredState]
    BY <1>0, <1>3 DEF ResumedStageAsks, ResumedStageFails, StoredState, Terminal
  <2>3. run' \in {run, "failed"} /\ Finish(l) /\ UNCHANGED <<route, attempts, cancel>>
    BY <1>3 DEF ResumedStageAsks, ResumedStageFails
  <2> QED
    BY <2>1, <2>2, <2>3, FinishType, TypeParts, TypePartsNext
<1> QED
  BY <1>1, <1>2, <1>3

\* The steps of a cancel.
LEMMA CancelType ==
    ASSUME TypeInv, CancelWrite \/ CancelProceeds PROVE TypeInv'
<1>0. loop \in [Loops -> LoopState] /\ stage \in [Stages -> StoredState]
  BY TypeParts
<1>1. CASE CancelWrite \/ CancelKilled
  BY <1>1, TypeParts, TypePartsNext DEF CancelWrite, CancelKilled
<1>2. CASE CancelHalt
  <2>1. \A l \in Loops : [loop[l] EXCEPT !.cut = @ \/ loop[l].linked] \in LoopState
    BY <1>0 DEF LoopState
  <2>2. loop' = [l \in Loops |-> [loop[l] EXCEPT !.cut = @ \/ loop[l].linked]]
    BY <1>2 DEF CancelHalt
  <2>3. loop' \in [Loops -> LoopState]
    BY <2>1, <2>2
  <2>4. /\ halt' \in {"none", "clear", "cut"}
        /\ cancel' \in {"idle", "written", "killing", "marking", "done"}
        /\ UNCHANGED <<run, stage, route, attempts, task, owner>>
    BY <1>2 DEF CancelHalt
  <2> QED
    BY <2>3, <2>4, TypeParts, TypePartsNext
<1>3. CASE CancelMark
  <2>1. \A l \in Loops : [loop[l] EXCEPT !.linked = FALSE] \in LoopState
    BY <1>0 DEF LoopState
  <2>2. loop' = [l \in Loops |-> [loop[l] EXCEPT !.linked = FALSE]]
    BY <1>3 DEF CancelMark, Unlinked
  <2>3. loop' \in [Loops -> LoopState]
    BY <2>1, <2>2
  <2>4. stage' \in [Stages -> StoredState]
    BY <1>0, <1>3, SetToType DEF CancelMark, StoredState, Terminal
  <2>5. /\ halt' = "none" /\ owner' = 0 /\ cancel' = "done"
        /\ UNCHANGED <<run, route, attempts, task>>
    BY <1>3 DEF CancelMark, Forget
  <2> QED
    BY <2>3, <2>4, <2>5, TypeParts, TypePartsNext
<1> QED
  BY <1>1, <1>2, <1>3 DEF CancelProceeds

\* Every step keeps the types.
LEMMA TypeNext == TypeInv /\ [Next]_vars => TypeInv'
<1> SUFFICES ASSUME TypeInv, [Next]_vars PROVE TypeInv'
  OBVIOUS
<1>1. CASE UNCHANGED vars
  BY <1>1, TypeParts, TypePartsNext DEF vars
<1>2. CASE Next
  BY <1>2, LoopStepType, WorkerStepType, ResultType, ResumeType, CancelType
     DEF Next, Progress, ResultHandled
<1> QED
  BY <1>1, <1>2

\* For every pipeline, whatever its workers do and however often its
\* questions are answered, the variables have their types: the loops and the
\* store only ever hold the states the code names, and no stage has more
\* attempts than max_attempts of its repair policy allows.
THEOREM PipelineTyped == Spec => []TypeOK
<1>1. TypeInv => TypeOK
  BY DEF TypeInv
<1> QED
  BY <1>1, TypeInit, TypeNext, PTL DEF Spec
-----------------------------------------------------------------------------
(* What the steps of a loop change                                         *)

\* Replacing the schedule and the halt of one loop.
LEMMA LoopAtHalt ==
    ASSUME TypeInv, NEW l \in Loops, NEW st, NEW halted \in BOOLEAN,
           loop' = [loop EXCEPT ![l].st = st, ![l].halted = halted]
    PROVE  /\ loop'[l].st = st /\ loop'[l].halted = halted
           /\ loop'[l].pc = loop[l].pc /\ loop'[l].cut = loop[l].cut
           /\ \A k \in Loops : k # l => loop'[k] = loop[k]
<1>1. loop \in [Loops -> LoopState]
  BY TypeParts
<1>2. loop' = [loop EXCEPT ![l] = [loop[l] EXCEPT !.st = st, !.halted = halted]]
  BY <1>1
<1>3. loop'[l] = [loop[l] EXCEPT !.st = st, !.halted = halted]
  BY <1>1, <1>2
<1>4. \A k \in Loops : k # l => loop'[k] = loop[k]
  BY <1>1, <1>2
<1>5. loop[l] \in LoopState
  BY <1>1
<1>6. loop'[l].st = st
  BY <1>3, <1>5 DEF LoopState
<1>7. loop'[l].halted = halted
  BY <1>3, <1>5 DEF LoopState
<1>8. loop'[l].pc = loop[l].pc /\ loop'[l].cut = loop[l].cut
  BY <1>3, <1>5 DEF LoopState
<1> QED
  BY <1>4, <1>6, <1>7, <1>8

\* The same when only the schedule is replaced.
LEMMA LoopAtSchedule ==
    ASSUME TypeInv, NEW l \in Loops, NEW st, loop' = [loop EXCEPT ![l].st = st]
    PROVE  /\ loop'[l].st = st /\ loop'[l].halted = loop[l].halted
           /\ loop'[l].pc = loop[l].pc /\ loop'[l].cut = loop[l].cut
           /\ \A k \in Loops : k # l => loop'[k] = loop[k]
<1>1. loop \in [Loops -> LoopState] /\ loop[l] \in LoopState
  BY TypeParts
<1>2. loop' = [loop EXCEPT ![l] = [loop[l] EXCEPT !.st = st]]
  BY <1>1
<1>3. loop'[l] = [loop[l] EXCEPT !.st = st]
  BY <1>1, <1>2
<1>4. \A k \in Loops : k # l => loop'[k] = loop[k]
  BY <1>1, <1>2
<1> QED
  BY <1>1, <1>3, <1>4 DEF LoopState

\* Setting one task.
LEMMA SetTaskAt ==
    ASSUME TypeInv, NEW l \in Loops, NEW s \in Stages, NEW x, SetTask(l, s, x)
    PROVE  /\ task'[l][s] = x
           /\ \A t \in Stages : t # s => task'[l][t] = task[l][t]
           /\ \A k \in Loops : k # l => task'[k] = task[k]
BY TypeParts DEF SetTask

\* What a loop makes of a success: the schedule with the stage succeeded,
\* what is skipped, and what is opened again.
OkKnown(l, s) == [loop[l].st EXCEPT ![s] = "succeeded"]
OkSkips(l, s) == Cascade(OkKnown(l, s), EagerSkips({s}))
OkRouted(l, s) == SetTo(OkKnown(l, s), OkSkips(l, s), "skipped")
OkOpened(l, s) ==
    IF MissingEdges({s}) # {} THEN {} ELSE Reopened(OkRouted(l, s))

\* What a success does to its loop, the other loops and the store.
LEMMA SucceededEffect ==
    ASSUME TypeInv, NEW l \in Loops, NEW s \in Stages, StageSucceeded(l, s)
    PROVE  /\ Looping(l) /\ task[l][s] = "ok"
           /\ loop'[l].st = SetTo(OkRouted(l, s), OkOpened(l, s), "pending")
           /\ loop'[l].halted = (loop[l].halted \/ MissingEdges({s}) # {})
           /\ loop'[l].pc = loop[l].pc /\ loop'[l].cut = loop[l].cut
           /\ \A k \in Loops : k # l => loop'[k] = loop[k]
           /\ stage' = SetTo(SetTo(stage, OkSkips(l, s), "skipped"),
                             OkOpened(l, s), "pending")
           /\ SetTask(l, s, "none")
           /\ UNCHANGED <<run, route, attempts, halt, owner, cancel>>
<1>1. loop' = [loop EXCEPT
         ![l].st = SetTo(OkRouted(l, s), OkOpened(l, s), "pending"),
         ![l].halted = loop[l].halted \/ MissingEdges({s}) # {}]
  BY TypeParts DEF StageSucceeded, OkKnown, OkSkips, OkRouted, OkOpened, LoopState
<1>2. /\ Looping(l) /\ task[l][s] = "ok"
      /\ stage' = SetTo(SetTo(stage, OkSkips(l, s), "skipped"),
                        OkOpened(l, s), "pending")
      /\ SetTask(l, s, "none")
      /\ UNCHANGED <<run, route, attempts, halt, owner, cancel>>
  BY DEF StageSucceeded, OkKnown, OkSkips, OkRouted, OkOpened
<1> DEFINE st == SetTo(OkRouted(l, s), OkOpened(l, s), "pending")
           halted == loop[l].halted \/ MissingEdges({s}) # {}
<1>3. halted \in BOOLEAN
  BY TypeParts DEF LoopState
<1> HIDE DEF st, halted
<1>4. loop' = [loop EXCEPT ![l].st = st, ![l].halted = halted]
  BY <1>1 DEF st, halted
<1>5. /\ loop'[l].st = st /\ loop'[l].halted = halted
      /\ loop'[l].pc = loop[l].pc /\ loop'[l].cut = loop[l].cut
      /\ \A k \in Loops : k # l => loop'[k] = loop[k]
  BY <1>3, <1>4, LoopAtHalt
<1> QED
  BY <1>2, <1>5, Zenon DEF st, halted

\* What a loop makes of a failure.
BadKnown(l, s) == [loop[l].st EXCEPT ![s] = "failed"]
BadSkips(l, s) ==
    Cascade(BadKnown(l, s), {c \in Stages : Rejects(BadKnown(l, s), s, c, "failed")})
BadRouted(l, s) == SetTo(BadKnown(l, s), BadSkips(l, s), "skipped")

\* What a failure does to its loop, the other loops and the store.
LEMMA GiveUpEffect ==
    ASSUME TypeInv, NEW l \in Loops, NEW s \in Stages, NEW stored,
           GiveUp(l, s, stored)
    PROVE  /\ loop'[l].st = BadRouted(l, s)
           /\ loop'[l].halted
                = (loop[l].halted \/ ~FailureAccepted(BadRouted(l, s), s))
           /\ loop'[l].pc = loop[l].pc /\ loop'[l].cut = loop[l].cut
           /\ \A k \in Loops : k # l => loop'[k] = loop[k]
           /\ stage' = [SetTo(stage, BadSkips(l, s), "skipped") EXCEPT ![s] = stored]
           /\ SetTask(l, s, "none")
           /\ UNCHANGED <<run, route, attempts, halt, owner, cancel>>
<1>1. loop' = [loop EXCEPT ![l].st = BadRouted(l, s),
         ![l].halted = loop[l].halted \/ ~FailureAccepted(BadRouted(l, s), s)]
  BY TypeParts DEF GiveUp, BadKnown, BadSkips, BadRouted, LoopState
<1>2. /\ stage' = [SetTo(stage, BadSkips(l, s), "skipped") EXCEPT ![s] = stored]
      /\ SetTask(l, s, "none")
      /\ UNCHANGED <<run, route, attempts, halt, owner, cancel>>
  BY DEF GiveUp, BadKnown, BadSkips, BadRouted
<1> DEFINE halted == loop[l].halted \/ ~FailureAccepted(BadRouted(l, s), s)
<1>3. halted \in BOOLEAN
  BY TypeParts DEF LoopState, FailureAccepted
<1> HIDE DEF halted
<1>4. loop' = [loop EXCEPT ![l].st = BadRouted(l, s), ![l].halted = halted]
  BY <1>1 DEF halted
<1>5. /\ loop'[l].st = BadRouted(l, s) /\ loop'[l].halted = halted
      /\ loop'[l].pc = loop[l].pc /\ loop'[l].cut = loop[l].cut
      /\ \A k \in Loops : k # l => loop'[k] = loop[k]
  BY <1>3, <1>4, LoopAtHalt
<1> QED
  BY <1>2, <1>5, Zenon DEF halted

\* What a pass of a loop starts and drops.
Room(l) ==
    IF Cardinality(InFlight(l)) >= MaxActive THEN 0
    ELSE MaxActive - Cardinality(InFlight(l))
Stopping(l) == loop[l].halted \/ loop[l].cut
Started(l) == IF Stopping(l) THEN {} ELSE First(Runnable(l), Room(l))
Idle(l) == InFlight(l) \cup Started(l) = {}
Dropped(l) ==
    IF Idle(l) /\ Stopping(l) THEN Having(loop[l].st, Stages, "pending") ELSE {}

\* What a pass does to its loop and to what is in flight.
LEMMA TickEffect ==
    ASSUME TypeInv, NEW l \in Loops, Tick(l)
    PROVE  /\ loop[l].pc = "tick"
           /\ ~AllTerminal(loop[l].st)
           /\ \A s \in Stages : ~Stalled(loop[l].st, s)
           /\ loop'[l].st = SetTo(SetTo(loop[l].st, Started(l), "active"),
                                  Dropped(l), "skipped")
           /\ loop'[l].halted = Stopping(l)
           /\ loop'[l].pc = IF Idle(l) THEN "wind" ELSE "tick"
           /\ loop'[l].cut = loop[l].cut
           /\ \A k \in Loops : k # l => loop'[k] = loop[k]
           /\ task' = [task EXCEPT ![l] = SetTo(@, Started(l), "prep")]
           /\ UNCHANGED <<run, stage, route, attempts, halt, owner, cancel>>
<1>1. loop' = [loop EXCEPT
         ![l].st = SetTo(SetTo(loop[l].st, Started(l), "active"), Dropped(l), "skipped"),
         ![l].halted = Stopping(l),
         ![l].pc = IF Idle(l) THEN "wind" ELSE "tick"]
  BY Zenon DEF Tick, Room, Stopping, Started, Idle, Dropped
<1>2. /\ loop[l].pc = "tick"
      /\ ~AllTerminal(loop[l].st)
      /\ \A s \in Stages : ~Stalled(loop[l].st, s)
      /\ task' = [task EXCEPT ![l] = SetTo(@, Started(l), "prep")]
      /\ UNCHANGED <<run, stage, route, attempts, halt, owner, cancel>>
  BY Zenon DEF Tick, Room, Stopping, Started
<1> DEFINE st == SetTo(SetTo(loop[l].st, Started(l), "active"), Dropped(l), "skipped")
           pc == IF Idle(l) THEN "wind" ELSE "tick"
           halted == Stopping(l)
<1>3. halted \in BOOLEAN
  BY TypeParts DEF LoopState, Stopping
<1> HIDE DEF st, pc, halted
<1>4. loop' = [loop EXCEPT ![l].st = st, ![l].halted = halted, ![l].pc = pc]
  BY <1>1 DEF st, pc, halted
<1>5. /\ loop'[l].st = st /\ loop'[l].halted = halted /\ loop'[l].pc = pc
      /\ loop'[l].cut = loop[l].cut
      /\ \A k \in Loops : k # l => loop'[k] = loop[k]
  <2> DEFINE next == [loop[l] EXCEPT !.st = st, !.halted = halted, !.pc = pc]
  <2>1. loop \in [Loops -> LoopState] /\ loop[l] \in LoopState
    BY TypeParts
  <2>2. loop' = [loop EXCEPT ![l] = next]
    BY <1>4, <2>1
  <2>3. next.st = st
    BY <2>1 DEF LoopState
  <2>4. next.halted = halted
    BY <1>3, <2>1 DEF LoopState
  <2>5. next.pc = pc /\ next.cut = loop[l].cut
    BY <2>1 DEF LoopState
  <2> HIDE DEF next
  <2> QED
    BY <2>1, <2>2, <2>3, <2>4, <2>5
<1> QED
  BY <1>2, <1>5, Zenon DEF st, pc, halted

-----------------------------------------------------------------------------
(* The limit on the stages of a loop                                       *)

\* What the order of the naturals relates.
LEMMA LessThanPairs ==
    ASSUME NEW m \in Nat, NEW n \in Nat
    PROVE  <<m, n>> \in OpToRel(<, Nat) <=> m < n
BY DEF OpToRel

\* A nonempty set of naturals has a least element: what replaces induction.
LEMMA LeastElement ==
    ASSUME NEW S \in SUBSET Nat, S # {}
    PROVE  \E m \in S : \A k \in S : m <= k
<1> DEFINE R == OpToRel(<, Nat)
<1>1. PICK m \in S : \A k \in S : ~ (<<k, m>> \in R)
  BY WFMin, NatLessThanWellFounded
<1>2. \A k \in S : k < m => <<k, m>> \in R
  BY LessThanPairs
<1> HIDE DEF R
<1>3. \A k \in S : ~ (k < m)
  BY <1>1, <1>2
<1> QED
  BY <1>3

\* A nonempty set of stages has a first one in pipeline order.
LEMMA FirstStage ==
    ASSUME NEW S \in SUBSET Stages, S # {}
    PROVE  \E m \in S : \A t \in S : Index[m] <= Index[t]
<1> DEFINE N == {Index[s] : s \in S}
<1>1. N \in SUBSET Nat /\ N # {}
  BY DagAssumption
<1>2. PICK k \in N : \A j \in N : k <= j
  BY <1>1, LeastElement
<1> QED
  BY <1>2

\* The stages before s in pipeline order, among the stages of S.
Earlier(S, s) == {t \in S : Index[t] < Index[s]}

\* There are finitely many of them.
LEMMA EarlierFinite ==
    ASSUME NEW S \in SUBSET Stages, NEW s
    PROVE  IsFiniteSet(Earlier(S, s)) /\ Cardinality(Earlier(S, s)) \in Nat
<1>1. Earlier(S, s) \in SUBSET Stages
  BY DEF Earlier
<1> QED
  BY <1>1, DagAssumption, FS_Subset, FS_CardinalityType

\* The first n stages of a set are at most n.
LEMMA FirstAtMost ==
    ASSUME NEW S \in SUBSET Stages, NEW n \in Nat
    PROVE  /\ IsFiniteSet(First(S, n))
           /\ Cardinality(First(S, n)) \in Nat
           /\ Cardinality(First(S, n)) <= n
<1> DEFINE F == First(S, n)
           Rank(s) == n - Cardinality(Earlier(S, s))
<1>0. F \in SUBSET S /\ \A s \in F : Cardinality(Earlier(S, s)) < n
  BY DEF First, Earlier
<1>1. IsFiniteSet(F) /\ Cardinality(F) \in Nat
  <2>1. F \in SUBSET Stages
    BY <1>0
  <2> HIDE DEF F
  <2> QED
    BY <2>1, DagAssumption, FS_Subset, FS_CardinalityType
<1> HIDE DEF F
<1>2. CASE F = {}
  BY <1>2, FS_EmptySet DEF F
<1>3. CASE F # {}
  <2>1. \A s \in F : /\ Cardinality(Earlier(S, s)) \in Nat
                     /\ Rank(s) \in Nat
    BY <1>0, EarlierFinite
  <2>2. PICK m \in F : \A t \in F : Rank(m) <= Rank(t)
    <3> DEFINE N == {Rank(s) : s \in F}
    <3>1. N \in SUBSET Nat /\ N # {}
      BY <1>3, <2>1
    <3>2. PICK k \in N : \A j \in N : k <= j
      BY <3>1, LeastElement
    <3> QED
      BY <3>2
  <2>3. ASSUME NEW t \in F, t # m PROVE t \in Earlier(S, m)
    <3>1. t \in S /\ m \in S /\ t \in Stages /\ m \in Stages
      BY <1>0
    <3>2. Index[t] \in Nat /\ Index[m] \in Nat /\ Index[t] # Index[m]
      BY <2>3, <3>1, DagAssumption
    <3>3. ASSUME Index[m] < Index[t] PROVE FALSE
      <4>1. Earlier(S, m) \cup {m} \in SUBSET Earlier(S, t)
        BY <3>1, <3>2, <3>3, DagAssumption DEF Earlier
      <4>2. m \notin Earlier(S, m)
        BY <3>2 DEF Earlier
      <4>3. Cardinality(Earlier(S, m) \cup {m}) = Cardinality(Earlier(S, m)) + 1
        BY <4>2, EarlierFinite, FS_AddElement
      <4>4. Cardinality(Earlier(S, m) \cup {m}) <= Cardinality(Earlier(S, t))
        BY <4>1, EarlierFinite, FS_Subset
      <4> QED
        BY <2>1, <2>2, <4>3, <4>4
    <3> QED
      BY <3>1, <3>2, <3>3 DEF Earlier
  <2>4. F \in SUBSET (Earlier(S, m) \cup {m})
    BY <2>3
  <2>5. /\ IsFiniteSet(Earlier(S, m) \cup {m})
        /\ Cardinality(Earlier(S, m) \cup {m}) <= Cardinality(Earlier(S, m)) + 1
        /\ Cardinality(Earlier(S, m) \cup {m}) \in Nat
    <3>1. IsFiniteSet(Earlier(S, m)) /\ Cardinality(Earlier(S, m)) \in Nat
      BY EarlierFinite
    <3>2. /\ IsFiniteSet(Earlier(S, m) \cup {m})
          /\ Cardinality(Earlier(S, m) \cup {m}) =
               IF m \in Earlier(S, m) THEN Cardinality(Earlier(S, m))
               ELSE Cardinality(Earlier(S, m)) + 1
      BY <3>1, FS_AddElement
    <3> QED
      BY <3>1, <3>2
  <2>6. Cardinality(F) <= Cardinality(Earlier(S, m) \cup {m})
    BY <2>4, <2>5, FS_Subset
  <2>7. Cardinality(Earlier(S, m)) < n /\ Cardinality(Earlier(S, m)) \in Nat
    BY <1>0, <2>1
  <2> QED
    BY <1>1, <2>5, <2>6, <2>7 DEF F
<1> QED
  BY <1>1, <1>2, <1>3 DEF F

\* With room for one, the first stage of a nonempty set is taken.
LEMMA FirstTakesSome ==
    ASSUME NEW S \in SUBSET Stages, S # {}, NEW n \in Nat, n > 0
    PROVE  First(S, n) # {}
<1>1. PICK m \in S : \A t \in S : Index[m] <= Index[t]
  BY FirstStage
<1>2. \A t \in S : ~ (Index[t] < Index[m])
  BY <1>1, DagAssumption
<1>3. {t \in S : Index[t] < Index[m]} = {}
  BY <1>2
<1>4. m \in First(S, n)
  BY <1>1, <1>3, FS_EmptySet DEF First
<1> QED
  BY <1>4

\* Inductive: no loop has more in flight than the limit, and a loop that was
\* not started has nothing.
LoopLimited(l) ==
    /\ Cardinality(InFlight(l)) <= MaxActive
    /\ loop[l].pc = "off" => InFlight(l) = {}

\* maxActiveStagesPerRun bounds every loop by itself.
EachLoopWithinLimit == \A l \in Loops : Cardinality(InFlight(l)) <= MaxActive

LimitInv == \A l \in Loops : LoopLimited(l)

\* What is in flight is a finite set of stages.
LEMMA InFlightFinite ==
    ASSUME NEW l
    PROVE  /\ InFlight(l) \in SUBSET Stages
           /\ IsFiniteSet(InFlight(l))
           /\ Cardinality(InFlight(l)) \in Nat
<1>1. InFlight(l) \in SUBSET Stages
  BY DEF InFlight
<1> QED
  BY <1>1, DagAssumption, FS_Subset, FS_CardinalityType

\* A step that puts nothing more in flight keeps a loop within its limit.
LEMMA LimitKept ==
    ASSUME NEW l \in Loops, LoopLimited(l), InFlight(l)' \subseteq InFlight(l),
           loop'[l].pc = "off" => loop[l].pc = "off"
    PROVE  LoopLimited(l)'
<1>1. /\ InFlight(l)' \in SUBSET InFlight(l)
      /\ IsFiniteSet(InFlight(l)) /\ Cardinality(InFlight(l)) \in Nat
  BY InFlightFinite
<1>2. IsFiniteSet(InFlight(l)') /\ Cardinality(InFlight(l)') <= Cardinality(InFlight(l))
  BY <1>1, FS_Subset
<1>3. Cardinality(InFlight(l)') \in Nat
  BY <1>2, FS_CardinalityType
<1>4. Cardinality(InFlight(l)') <= MaxActive
  BY <1>1, <1>2, <1>3, BoundAssumption DEF LoopLimited
<1>5. loop'[l].pc = "off" => InFlight(l)' = {}
  BY <1>1 DEF LoopLimited
<1> QED
  BY <1>4, <1>5 DEF LoopLimited

\* An ended loop is done and the others keep their control state.
LEMMA FinishPc ==
    ASSUME TypeInv, NEW l \in Loops, Finish(l), NEW k \in Loops
    PROVE  loop'[k].pc = IF k = l THEN "done" ELSE loop[k].pc
<1> DEFINE ended == [loop EXCEPT ![l] = Blank("done")]
<1>1. \A j \in Loops : ended[j].pc = IF j = l THEN "done" ELSE loop[j].pc
  BY TypeParts DEF Blank
<1> HIDE DEF ended
<1>2. \/ loop' = ended
      \/ loop' = [j \in Loops |-> [ended[j] EXCEPT !.linked = FALSE]]
  BY DEF Finish, Unlinked, ended
<1>3. \A j \in Loops : [ended[j] EXCEPT !.linked = FALSE].pc = ended[j].pc
  <2>1. ended \in [Loops -> LoopState]
    <3>1. Blank("done") \in LoopState
      BY DEF Blank, LoopState, PcState, AllPending, ScheduleState
    <3> QED
      BY <3>1, TypeParts DEF ended
  <2> QED
    BY <2>1 DEF LoopState
<1> QED
  BY <1>1, <1>2, <1>3

\* No step takes a loop back to where it was not started.
LEMMA StartedForGood ==
    ASSUME TypeInv, Next, NEW k \in Loops, loop'[k].pc = "off"
    PROVE  loop[k].pc = "off"
<1>0. loop \in [Loops -> LoopState]
  BY TypeParts
<1>1. ASSUME NEW l \in Loops, LoopStep(l) PROVE loop[k].pc = "off"
  <2>1. CASE SkipStalled(l) \/ LeaveLoop(l) \/ Tick(l)
    <3>1. CASE SkipStalled(l)
      <4>1. PICK st : loop' = [loop EXCEPT ![l].st = st]
        BY <3>1 DEF SkipStalled
      <4> QED
        BY <1>0, <4>1 DEF LoopState
    <3>2. CASE LeaveLoop(l)
      BY <1>0, <3>2 DEF LeaveLoop, LoopState
    <3>3. CASE Tick(l)
      BY <3>3, TickEffect
    <3> QED
      BY <2>1, <3>1, <3>2, <3>3
  <2>2. CASE WindDown(l)
    BY <2>2, FinishPc DEF WindDown
  <2> QED
    BY <1>1, <2>1, <2>2 DEF LoopStep
<1>2. ASSUME NEW l \in Loops, NEW s \in Stages, Spawn(l, s) \/ WorkerEnds(l, s)
      PROVE  loop[k].pc = "off"
  BY <1>2 DEF Spawn, WorkerEnds, WorkerSucceeds, WorkerAsks, WorkerFails, WorkerDies
<1>3. ASSUME NEW l \in Loops, NEW s \in Stages,
             \/ StageSucceeded(l, s) \/ StageWaits(l, s) \/ StageRepaired(l, s)
             \/ StageFailed(l, s) \/ PreparationFails(l, s)
      PROVE  loop[k].pc = "off"
  <2>1. CASE StageSucceeded(l, s)
    BY <2>1, SucceededEffect
  <2>2. CASE StageWaits(l, s) \/ StageRepaired(l, s)
    <3>1. PICK x : loop' = [loop EXCEPT ![l].st = [loop[l].st EXCEPT ![s] = x]]
      BY <1>0, <2>2 DEF StageWaits, StageRepaired
    <3> QED
      BY <3>1, LoopAtSchedule
  <2>3. CASE StageFailed(l, s) \/ PreparationFails(l, s)
    BY <2>3, GiveUpEffect DEF StageFailed, PreparationFails
  <2> QED
    BY <1>3, <2>1, <2>2, <2>3
<1>4. ASSUME NEW l \in Loops, NEW s \in Stages,
             \/ Answer(l, s) \/ ResumedStageSucceeds(l, s)
             \/ ResumedStageAsks(l, s) \/ ResumedStageFails(l, s)
      PROVE  loop[k].pc = "off"
  <2>1. CASE Answer(l, s)
    BY <1>0, <2>1 DEF Answer, LoopState
  <2>2. CASE Finish(l)
    BY <2>2, FinishPc
  <2>3. CASE Continue(l, s)
    BY <1>0, <2>3 DEF Continue
  <2> QED
    BY <1>4, <2>1, <2>2, <2>3
       DEF ResumedStageSucceeds, ResumedStageAsks, ResumedStageFails
<1>5. ASSUME CancelWrite \/ CancelProceeds PROVE loop[k].pc = "off"
  <2>1. \/ loop' = loop
        \/ loop' = [l \in Loops |-> [loop[l] EXCEPT !.cut = @ \/ loop[l].linked]]
        \/ loop' = [l \in Loops |-> [loop[l] EXCEPT !.linked = FALSE]]
    BY <1>5 DEF CancelWrite, CancelProceeds, CancelHalt, CancelKilled, CancelMark,
                Unlinked
  <2> QED
    BY <1>0, <2>1 DEF LoopState
<1> QED
  BY <1>1, <1>2, <1>3, <1>4, <1>5 DEF Next, Progress, ResultHandled

\* Only a pass of a loop and an answer put a stage in flight.
LEMMA OnlyTickAndAnswerStart ==
    ASSUME TypeInv, Next, NEW k \in Loops, ~Tick(k),
           \A s \in Stages : ~Answer(k, s)
    PROVE  InFlight(k)' \subseteq InFlight(k)
<1>0. task \in [Loops -> [Stages -> TaskState]]
  BY TypeParts
<1>1. CASE task' = task
  BY <1>1 DEF InFlight
<1>2. ASSUME NEW l \in Loops, NEW s \in Stages, NEW x,
             task[l][s] # "none", SetTask(l, s, x)
      PROVE  InFlight(k)' \subseteq InFlight(k)
  BY <1>0, <1>2 DEF SetTask, InFlight
<1>3. ASSUME NEW l \in Loops, LoopStep(l)
      PROVE  InFlight(k)' \subseteq InFlight(k)
  <2>1. CASE Tick(l)
    <3>1. PICK S : task' = [task EXCEPT ![l] = S]
      BY <2>1 DEF Tick
    <3> QED
      BY <1>0, <2>1, <3>1 DEF InFlight
  <2> QED
    BY <1>1, <1>3, <2>1 DEF LoopStep, SkipStalled, LeaveLoop, WindDown
<1>4. ASSUME NEW l \in Loops, NEW s \in Stages, Answer(l, s)
      PROVE  InFlight(k)' \subseteq InFlight(k)
  <2>1. k # l /\ task' = [task EXCEPT ![l][s] = "prep"]
    BY <1>4 DEF Answer, SetTask
  <2> QED
    BY <1>0, <2>1 DEF InFlight
<1>5. ASSUME NEW l \in Loops, NEW s \in Stages,
             Spawn(l, s) \/ WorkerEnds(l, s)
      PROVE  InFlight(k)' \subseteq InFlight(k)
  <2>1. task[l][s] # "none" /\ \E x : SetTask(l, s, x)
    BY <1>5 DEF Spawn, WorkerEnds, WorkerSucceeds, WorkerAsks, WorkerFails, WorkerDies
  <2> QED
    BY <1>2, <2>1
<1>6. ASSUME NEW l \in Loops, NEW s \in Stages,
             ResultHandled(l, s) \/ PreparationFails(l, s)
      PROVE  InFlight(k)' \subseteq InFlight(k)
  <2>1. task[l][s] # "none" /\ \E x : SetTask(l, s, x)
    BY <1>6 DEF ResultHandled, PreparationFails, StageSucceeded, StageWaits,
                StageRepaired, StageFailed, GiveUp, ResumedStageSucceeds,
                ResumedStageAsks, ResumedStageFails
  <2> QED
    BY <1>2, <2>1
<1>7. ASSUME CancelWrite \/ CancelProceeds PROVE InFlight(k)' \subseteq InFlight(k)
  BY <1>1, <1>7 DEF CancelWrite, CancelProceeds, CancelHalt, CancelKilled, CancelMark
<1> QED
  BY <1>3, <1>4, <1>5, <1>6, <1>7 DEF Next, Progress

\* Every step keeps every loop within its limit.
LEMMA LimitNext == TypeInv /\ LimitInv /\ [Next]_vars => LimitInv'
<1> SUFFICES ASSUME TypeInv, LimitInv, [Next]_vars, NEW l \in Loops
             PROVE  LoopLimited(l)'
  BY DEF LimitInv
<1>0. LoopLimited(l) /\ loop \in [Loops -> LoopState]
      /\ task \in [Loops -> [Stages -> TaskState]]
  BY TypeParts DEF LimitInv
<1>1. CASE UNCHANGED vars
  BY <1>0, <1>1 DEF vars, LoopLimited, InFlight
<1>2. CASE Next /\ ~Tick(l) /\ \A s \in Stages : ~Answer(l, s)
  BY <1>0, <1>2, LimitKept, StartedForGood, OnlyTickAndAnswerStart
<1>3. CASE Tick(l)
  <2> DEFINE n == Cardinality(InFlight(l))
             room == IF n >= MaxActive THEN 0 ELSE MaxActive - n
             halted == loop[l].halted \/ loop[l].cut
             started == IF halted THEN {} ELSE First(Runnable(l), room)
             idle == InFlight(l) \cup started = {}
  <2>1. /\ task' = [task EXCEPT ![l] = SetTo(@, started, "prep")]
        /\ loop'[l].pc # "off"
    <3>1. loop'[l].pc # "off"
      BY <1>3, TickEffect
    <3> QED
      BY <1>3, <3>1 DEF Tick
  <2>2. n \in Nat /\ IsFiniteSet(InFlight(l)) /\ n <= MaxActive /\ MaxActive \in Nat
    BY <1>0, InFlightFinite, BoundAssumption DEF LoopLimited
  <2>3. room \in Nat /\ n + room <= MaxActive
    BY <2>2
  <2>4. /\ started \in SUBSET Stages /\ IsFiniteSet(started)
        /\ Cardinality(started) \in Nat /\ Cardinality(started) <= room
    <3>1. Runnable(l) \in SUBSET Stages
      BY DEF Runnable
    <3> HIDE DEF room
    <3>2. CASE halted
      <4>1. started = {}
        BY <3>2
      <4> HIDE DEF started
      <4> QED
        BY <2>3, <4>1, FS_EmptySet
    <3>3. CASE ~halted
      <4>1. started = First(Runnable(l), room)
        BY <3>3
      <4>2. First(Runnable(l), room) \in SUBSET Stages
        BY <3>1 DEF First
      <4> HIDE DEF started
      <4> QED
        BY <2>3, <3>1, <4>1, <4>2, FirstAtMost
    <3> QED
      BY <3>2, <3>3
  <2> HIDE DEF started, room
  <2>5. InFlight(l)' = InFlight(l) \cup started
    <3>1. task'[l] = SetTo(task[l], started, "prep")
      BY <1>0, <2>1
    <3>2. \A s \in Stages : task'[l][s] = IF s \in started THEN "prep" ELSE task[l][s]
      BY <3>1, SetToAt
    <3> QED
      BY <2>4, <3>2 DEF InFlight
  <2>6. Cardinality(InFlight(l) \cup started) <= n + Cardinality(started)
    <3>1. /\ Cardinality(InFlight(l) \cup started) = n + Cardinality(started) - Cardinality(InFlight(l) \cap started)
          /\ Cardinality(InFlight(l) \cap started) \in Nat
      <4>1. InFlight(l) \cap started \in SUBSET InFlight(l)
        OBVIOUS
      <4>2. Cardinality(InFlight(l) \cap started) \in Nat
        BY <2>2, <4>1, FS_Subset, FS_CardinalityType
      <4> QED
        BY <2>2, <2>4, <4>2, FS_Union
    <3> QED
      BY <2>2, <2>4, <3>1
  <2>7. Cardinality(InFlight(l) \cup started) \in Nat
    BY <2>2, <2>4, FS_Union, FS_CardinalityType
  <2>8. Cardinality(InFlight(l)') <= MaxActive
    BY <2>2, <2>3, <2>4, <2>5, <2>6, <2>7
  <2> QED
    BY <2>1, <2>8 DEF LoopLimited
<1>4. ASSUME NEW s \in Stages, Answer(l, s) PROVE LoopLimited(l)'
  <2>1. /\ task' = [task EXCEPT ![l][s] = "prep"] /\ InFlight(l) = {}
        /\ loop'[l].pc # "off"
    BY <1>0, <1>4 DEF Answer, SetTask, LoopLimited, LoopState
  <2>2. InFlight(l)' = {s}
    BY <1>0, <2>1 DEF InFlight
  <2>3. Cardinality(InFlight(l)') = 1
    BY <2>2, FS_Singleton
  <2>4. Cardinality(InFlight(l)') <= MaxActive
    BY <2>3, BoundAssumption
  <2> QED
    BY <2>1, <2>4 DEF LoopLimited
<1> QED
  BY <1>1, <1>2, <1>3, <1>4

\* Nothing is in flight when the run is started.
LEMMA LimitInit == Init => LimitInv
<1> SUFFICES ASSUME Init, NEW l \in Loops PROVE LoopLimited(l)
  BY DEF LimitInv
<1>1. InFlight(l) = {}
  BY DEF Init, InFlight
<1> QED
  BY <1>1, FS_EmptySet, BoundAssumption DEF LoopLimited

\* Whatever the order in which workers end, are repaired or are answered for,
\* and for every pipeline and limit, no scheduling loop ever has more than
\* maxActiveStagesPerRun stages in flight.  (The limit is kept per loop: two
\* loops of one run may exceed it together.)
THEOREM LoopsWithinLimit == Spec => []EachLoopWithinLimit
<1>1. LimitInv => EachLoopWithinLimit
  BY DEF LimitInv, LoopLimited, EachLoopWithinLimit
<1> QED
  BY <1>1, TypeInit, TypeNext, LimitInit, LimitNext, PTL DEF Spec
-----------------------------------------------------------------------------
(* The cascade of skips                                                    *)

\* One unfolding of the cascade: D are the stages known to be skipped.
Doomed(st, seeds, D, s) ==
    \/ st[s] = "pending" /\ s \in seeds
    \/ \E p \in Parents[s] : Rejects(st, p, s, "skipped") /\ p \in D

\* A larger set of skipped stages skips more.
LEMMA DoomedMonotone ==
    ASSUME NEW st, NEW seeds, NEW D, NEW E, D \subseteq E, NEW s,
           Doomed(st, seeds, D, s)
    PROVE  Doomed(st, seeds, E, s)
BY DEF Doomed

\* The least set closed under the unfolding is a fixed point of it.
LEMMA DoomedFixpoint ==
    ASSUME NEW st, NEW seeds
    PROVE  \E W \in SUBSET Stages :
             \A s \in Stages : s \in W <=> Doomed(st, seeds, W, s)
<1> DEFINE Closed(D) == \A s \in Stages : Doomed(st, seeds, D, s) => s \in D
           W == {s \in Stages : \A D \in SUBSET Stages : Closed(D) => s \in D}
           V == {s \in Stages : Doomed(st, seeds, W, s)}
<1>1. \A D \in SUBSET Stages : Closed(D) => W \subseteq D
  OBVIOUS
<1>2. ASSUME NEW s \in Stages, Doomed(st, seeds, W, s) PROVE s \in W
  <2> SUFFICES ASSUME NEW D \in SUBSET Stages, Closed(D) PROVE s \in D
    OBVIOUS
  <2>1. W \subseteq D
    BY <1>1
  <2> HIDE DEF W
  <2>2. Doomed(st, seeds, D, s)
    BY <1>2, <2>1, DoomedMonotone
  <2> QED
    BY <2>2
<1>3. ASSUME NEW s \in W PROVE Doomed(st, seeds, W, s)
  <2>1. V \in SUBSET Stages /\ V \subseteq W
    BY <1>2
  <2>2. Closed(V)
    <3> SUFFICES ASSUME NEW t \in Stages, Doomed(st, seeds, V, t) PROVE t \in V
      OBVIOUS
    <3> HIDE DEF W
    <3>1. Doomed(st, seeds, W, t)
      BY <2>1, DoomedMonotone
    <3> QED
      BY <3>1
  <2>3. s \in V
    BY <1>3, <2>1, <2>2
  <2> QED
    BY <2>3
<1>4. W \in SUBSET Stages
  OBVIOUS
<1> HIDE DEF W
<1> QED
  BY <1>2, <1>3, <1>4

\* What the cascade skips: its seeds that are pending, what they skip in turn,
\* and nothing else.
LEMMA CascadeRule ==
    ASSUME NEW st, NEW seeds, NEW s \in Stages
    PROVE  s \in Cascade(st, seeds) <=> Doomed(st, seeds, Cascade(st, seeds), s)
<1> DEFINE Rule(f) == [t \in Stages |->
                         \/ st[t] = "pending" /\ t \in seeds
                         \/ \E p \in Parents[t] : Rejects(st, p, t, "skipped") /\ f[p]]
           doomed == CHOOSE f : f = Rule(f)
<1>1. Parents \in [Stages -> SUBSET Stages]
  BY DagAssumption
<1>2. \E f : f = Rule(f)
  <2>1. PICK W \in SUBSET Stages :
          \A t \in Stages : t \in W <=> Doomed(st, seeds, W, t)
    BY DoomedFixpoint
  <2> DEFINE f == [t \in Stages |-> t \in W]
  <2>2. ASSUME NEW t \in Stages
        PROVE  (t \in W) = (\/ st[t] = "pending" /\ t \in seeds
                            \/ \E p \in Parents[t] : Rejects(st, p, t, "skipped") /\ f[p])
    <3>1. \A p \in Parents[t] : f[p] <=> p \in W
      BY <1>1
    <3> HIDE DEF f
    <3> DEFINE B == \/ st[t] = "pending" /\ t \in seeds
                    \/ \E p \in Parents[t] : Rejects(st, p, t, "skipped") /\ f[p]
    <3>2. t \in W <=> B
      BY <2>1, <3>1 DEF Doomed
    <3>3. B \in BOOLEAN
      OBVIOUS
    <3> HIDE DEF B
    <3>4. (t \in W) = B
      BY <3>2, <3>3
    <3> QED
      BY <3>4 DEF B
  <2>3. f = Rule(f)
    BY <2>2, Zenon
  <2> QED
    BY <2>3
<1>3. doomed = Rule(doomed)
  BY <1>2, Zenon
<1>4. Cascade(st, seeds) = {t \in Stages : doomed[t]}
  BY Zenon DEF Cascade
<1> HIDE DEF doomed
<1>5. doomed[s] <=> \/ st[s] = "pending" /\ s \in seeds
                    \/ \E p \in Parents[s] : Rejects(st, p, s, "skipped") /\ doomed[p]
  BY <1>3
<1>6. \A p \in Parents[s] : doomed[p] <=> p \in Cascade(st, seeds)
  BY <1>1, <1>4
<1> QED
  BY <1>4, <1>5, <1>6 DEF Doomed

\* What is skipped was pending, and was a seed or has one parent, which is
\* skipped too by an edge that does not list it.
LEMMA CascadeOf ==
    ASSUME NEW st, NEW seeds, NEW s \in Cascade(st, seeds)
    PROVE  /\ s \in Stages /\ st[s] = "pending"
           /\ \/ s \in seeds
              \/ \E p \in Stages : Parents[s] = {p} /\ p \in Cascade(st, seeds)
<1>1. s \in Stages
  BY DEF Cascade
<1>2. Doomed(st, seeds, Cascade(st, seeds), s)
  BY <1>1, CascadeRule
<1>3. Parents[s] \subseteq Stages
  BY <1>1, DagAssumption
<1> QED
  BY <1>1, <1>2, <1>3 DEF Doomed, Rejects

\* Every pending seed is skipped, and what its skipping rules out.
LEMMA CascadeHas ==
    ASSUME NEW st, NEW seeds, NEW s \in Stages, st[s] = "pending"
    PROVE  /\ s \in seeds => s \in Cascade(st, seeds)
           /\ \A p \in Cascade(st, seeds) :
                Parents[s] = {p} /\ "skipped" \notin On[<<p, s>>]
                  => s \in Cascade(st, seeds)
BY CascadeRule DEF Doomed, Rejects

-----------------------------------------------------------------------------
(* The invariant of the loop that starts the run                           *)

\* No question was answered yet: only the loop that starts the run is there.
Unanswered == \A l \in Loops : l # 1 => loop[l].pc = "off"

\* What that loop keeps: its control state, its schedule, what is in flight.
Pc == loop[1].pc
Sch == loop[1].st
Act == task[1]
Halted == loop[1].halted

\* The loop ends with nothing in flight, and a loop that was not started has
\* nothing in flight.
Control ==
    /\ Pc \in {"tick", "wind", "done"}
    /\ Pc # "tick" => \A s \in Stages : Act[s] = "none"
    /\ \A l \in Loops : l # 1 => \A s \in Stages : task[l][s] = "none"

\* The stages in flight are the ones the schedule has as active.
Busy == Pc # "done" => \A s \in Stages : Sch[s] = "active" <=> Act[s] # "none"

\* A cancel in progress has stored the run as cancelled before anything else,
\* and the outcome is stored when the loop ends.
Cancelling ==
    /\ cancel = "idle" <=> run # "cancelled"
    /\ loop[1].cut => run = "cancelled"
    /\ run \in {"succeeded", "failed"} => Pc = "done"

\* The stored status of a stage is one of X, or a cancel has marked the stage.
Shown(s, X) == stage[s] \in X \/ (run = "cancelled" /\ stage[s] = "failed")

\* The store and the schedule agree, but for results the loop has not heard
\* of yet, preparations that failed, and the stages a halted loop drops.
Agree(s) ==
    /\ Act[s] = "prep" => Shown(s, {"pending"})
    /\ Act[s] = "worker" => Shown(s, {"running"})
    /\ Act[s] = "ok" => stage[s] = "succeeded"
    /\ Act[s] = "ask" => Shown(s, {"waiting"})
    /\ Act[s] = "bad" => stage[s] = "failed"
    /\ Act[s] = "dead" => Shown(s, {"running", "pending"})
    /\ Sch[s] = "pending" => Shown(s, {"pending"})
    /\ Sch[s] = "waiting" => Shown(s, {"waiting"})
    /\ Sch[s] = "succeeded" => stage[s] = "succeeded"
    /\ Sch[s] = "failed" =>
         stage[s] = "failed" \/ (s \in Unprepared /\ stage[s] = "pending")
    /\ Sch[s] = "skipped" =>
         \/ stage[s] = "skipped"
         \/ Pc = "wind" /\ Halted /\ Shown(s, {"pending"})

\* Until the loop has ended, store and schedule agree on every stage.
Agreement == Pc # "done" => \A s \in Stages : Agree(s)

\* What StartedWhenReady asks of a stage.
Ready(s) ==
    \/ Parents[s] = {}
    \/ /\ \A p \in Parents[s] : stage[p] \in {"succeeded", "skipped"}
       /\ \E p \in Parents[s] : stage[p] = "succeeded"
       /\ \/ \E p \in Parents[s] : stage[p] = "skipped"
          \/ \A p \in Parents[s] :
               <<p, s>> \in Gated => route[<<p, s>>] = "fire"

\* What was started and did not go back to pending was ready and still is.
StartedReady ==
    Pc # "done" =>
        \A s \in Stages :
            Sch[s] \in {"active", "waiting", "succeeded", "failed"} => Ready(s)

\* Why a stage was skipped: reasons that stay true, and under which the join
\* rule of the stage is never met.
StalledJoin(st, s) ==
    /\ Cardinality(Parents[s]) > 1
    /\ ParentsSettled(st, s)
    /\ \/ Having(st, Parents[s], "succeeded") = {}
       \/ /\ Having(st, Parents[s], "skipped") = {}
          /\ \E p \in Parents[s] : Missed(p, s)

\* The only parent of the stage did not succeed, or its `if` did not fire.
RejectedBy(st, p, s) ==
    /\ Parents[s] = {p}
    /\ \/ st[p] \in {"skipped", "failed"}
       \/ st[p] = "succeeded" /\ Missed(p, s)

SkipReason(st, s) ==
    StalledJoin(st, s) \/ \E p \in Stages : RejectedBy(st, p, s)

\* The loop has not dropped its pending stages.
Live == Pc = "tick" \/ (Pc = "wind" /\ ~Halted)

\* What such a loop has skipped it has skipped for good.
SkippedForReason ==
    Live => \A s \in Stages : Sch[s] = "skipped" => SkipReason(Sch, s)

\* What the envelope of a stage makes of every `if` is there once the stage
\* has succeeded, and only then.
RoutesSet ==
    \A e \in Gated : stage[e[1]] = "succeeded" <=> route[e] # "unset"

\* Until the loop halts, no stage is left pending that its only parent rules
\* out.
SkippedEagerly ==
    Live /\ ~Halted =>
        \A s, p \in Stages : Parents[s] = {p} /\ Sch[s] = "pending" =>
            /\ ~(Sch[p] = "succeeded" /\ Missed(p, s))
            /\ Sch[p] = "skipped" => "skipped" \in On[<<p, s>>]

\* A loop halts for a cancel, a route without its field, or a failure.
HaltedForReason ==
    Pc # "done" /\ Halted =>
        \/ run = "cancelled"
        \/ \E e \in Gated : route[e] = "missing"
        \/ \E s \in Stages : Sch[s] = "failed"

\* A loop that is left without a halt has nothing more to start or to skip.
LeftForReason ==
    Pc = "wind" /\ ~Halted =>
        \A s \in Stages : Sch[s] = "pending" =>
            ~JoinAllows(Sch, s) /\ ~Stalled(Sch, s)

\* What the ended loop has stored, as an equation of the stored stages.
EndedAsRouted ==
    \A s \in Stages :
        /\ stage[s] \in {"succeeded", "skipped"}
        /\ stage[s] = "succeeded" <=>
             \/ Parents[s] = {}
             \/ /\ \E p \in Parents[s] : stage[p] = "succeeded"
                /\ \/ \E p \in Parents[s] : stage[p] # "succeeded"
                   \/ \A p \in Parents[s] :
                        <<p, s>> \in Gated => route[<<p, s>>] = "fire"

\* What the ended loop has stored.
Ended ==
    Pc = "done" =>
        /\ run = "failed" =>
             \/ FailureRecorded
             \/ \E s \in Stages : FailedUnrecorded(s) \/ Stranded(s)
        /\ run = "running" => Having(stage, Stages, "waiting") # {}
        /\ run = "succeeded" => EndedAsRouted

\* The inductive invariant, with the type invariant, for as long as no question
\* was answered.
FirstLoopInv ==
    /\ Control /\ Busy /\ Cancelling /\ Agreement
    /\ StartedReady /\ StartedWhenReady /\ SkippedForReason
    /\ RoutesSet /\ SkippedEagerly /\ HaltedForReason /\ LeftForReason /\ Ended

\* A stage's parents are stages, one or several.
LEMMA ParentsCounted ==
    ASSUME NEW s \in Stages
    PROVE  /\ Parents[s] \subseteq Stages
           /\ IsFiniteSet(Parents[s]) /\ Cardinality(Parents[s]) \in Nat
           /\ Parents[s] = {} <=> Cardinality(Parents[s]) = 0
           /\ Cardinality(Parents[s]) = 1 <=> \E p \in Stages : Parents[s] = {p}
<1>1. Parents[s] \in SUBSET Stages
  BY DagAssumption
<1>2. IsFiniteSet(Parents[s]) /\ Cardinality(Parents[s]) \in Nat
  BY <1>1, DagAssumption, FS_Subset, FS_CardinalityType
<1>3. Parents[s] = {} <=> Cardinality(Parents[s]) = 0
  BY <1>2, FS_EmptySet
<1>4. Cardinality(Parents[s]) = 1 <=> \E p : Parents[s] = {p}
  BY <1>2, FS_Singleton
<1> QED
  BY <1>1, <1>2, <1>3, <1>4

\* A stage skipped for a reason is not what its join rule would start.
LEMMA ReasonBars ==
    ASSUME NEW st, NEW s \in Stages, SkipReason(st, s) PROVE ~JoinAllows(st, s)
<1>1. CASE StalledJoin(st, s)
  <2>1. /\ Cardinality(Parents[s]) > 1 /\ Cardinality(Parents[s]) \in Nat
        /\ Parents[s] # {}
    BY <1>1, ParentsCounted DEF StalledJoin
  <2>2. ASSUME Having(st, Parents[s], "skipped") = {}, NEW p \in Parents[s], Missed(p, s)
        PROVE  ~ (\A q \in Parents[s] : Fired(st, q, s))
    BY <2>2 DEF Missed, Fired
  <2> QED
    BY <1>1, <2>1, <2>2 DEF StalledJoin, JoinAllows
<1>2. ASSUME NEW p \in Stages, RejectedBy(st, p, s) PROVE ~JoinAllows(st, s)
  <2>1. Parents[s] = {p} /\ Cardinality(Parents[s]) = 1
    BY <1>2, ParentsCounted DEF RejectedBy
  <2> QED
    BY <1>2, <2>1 DEF RejectedBy, JoinAllows, Fired, Missed
<1> QED
  BY <1>1, <1>2 DEF SkipReason

\* A reason stays when the terminal stages of the schedule stay as they are.
LEMMA ReasonStays ==
    ASSUME NEW st, NEW su, NEW s \in Stages, SkipReason(st, s),
           \A p \in Stages : st[p] \in Terminal => su[p] = st[p]
    PROVE  SkipReason(su, s)
<1>0. Parents[s] \subseteq Stages
  BY ParentsCounted
<1>1. CASE StalledJoin(st, s)
  <2>1. \A p \in Parents[s] : su[p] = st[p]
    BY <1>0, <1>1 DEF StalledJoin, ParentsSettled, Terminal
  <2>2. StalledJoin(su, s)
    BY <1>1, <2>1 DEF StalledJoin, ParentsSettled, Having
  <2> QED
    BY <2>2 DEF SkipReason
<1>2. ASSUME NEW p \in Stages, RejectedBy(st, p, s) PROVE SkipReason(su, s)
  BY <1>2 DEF RejectedBy, SkipReason, Terminal
<1> QED
  BY <1>1, <1>2 DEF SkipReason

\* A stage that the cascade skips is skipped for a reason when the seeds are.
LEMMA CascadeReasons ==
    ASSUME NEW st, NEW seeds, NEW su, su = SetTo(st, Cascade(st, seeds), "skipped"),
           \A c \in Stages : c \in seeds /\ st[c] = "pending" => SkipReason(su, c),
           NEW s \in Cascade(st, seeds)
    PROVE  SkipReason(su, s)
<1> DEFINE C == Cascade(st, seeds)
<1>1. /\ s \in Stages /\ st[s] = "pending"
      /\ s \in seeds \/ \E p \in Stages : Parents[s] = {p} /\ p \in C
  BY CascadeOf
<1>2. CASE s \in seeds
  BY <1>1, <1>2
<1>3. ASSUME NEW p \in Stages, Parents[s] = {p}, p \in C PROVE SkipReason(su, s)
  <2>1. su[p] = "skipped"
    BY <1>3, SetToAt
  <2> QED
    BY <1>3, <2>1 DEF SkipReason, RejectedBy
<1> QED
  BY <1>1, <1>2, <1>3

\* What the cascade leaves: terminal stages as they are, the skipped ones
\* skipped, and no pending child whose only parent it skips by an edge that
\* does not list it.
LEMMA CascadeLeaves ==
    ASSUME NEW st, NEW seeds, NEW su, su = SetTo(st, Cascade(st, seeds), "skipped")
    PROVE  /\ \A s \in Stages : st[s] # "pending" => su[s] = st[s]
           /\ \A s \in Stages : su[s] = "pending" =>
                /\ st[s] = "pending" /\ s \notin seeds
                /\ \A p \in Stages : Parents[s] = {p} /\ su[p] = "skipped" =>
                      st[p] = "skipped" \/ "skipped" \in On[<<p, s>>]
<1>1. \A s \in Stages : su[s] = IF s \in Cascade(st, seeds) THEN "skipped" ELSE st[s]
  BY SetToAt
<1>2. \A s \in Cascade(st, seeds) : s \in Stages /\ st[s] = "pending"
  BY CascadeOf
<1>3. ASSUME NEW s \in Stages, su[s] = "pending"
      PROVE  /\ st[s] = "pending" /\ s \notin seeds
             /\ \A p \in Stages : Parents[s] = {p} /\ su[p] = "skipped" =>
                   st[p] = "skipped" \/ "skipped" \in On[<<p, s>>]
  <2>1. s \notin Cascade(st, seeds) /\ st[s] = "pending"
    BY <1>1, <1>3
  <2> QED
    BY <1>1, <2>1, CascadeHas
<1> QED
  BY <1>1, <1>2, <1>3

\* The join rule looks at parents that are succeeded or skipped: where the
\* store has them so too, the stage is ready.
LEMMA AllowedIsReady ==
    ASSUME NEW st, NEW s \in Stages, JoinAllows(st, s),
           \A p \in Stages : st[p] \in {"succeeded", "skipped"} => stage[p] = st[p]
    PROVE  Ready(s)
<1>0. Parents[s] \subseteq Stages
  BY ParentsCounted
<1>1. CASE Parents[s] = {}
  BY <1>1 DEF Ready
<1>2. CASE /\ Cardinality(Parents[s]) = 1
           /\ \A p \in Parents[s] : st[p] = "succeeded" /\ Fired(st, p, s)
  <2>1. PICK p \in Stages : Parents[s] = {p}
    BY <1>2, ParentsCounted
  <2> QED
    BY <1>2, <2>1 DEF Ready, Fired
<1>3. CASE /\ ParentsSettled(st, s)
           /\ Having(st, Parents[s], "succeeded") # {}
           /\ \/ Having(st, Parents[s], "skipped") # {}
              \/ \A p \in Parents[s] : Fired(st, p, s)
  <2>1. /\ \A p \in Parents[s] : stage[p] = st[p] /\ st[p] \in {"succeeded", "skipped"}
        /\ \E p \in Parents[s] : st[p] = "succeeded"
    BY <1>0, <1>3 DEF ParentsSettled, Having
  <2> QED
    BY <1>3, <2>1 DEF Ready, Having, Fired
<1> QED
  BY <1>1, <1>2, <1>3 DEF JoinAllows

\* The stages that are settled in the store stay so, with their routes.
Frozen ==
    /\ \A s \in Stages : stage[s] \in {"succeeded", "skipped"} => stage'[s] = stage[s]
    /\ \A e \in Gated : stage[e[1]] \in {"succeeded", "skipped"} => route'[e] = route[e]

\* What is ready stays ready.
LEMMA ReadyStays ==
    ASSUME Frozen, NEW s \in Stages, Ready(s) PROVE Ready(s)'
<1>0. Parents[s] \subseteq Stages
  BY ParentsCounted
<1>1. CASE Parents[s] = {}
  BY <1>1 DEF Ready
<1>2. CASE Parents[s] # {}
  <2>1. \A p \in Parents[s] : stage[p] \in {"succeeded", "skipped"} /\ stage'[p] = stage[p]
    BY <1>0, <1>2 DEF Ready, Frozen
  <2>2. \A p \in Parents[s] : <<p, s>> \in Gated => route'[<<p, s>>] = route[<<p, s>>]
    <3> SUFFICES ASSUME NEW p \in Parents[s], <<p, s>> \in Gated
                 PROVE  route'[<<p, s>>] = route[<<p, s>>]
      OBVIOUS
    <3>1. <<p, s>>[1] = p
      OBVIOUS
    <3> QED
      BY <2>1, <3>1 DEF Frozen
  <2> QED
    BY <1>2, <2>1, <2>2 DEF Ready
<1> QED
  BY <1>1, <1>2
-----------------------------------------------------------------------------
(* The steps of the first loop keep its invariant                          *)

\* A worker's step or a result of the first loop.
FirstStageStep(s) ==
    \/ Spawn(1, s) \/ WorkerEnds(1, s)
    \/ StageSucceeded(1, s) \/ StageWaits(1, s) \/ StageRepaired(1, s)
    \/ StageFailed(1, s) \/ PreparationFails(1, s)

\* Until an answer, only the first loop and a cancel take steps.
LEMMA OnlyFirstLoop ==
    ASSUME TypeInv, Control, Unanswered, Unanswered', Next
    PROVE  \/ LoopStep(1)
           \/ \E s \in Stages : FirstStageStep(s)
           \/ CancelWrite \/ CancelProceeds
<1>1. ASSUME NEW l \in Loops, LoopStep(l) PROVE l = 1
  BY <1>1 DEF LoopStep, SkipStalled, Tick, LeaveLoop, WindDown, Unanswered
<1>2. ASSUME NEW l \in Loops, NEW s \in Stages, task[l][s] # "none" PROVE l = 1
  BY <1>2 DEF Control
<1>3. ASSUME NEW l \in Loops, NEW s \in Stages, Spawn(l, s) \/ WorkerEnds(l, s)
      PROVE  FirstStageStep(s)
  <2>1. task[l][s] # "none"
    BY <1>3 DEF Spawn, WorkerEnds, WorkerSucceeds, WorkerAsks, WorkerFails, WorkerDies
  <2>2. l = 1
    BY <1>2, <2>1
  <2> QED
    BY <1>3, <2>2 DEF FirstStageStep
<1>4. ASSUME NEW l \in Loops, NEW s \in Stages,
             ResultHandled(l, s) \/ PreparationFails(l, s)
      PROVE  FirstStageStep(s)
  <2>1. task[l][s] # "none"
    BY <1>4 DEF ResultHandled, StageSucceeded, StageWaits, StageRepaired, StageFailed,
                PreparationFails, ResumedStageSucceeds, ResumedStageAsks, ResumedStageFails
  <2>2. l = 1 /\ loop[l].pc # "resume"
    BY <1>2, <2>1 DEF Control, Pc
  <2>3. \/ StageSucceeded(l, s) \/ StageWaits(l, s) \/ StageRepaired(l, s)
        \/ StageFailed(l, s) \/ PreparationFails(l, s)
    BY <1>4, <2>2 DEF ResultHandled, ResumedStageSucceeds, ResumedStageAsks,
                      ResumedStageFails
  <2> QED
    BY <2>2, <2>3 DEF FirstStageStep
<1>5. ASSUME NEW l \in Loops, NEW s \in Stages, Answer(l, s) PROVE FALSE
  <2>1. loop[l].pc = "off" /\ loop'[l].pc = "resume"
    <3>1. loop \in [Loops -> LoopState] /\ loop[l] \in LoopState
      BY TypeParts
    <3>2. loop'[l] = [loop[l] EXCEPT !.pc = "resume", !.from = s]
      BY <1>5, <3>1 DEF Answer
    <3> QED
      BY <1>5, <3>1, <3>2 DEF Answer, LoopState
  <2> QED
    BY <2>1 DEF Control, Pc, Unanswered
<1> QED
  BY <1>1, <1>3, <1>4, <1>5 DEF Next, Progress

\* The parts of the type invariant that the first loop's state has.
LEMMA FirstTyped ==
    ASSUME TypeInv
    PROVE  /\ 1 \in Loops
           /\ Sch \in [Stages -> ScheduleState]
           /\ Act \in [Stages -> TaskState]
           /\ Halted \in BOOLEAN /\ loop[1].cut \in BOOLEAN
           /\ loop[1] \in LoopState
BY TypeParts, OneIsLoop DEF Sch, Act, Halted, LoopState

\* A worker of the first loop: its task and the stored status of its stage
\* change together, and its routes are stored when it succeeds.
WorkerStep(s) ==
    /\ Act[s] \in {"prep", "worker"} /\ Act'[s] # "none"
    /\ \A t \in Stages : t # s => Act'[t] = Act[t] /\ stage'[t] = stage[t]
    /\ \A k \in Loops : k # 1 => task'[k] = task[k]
    /\ Agree(s)'
    /\ \A e \in Gated : IF e[1] = s /\ stage'[s] = "succeeded"
                        THEN route'[e] # "unset"
                        ELSE route'[e] = route[e]
    /\ UNCHANGED <<run, loop, cancel>>

\* The steps of a worker are such steps.
LEMMA WorkerSteps ==
    ASSUME TypeInv, FirstLoopInv, NEW s \in Stages, Spawn(1, s) \/ WorkerEnds(1, s)
    PROVE  WorkerStep(s)
<1>0. /\ 1 \in Loops /\ task \in [Loops -> [Stages -> TaskState]]
      /\ stage \in [Stages -> StoredState]
  BY TypeParts, OneIsLoop
<1>1. /\ Act[s] \in {"prep", "worker"} /\ UNCHANGED <<run, loop, cancel>>
  BY DEF Act, Spawn, WorkerEnds, WorkerSucceeds, WorkerAsks, WorkerFails, WorkerDies
<1>2. Pc = "tick" /\ Sch[s] = "active" /\ Agree(s)
  BY <1>1 DEF FirstLoopInv, Control, Busy, Agreement
<1>3. /\ Act'[s] # "none" /\ Act'[s] = task'[1][s]
      /\ \A t \in Stages : t # s => Act'[t] = Act[t]
      /\ \A k \in Loops : k # 1 => task'[k] = task[k]
  <2>1. PICK x \in TaskState \ {"none"} : SetTask(1, s, x)
    BY DEF Spawn, WorkerEnds, WorkerSucceeds, WorkerAsks, WorkerFails, WorkerDies, TaskState
  <2> QED
    BY <1>0, <2>1, SetTaskAt DEF Act
<1>4. \A t \in Stages : t # s => stage'[t] = stage[t]
  BY <1>0 DEF Spawn, WorkerEnds, WorkerSucceeds, WorkerAsks, WorkerFails, WorkerDies
<1>5. Sch' = Sch /\ Pc' = Pc /\ Halted' = Halted
  BY <1>1 DEF Sch, Pc, Halted
<1>6. Agree(s)'
  <2>1. \/ Act'[s] = "dead" /\ stage'[s] = stage[s]
        \/ Act'[s] = "worker" /\ stage'[s] = "running"
        \/ Act'[s] = "ok" /\ stage'[s] = "succeeded"
        \/ Act'[s] = "ask" /\ stage'[s] = "waiting"
        \/ Act'[s] = "bad" /\ stage'[s] = "failed"
    BY <1>0, <1>3, SetTaskAt DEF Spawn, WorkerEnds, WorkerSucceeds, WorkerAsks,
                                 WorkerFails, WorkerDies, Act
  <2>2. Act'[s] = "dead" => Shown(s, {"running", "pending"})'
    BY <1>1, <1>2, <2>1 DEF Agree, Shown
  <2> QED
    BY <1>2, <1>5, <2>1, <2>2 DEF Agree, Shown
<1>7. \A e \in Gated : IF e[1] = s /\ stage'[s] = "succeeded"
                       THEN route'[e] # "unset" ELSE route'[e] = route[e]
  <2>1. CASE WorkerSucceeds(1, s)
    <3>1. PICK r \in [{e \in Gated : e[1] = s} -> {"fire", "miss", "missing"}] :
            route' = [e \in Gated |-> IF e[1] = s THEN r[e] ELSE route[e]]
      BY <2>1 DEF WorkerSucceeds
    <3>2. stage'[s] = "succeeded"
      BY <1>0, <2>1 DEF WorkerSucceeds
    <3> QED
      BY <3>1, <3>2
  <2>2. CASE ~WorkerSucceeds(1, s)
    <3>1. route' = route
      BY <2>2 DEF Spawn, WorkerEnds, WorkerAsks, WorkerFails, WorkerDies
    <3>2. stage'[s] # "succeeded"
      BY <1>0, <1>1, <1>2, <2>2
         DEF Spawn, WorkerEnds, WorkerAsks, WorkerFails, WorkerDies, Agree, Shown
    <3> QED
      BY <3>1, <3>2
  <2> QED
    BY <2>1, <2>2
<1> QED
  BY <1>1, <1>3, <1>4, <1>6, <1>7 DEF WorkerStep
\* What the loop has started is what the store has as started.
LEMMA StoreReadyNext ==
    ASSUME TypeInv', Busy', Agreement', StartedReady', Pc' # "done"
    PROVE  StartedWhenReady'
<1> SUFFICES ASSUME NEW s \in Stages, stage'[s] \in {"running", "waiting", "succeeded"}
             PROVE  Ready(s)'
  BY DEF StartedWhenReady, Ready
<1>1. Sch'[s] \in ScheduleState /\ Act'[s] \in TaskState
  <2>1. TypeInv => Sch \in [Stages -> ScheduleState] /\ Act \in [Stages -> TaskState]
    BY FirstTyped
  <2>2. (Sch \in [Stages -> ScheduleState] /\ Act \in [Stages -> TaskState])'
    BY <2>1, FirstTyped, PTL
  <2> QED
    BY <2>2
<1>2. Agree(s)' /\ (Sch'[s] = "active" <=> Act'[s] # "none")
  BY DEF Busy, Agreement
<1>3. Sch'[s] \notin {"pending", "skipped"}
  BY <1>2 DEF Agree, Shown
<1> QED
  BY <1>1, <1>3 DEF StartedReady, ScheduleState, Terminal

\* The reason for a skip stays true through a step.
LEMMA ReasonNext ==
    ASSUME Frozen, NEW s \in Stages, SkipReason(Sch, s),
           \A p \in Stages : Sch[p] \in Terminal => Sch'[p] = Sch[p],
           \A p \in Stages : Sch[p] = "succeeded" => stage[p] = "succeeded"
    PROVE  SkipReason(Sch, s)'
<1>0. Parents[s] \subseteq Stages
  BY ParentsCounted
<1>1. ASSUME NEW p \in Parents[s], Sch[p] = "succeeded", Missed(p, s)
      PROVE  Missed(p, s)'
  <2>1. <<p, s>> \in Gated /\ <<p, s>>[1] = p /\ stage[p] = "succeeded"
    BY <1>0, <1>1 DEF Missed
  <2>2. route'[<<p, s>>] = route[<<p, s>>]
    BY <2>1 DEF Frozen
  <2> QED
    BY <1>1, <2>2 DEF Missed
<1>2. CASE StalledJoin(Sch, s)
  <2>1. \A p \in Parents[s] : Sch'[p] = Sch[p]
    BY <1>0, <1>2 DEF StalledJoin, ParentsSettled, Terminal
  <2>2. CASE Having(Sch, Parents[s], "succeeded") = {}
    <3>1. StalledJoin(Sch, s)'
      BY <1>2, <2>1, <2>2 DEF StalledJoin, ParentsSettled, Having
    <3> QED
      BY <3>1 DEF SkipReason
  <2>3. ASSUME Having(Sch, Parents[s], "skipped") = {}, NEW p \in Parents[s], Missed(p, s)
        PROVE  SkipReason(Sch, s)'
    <3>1. Sch[p] = "succeeded"
      BY <1>2, <2>3 DEF StalledJoin, ParentsSettled, Having
    <3>2. Missed(p, s)'
      BY <1>1, <2>3, <3>1
    <3>3. StalledJoin(Sch, s)'
      BY <1>2, <2>1, <2>3, <3>2 DEF StalledJoin, ParentsSettled, Having
    <3> QED
      BY <3>3 DEF SkipReason
  <2> QED
    BY <1>2, <2>2, <2>3 DEF StalledJoin
<1>3. ASSUME NEW p \in Stages, RejectedBy(Sch, p, s) PROVE SkipReason(Sch, s)'
  <2>1. Sch'[p] = Sch[p] /\ p \in Parents[s]
    BY <1>3 DEF RejectedBy, Terminal
  <2>2. Sch[p] = "succeeded" /\ Missed(p, s) => Missed(p, s)'
    BY <1>1, <2>1
  <2>3. RejectedBy(Sch, p, s)'
    BY <1>3, <2>1, <2>2 DEF RejectedBy
  <2> QED
    BY <2>3 DEF SkipReason
<1> QED
  BY <1>2, <1>3 DEF SkipReason

\* A worker's step keeps the invariant: the schedule does not change, and the
\* stage was not settled.
LEMMA WorkerStepKeeps ==
    ASSUME TypeInv, TypeInv', FirstLoopInv, NEW s \in Stages, WorkerStep(s)
    PROVE  FirstLoopInv'
<1> USE DEF WorkerStep
<1>1. /\ Pc = "tick" /\ Sch[s] = "active" /\ Agree(s)
      /\ Sch' = Sch /\ Pc' = Pc /\ Halted' = Halted /\ loop' = loop
      /\ run' = run /\ cancel' = cancel
  BY DEF FirstLoopInv, Control, Busy, Agreement, Sch, Pc, Halted
<1>2. stage[s] \notin {"succeeded", "skipped"}
  BY <1>1 DEF Agree, Shown
<1>3. \A e \in Gated : stage[e[1]] = "succeeded" <=> route[e] # "unset"
  BY DEF FirstLoopInv, RoutesSet
<1>4. Frozen
  BY <1>2 DEF Frozen
<1>5. Control' /\ Busy'
  <2>1. \A t \in Stages : Act'[t] # "none" <=> Act[t] # "none"
    OBVIOUS
  <2> QED
    BY <1>1, <2>1 DEF FirstLoopInv, Control, Busy
<1>6. Cancelling'
  BY <1>1 DEF FirstLoopInv, Cancelling
<1>7. Agreement'
  <2>1. \A t \in Stages : t # s => Agree(t)'
    BY <1>1 DEF FirstLoopInv, Agreement, Agree, Shown
  <2> QED
    BY <2>1 DEF Agreement
<1>8. StartedReady'
  BY <1>1, <1>4, ReadyStays DEF FirstLoopInv, StartedReady
<1>9. StartedWhenReady'
  BY <1>1, <1>5, <1>7, <1>8, StoreReadyNext
<1>10. \A p \in Stages : Sch[p] = "succeeded" => stage[p] = "succeeded"
  BY <1>1 DEF FirstLoopInv, Agreement, Agree
<1>11. SkippedForReason'
  BY <1>1, <1>4, <1>10, ReasonNext DEF FirstLoopInv, SkippedForReason, Live
<1>12. RoutesSet'
  <2> SUFFICES ASSUME NEW e \in Gated
               PROVE  stage'[e[1]] = "succeeded" <=> route'[e] # "unset"
    BY DEF RoutesSet
  <2>1. e[1] \in Stages
    BY DagAssumption DEF Edges
  <2> QED
    BY <1>2, <1>3, <2>1
<1>13. SkippedEagerly'
  <2>1. ASSUME NEW t \in Stages, NEW p \in Stages, Parents[t] = {p},
               Sch[p] = "succeeded", Missed(p, t)'
        PROVE  Missed(p, t)
    <3>1. <<p, t>> \in Gated /\ <<p, t>>[1] = p /\ stage[p] = "succeeded"
      BY <1>10, <2>1 DEF Missed
    <3>2. route'[<<p, t>>] = route[<<p, t>>]
      BY <1>4, <3>1 DEF Frozen
    <3> QED
      BY <2>1, <3>2 DEF Missed
  <2>2. Live' => Live
    BY <1>1 DEF Live
  <2> QED
    BY <1>1, <2>1, <2>2 DEF FirstLoopInv, SkippedEagerly
<1>14. HaltedForReason'
  <2>1. ASSUME NEW e \in Gated, route[e] = "missing" PROVE route'[e] = "missing"
    <3>1. stage[e[1]] = "succeeded"
      BY <1>3, <2>1
    <3> QED
      BY <1>4, <2>1, <3>1 DEF Frozen
  <2> QED
    BY <1>1, <2>1 DEF FirstLoopInv, HaltedForReason
<1>15. LeftForReason' /\ Ended'
  BY <1>1 DEF LeftForReason, Ended
<1> QED
  BY <1>5, <1>6, <1>7, <1>8, <1>9, <1>11, <1>12, <1>13, <1>14, <1>15 DEF FirstLoopInv
\* A step of the first loop that hears of the results of the stages H and
\* skips some of the pending ones, in its schedule and in the store.
ResultStep(H, skips) ==
    /\ Pc = "tick" /\ Pc' = "tick"
    /\ \A t \in H : /\ Act[t] # "none" /\ Act'[t] = "none"
                    /\ Sch'[t] \in {"succeeded", "failed", "waiting", "pending"}
                    /\ Agree(t)'
                    /\ stage'[t] = "succeeded" <=> stage[t] = "succeeded"
                    /\ stage[t] # "skipped"
    /\ \A t \in Stages \ H :
         /\ Act'[t] = Act[t]
         /\ Sch'[t] = IF t \in skips THEN "skipped" ELSE Sch[t]
         /\ stage'[t] = IF t \in skips THEN "skipped" ELSE stage[t]
    /\ \A t \in skips : t \notin H /\ Sch[t] = "pending" /\ SkipReason(Sch, t)'
    /\ \A k \in Loops : k # 1 => task'[k] = task[k]
    /\ Halted => Halted'
    /\ Halted' => \/ Halted
                  \/ \E e \in Gated : route[e] = "missing"
                  \/ \E t \in Stages : Sch'[t] = "failed"
    /\ ~Halted' => \A t \in Stages \ H, p \in Stages :
         Parents[t] = {p} /\ Sch'[t] = "pending" =>
            /\ p \in H /\ Sch'[p] = "succeeded" => ~Missed(p, t)
            /\ p \in skips => "skipped" \in On[<<p, t>>]
    /\ loop'[1].cut = loop[1].cut
    /\ UNCHANGED <<run, route, cancel>>

\* Such a step keeps the invariant.
LEMMA ResultStepKeeps ==
    ASSUME TypeInv, TypeInv', FirstLoopInv, NEW H \in SUBSET Stages,
           NEW skips \in SUBSET Stages, ResultStep(H, skips)
    PROVE  FirstLoopInv'
<1> USE DEF ResultStep
<1>1. /\ Pc = "tick" /\ Pc' = "tick" /\ run' = run /\ cancel' = cancel /\ route' = route
      /\ loop'[1].cut = loop[1].cut
  OBVIOUS
<1>2. \A t \in Stages : Agree(t) /\ (Sch[t] = "active" <=> Act[t] # "none")
  BY <1>1 DEF FirstLoopInv, Busy, Agreement
<1>3. Halted \in BOOLEAN /\ Halted' \in BOOLEAN
  <2>1. TypeInv => Halted \in BOOLEAN
    BY FirstTyped
  <2>2. TypeInv' => (Halted \in BOOLEAN)'
    BY <2>1, FirstTyped, PTL
  <2> QED
    BY <2>1, <2>2
<1>4. \A t \in Stages : Sch[t] \in Terminal => t \notin H \cup skips /\ Sch'[t] = Sch[t]
  BY <1>2 DEF Terminal
<1>5. Frozen
  <2>1. ASSUME NEW t \in Stages, stage[t] \in {"succeeded", "skipped"}
        PROVE  stage'[t] = stage[t]
    <3>1. t \notin skips
      BY <1>2, <2>1 DEF Agree, Shown
    <3> QED
      BY <2>1, <3>1
  <2> QED
    BY <1>1, <2>1 DEF Frozen
<1>6. Control' /\ Busy'
  <2>1. \A t \in Stages : Sch'[t] = "active" <=> Act'[t] # "none"
    BY <1>2
  <2> QED
    BY <1>1, <2>1 DEF FirstLoopInv, Control, Busy
<1>7. Cancelling'
  BY <1>1 DEF FirstLoopInv, Cancelling
<1>8. Agreement'
  <2> SUFFICES ASSUME NEW t \in Stages \ H PROVE Agree(t)'
    BY DEF Agreement
  <2>1. CASE t \in skips
    <3>1. Sch'[t] = "skipped" /\ stage'[t] = "skipped" /\ Act'[t] = "none"
      BY <1>2, <2>1
    <3> QED
      BY <3>1 DEF Agree
  <2>2. CASE t \notin skips
    <3>1. Sch'[t] = Sch[t] /\ stage'[t] = stage[t] /\ Act'[t] = Act[t]
      BY <2>2
    <3> QED
      BY <1>1, <1>2, <3>1 DEF Agree, Shown
  <2> QED
    BY <2>1, <2>2
<1>9. StartedReady'
  <2> SUFFICES ASSUME NEW t \in Stages,
                      Sch'[t] \in {"active", "waiting", "succeeded", "failed"}
               PROVE  Ready(t)'
    BY DEF StartedReady
  <2>1. Sch[t] \in {"active", "waiting", "succeeded", "failed"}
    BY <1>2
  <2> QED
    BY <1>1, <1>5, <2>1, ReadyStays DEF FirstLoopInv, StartedReady
<1>10. StartedWhenReady'
  BY <1>1, <1>6, <1>8, <1>9, StoreReadyNext
<1>11. SkippedForReason'
  <2> SUFFICES ASSUME NEW t \in Stages, Sch'[t] = "skipped" PROVE SkipReason(Sch, t)'
    BY DEF SkippedForReason
  <2>1. CASE t \in skips
    BY <2>1
  <2>2. CASE t \notin skips
    <3>1. Sch[t] = "skipped" /\ SkipReason(Sch, t)
      BY <1>1, <2>2 DEF FirstLoopInv, SkippedForReason, Live
    <3>2. \A p \in Stages : Sch[p] = "succeeded" => stage[p] = "succeeded"
      BY <1>2 DEF Agree
    <3> QED
      BY <1>4, <1>5, <3>1, <3>2, ReasonNext
  <2> QED
    BY <2>1, <2>2
<1>12. RoutesSet'
  <2> SUFFICES ASSUME NEW e \in Gated
               PROVE  stage'[e[1]] = "succeeded" <=> route'[e] # "unset"
    BY DEF RoutesSet
  <2>1. e[1] \in Stages
    BY DagAssumption DEF Edges
  <2>2. stage'[e[1]] = "succeeded" <=> stage[e[1]] = "succeeded"
    <3>1. e[1] \in skips => stage[e[1]] # "succeeded"
      BY <1>2, <2>1 DEF Agree, Shown
    <3> QED
      BY <2>1, <3>1
  <2> QED
    BY <1>1, <2>2 DEF FirstLoopInv, RoutesSet
<1>13. SkippedEagerly'
  <2> SUFFICES ASSUME ~Halted', NEW t \in Stages, NEW p \in Stages, Parents[t] = {p},
                      Sch'[t] = "pending"
               PROVE  /\ ~(Sch'[p] = "succeeded" /\ Missed(p, t)')
                      /\ Sch'[p] = "skipped" => "skipped" \in On[<<p, t>>]
    BY DEF SkippedEagerly
  <2>0. Missed(p, t)' <=> Missed(p, t)
    BY <1>1 DEF Missed
  <2>1. CASE t \in H
    <3>1. Ready(t)
      BY <1>1, <1>2, <2>1 DEF FirstLoopInv, StartedReady
    <3>2. stage[p] = "succeeded" /\ (<<p, t>> \in Gated => route[<<p, t>>] = "fire")
      BY <3>1 DEF Ready
    <3>3. stage'[p] = "succeeded"
      BY <1>5, <3>2 DEF Frozen
    <3>4. Sch'[p] # "skipped"
      BY <1>1, <1>8, <3>3 DEF Agreement, Agree, Shown
    <3> QED
      BY <2>0, <3>2, <3>4 DEF Missed
  <2>2. CASE t \notin H
    <3>1. Sch[t] = "pending" /\ t \in Stages \ H
      BY <2>2
    <3>2. CASE p \in H \cup skips
      BY <2>0, <3>1, <3>2
    <3>3. CASE p \notin H \cup skips
      <4>1. Sch'[p] = Sch[p]
        BY <3>3
      <4>2. /\ ~(Sch[p] = "succeeded" /\ Missed(p, t))
            /\ Sch[p] = "skipped" => "skipped" \in On[<<p, t>>]
        BY <1>1, <1>3, <3>1 DEF FirstLoopInv, SkippedEagerly, Live
      <4> QED
        BY <2>0, <4>1, <4>2
    <3> QED
      BY <3>2, <3>3
  <2> QED
    BY <2>1, <2>2
<1>14. HaltedForReason'
  <2>1. \A t \in Stages : Sch[t] = "failed" => Sch'[t] = "failed"
    BY <1>4 DEF Terminal
  <2> QED
    BY <1>1, <2>1 DEF FirstLoopInv, HaltedForReason
<1>15. LeftForReason' /\ Ended'
  BY <1>1 DEF LeftForReason, Ended
<1> QED
  BY <1>6, <1>7, <1>8, <1>9, <1>10, <1>11, <1>12, <1>13, <1>14, <1>15 DEF FirstLoopInv
\* A reason in the new schedule is a reason in the next state, when the routes
\* do not change.
LEMMA ReasonPrimed ==
    ASSUME route' = route, NEW s \in Stages, SkipReason(Sch', s)
    PROVE  SkipReason(Sch, s)'
<1>1. \A p : Missed(p, s)' <=> Missed(p, s)
  BY DEF Missed
<1>2. CASE StalledJoin(Sch', s)
  <2>1. StalledJoin(Sch, s)'
    BY <1>1, <1>2 DEF StalledJoin, ParentsSettled, Having
  <2> QED
    BY <2>1 DEF SkipReason
<1>3. ASSUME NEW p \in Stages, RejectedBy(Sch', p, s) PROVE SkipReason(Sch, s)'
  BY <1>1, <1>3 DEF SkipReason, RejectedBy
<1> QED
  BY <1>2, <1>3 DEF SkipReason

\* Skipping a stalled join.
LEMMA SkipStalledKeeps ==
    ASSUME TypeInv, TypeInv', FirstLoopInv, SkipStalled(1) PROVE FirstLoopInv'
<1>1. PICK s \in Stages :
        /\ Stalled(Sch, s)
        /\ loop' = [loop EXCEPT ![1].st = SetTo(Sch, Cascade(Sch, {s}), "skipped")]
        /\ stage' = SetTo(stage, Cascade(Sch, {s}), "skipped")
  BY DEF SkipStalled, Sch
<1> DEFINE skips == Cascade(Sch, {s})
<1>2. /\ Sch' = SetTo(Sch, skips, "skipped") /\ Halted' = Halted /\ Pc' = Pc
      /\ loop'[1].cut = loop[1].cut
  <2>1. \A st : loop' = [loop EXCEPT ![1].st = st] =>
          /\ loop'[1].st = st /\ loop'[1].halted = loop[1].halted
          /\ loop'[1].pc = loop[1].pc /\ loop'[1].cut = loop[1].cut
    BY OneIsLoop, LoopAtSchedule
  <2> QED
    BY <1>1, <2>1 DEF Sch, Halted, Pc
<1>3. Pc = "tick" /\ Act' = Act /\ UNCHANGED <<run, route, cancel, task>>
  BY DEF SkipStalled, Pc, Act
<1>4. /\ \A t \in Stages : /\ Sch'[t] = IF t \in skips THEN "skipped" ELSE Sch[t]
                           /\ stage'[t] = IF t \in skips THEN "skipped" ELSE stage[t]
      /\ skips \in SUBSET Stages /\ \A t \in skips : Sch[t] = "pending"
  BY <1>1, <1>2, SetToAt, CascadeOf
<1>5. \A p \in Stages : Sch[p] \in Terminal => Sch'[p] = Sch[p]
  BY <1>4 DEF Terminal
<1>6. ASSUME NEW t \in skips PROVE SkipReason(Sch, t)'
  <2>1. SkipReason(Sch, s)
    BY <1>1 DEF Stalled, SkipReason, StalledJoin
  <2>2. SkipReason(Sch', s)
    BY <1>5, <2>1, ReasonStays
  <2>3. SkipReason(Sch', t)
    BY <1>2, <2>2, CascadeReasons
  <2> QED
    BY <1>3, <1>4, <2>3, ReasonPrimed
<1>7. ASSUME NEW t \in Stages, NEW p \in Stages, Parents[t] = {p},
             Sch'[t] = "pending", p \in skips
      PROVE  "skipped" \in On[<<p, t>>]
  <2>1. Sch'[p] = "skipped" /\ Sch[p] # "skipped"
    BY <1>4, <1>7
  <2> QED
    BY <1>2, <1>7, <2>1, CascadeLeaves
<1> HIDE DEF skips
<1>8. ResultStep({}, skips)
  BY <1>2, <1>3, <1>4, <1>6, <1>7 DEF ResultStep
<1> QED
  BY <1>4, <1>8, ResultStepKeeps

\* What is known of a stage whose result is heard.
LEMMA HeardOf ==
    ASSUME TypeInv, FirstLoopInv, NEW s \in Stages, Act[s] # "none"
    PROVE  /\ Pc = "tick" /\ Sch[s] = "active" /\ Agree(s)
           /\ stage[s] # "skipped"
           /\ stage[s] = "succeeded" <=> Act[s] = "ok"
<1>1. Pc = "tick" /\ Sch[s] = "active" /\ Agree(s)
  BY DEF FirstLoopInv, Control, Busy, Agreement
<1>2. Act[s] \in TaskState
  BY FirstTyped
<1> QED
  BY <1>1, <1>2 DEF Agree, Shown, TaskState

\* A stage that waits, and one that is repaired.
LEMMA WaitsOrRepairedKeeps ==
    ASSUME TypeInv, TypeInv', FirstLoopInv, NEW s \in Stages,
           StageWaits(1, s) \/ StageRepaired(1, s)
    PROVE  FirstLoopInv'
<1>0. 1 \in Loops /\ stage \in [Stages -> StoredState]
      /\ loop \in [Loops -> LoopState] /\ Sch \in [Stages -> ScheduleState]
  BY TypeParts, FirstTyped
<1>1. /\ Act[s] \in {"ask", "bad"} /\ SetTask(1, s, "none")
      /\ UNCHANGED <<run, route, cancel>>
  BY DEF StageWaits, StageRepaired, Act
<1>2. /\ Pc = "tick" /\ Sch[s] = "active" /\ Agree(s) /\ stage[s] \notin {"skipped", "succeeded"}
  BY <1>1, HeardOf
<1>3. PICK x \in {"waiting", "pending"} :
        /\ loop' = [loop EXCEPT ![1].st = [Sch EXCEPT ![s] = x]]
        /\ \/ x = "waiting" /\ Act[s] = "ask" /\ stage' = stage
           \/ x = "pending" /\ stage' = [stage EXCEPT ![s] = "pending"]
  BY <1>0 DEF StageWaits, StageRepaired, Act, Sch
<1>4. /\ Sch' = [Sch EXCEPT ![s] = x] /\ Halted' = Halted /\ Pc' = Pc
      /\ loop'[1].cut = loop[1].cut
  <2>1. \A st : loop' = [loop EXCEPT ![1].st = st] =>
          /\ loop'[1].st = st /\ loop'[1].halted = loop[1].halted
          /\ loop'[1].pc = loop[1].pc /\ loop'[1].cut = loop[1].cut
    BY OneIsLoop, LoopAtSchedule
  <2> QED
    BY <1>3, <2>1 DEF Sch, Halted, Pc
<1>5. /\ Act'[s] = "none" /\ \A t \in Stages : t # s => Act'[t] = Act[t]
      /\ \A k \in Loops : k # 1 => task'[k] = task[k]
  BY <1>0, <1>1, SetTaskAt DEF Act
<1>6. /\ Sch'[s] = x /\ \A t \in Stages : t # s => Sch'[t] = Sch[t] /\ stage'[t] = stage[t]
      /\ stage'[s] # "succeeded"
  BY <1>0, <1>2, <1>3, <1>4
<1>7. Agree(s)'
  BY <1>0, <1>1, <1>2, <1>3, <1>5, <1>6 DEF Agree, Shown
<1>8. ResultStep({s}, {})
  BY <1>0, <1>1, <1>2, <1>4, <1>5, <1>6, <1>7 DEF ResultStep
<1> QED
  BY <1>8, ResultStepKeeps
\* A success opens no skipped stage again: the reasons of the skips stand.
LEMMA NothingReopened ==
    ASSUME TypeInv, FirstLoopInv, NEW s \in Stages, Act[s] = "ok"
    PROVE  /\ OkOpened(1, s) = {}
           /\ \A t \in OkSkips(1, s) : SkipReason(OkRouted(1, s), t)
<1> DEFINE known == OkKnown(1, s)
           skips == OkSkips(1, s)
           routed == OkRouted(1, s)
<1>0. Pc = "tick" /\ Sch[s] = "active" /\ Sch \in [Stages -> ScheduleState]
  BY HeardOf, FirstTyped
<1>1. known = [Sch EXCEPT ![s] = "succeeded"]
  BY DEF OkKnown, Sch
<1>2. skips = Cascade(known, EagerSkips({s})) /\ routed = SetTo(known, skips, "skipped")
  BY DEF OkSkips, OkRouted
<1> HIDE DEF known, skips, routed
<1>3. \A t \in Stages : known[t] = IF t = s THEN "succeeded" ELSE Sch[t]
  BY <1>0, <1>1
<1>4. \A t \in Stages : known[t] # "pending" => routed[t] = known[t]
  BY <1>2, CascadeLeaves
<1>5. \A t \in Stages : Sch[t] \in Terminal => routed[t] = Sch[t]
  BY <1>0, <1>3, <1>4 DEF Terminal
<1>6. ASSUME NEW t \in skips PROVE SkipReason(routed, t)
  <2>1. ASSUME NEW c \in Stages, c \in EagerSkips({s}), known[c] = "pending"
        PROVE  SkipReason(routed, c)
    <3>1. Parents[c] = {s} /\ Missed(s, c)
      BY <2>1 DEF EagerSkips
    <3>2. routed[s] = "succeeded"
      BY <1>3, <1>4
    <3> QED
      BY <3>1, <3>2 DEF SkipReason, RejectedBy
  <2> QED
    BY <1>2, <2>1, CascadeReasons
<1>7. ASSUME NEW t \in Stages, routed[t] = "skipped" PROVE ~JoinAllows(routed, t)
  <2>1. CASE t \in skips
    BY <1>6, <2>1, ReasonBars
  <2>2. CASE t \notin skips
    <3>1. routed[t] = known[t]
      BY <1>2, <2>2, SetToAt
    <3>2. Sch[t] = "skipped"
      BY <1>3, <1>7, <3>1
    <3>3. SkipReason(Sch, t)
      BY <1>0, <3>2 DEF FirstLoopInv, SkippedForReason, Live
    <3>4. SkipReason(routed, t)
      BY <1>5, <3>3, ReasonStays
    <3> QED
      BY <3>4, ReasonBars
  <2> QED
    BY <2>1, <2>2
<1>8. Reopened(routed) = {}
  BY <1>7 DEF Reopened
<1>9. OkOpened(1, s) = {}
  BY <1>8 DEF OkOpened, routed
<1> QED
  BY <1>6, <1>9 DEF skips, routed

\* A stage that succeeded.
LEMMA SucceededKeeps ==
    ASSUME TypeInv, TypeInv', FirstLoopInv, NEW s \in Stages, StageSucceeded(1, s)
    PROVE  FirstLoopInv'
<1> DEFINE known == OkKnown(1, s)
           skips == OkSkips(1, s)
           routed == OkRouted(1, s)
<1>0. 1 \in Loops /\ stage \in [Stages -> StoredState] /\ Sch \in [Stages -> ScheduleState]
  BY TypeParts, FirstTyped
<1>1. /\ Act[s] = "ok" /\ SetTask(1, s, "none") /\ UNCHANGED <<run, route, cancel>>
      /\ Sch' = SetTo(routed, OkOpened(1, s), "pending")
      /\ Halted' = (Halted \/ MissingEdges({s}) # {})
      /\ Pc' = Pc /\ loop'[1].cut = loop[1].cut
      /\ stage' = SetTo(SetTo(stage, skips, "skipped"), OkOpened(1, s), "pending")
  BY <1>0, SucceededEffect DEF Act, Sch, Halted, Pc
<1>2. Pc = "tick" /\ Sch[s] = "active" /\ Agree(s) /\ stage[s] = "succeeded"
  BY <1>1, HeardOf
<1>3. OkOpened(1, s) = {} /\ \A t \in skips : SkipReason(routed, t)
  BY <1>1, NothingReopened
<1>4. known = [Sch EXCEPT ![s] = "succeeded"]
  BY DEF OkKnown, Sch
<1>5. skips = Cascade(known, EagerSkips({s})) /\ routed = SetTo(known, skips, "skipped")
  BY DEF OkSkips, OkRouted
<1> HIDE DEF known, skips, routed
<1>6. \A t \in Stages : known[t] = IF t = s THEN "succeeded" ELSE Sch[t]
  BY <1>0, <1>4
<1>7. /\ skips \in SUBSET Stages /\ s \notin skips
      /\ \A t \in skips : Sch[t] = "pending"
  <2>1. \A t \in skips : t \in Stages /\ known[t] = "pending"
    BY <1>5, CascadeOf
  <2> QED
    BY <1>6, <2>1
<1>8. \A t \in Stages : /\ Sch'[t] = routed[t]
                        /\ routed[t] = IF t \in skips THEN "skipped" ELSE known[t]
                        /\ stage'[t] = IF t \in skips THEN "skipped" ELSE stage[t]
  BY <1>1, <1>3, <1>5, SetToAt
<1>9. Sch' = routed
  <2>1. DOMAIN routed = Stages /\ DOMAIN Sch' = Stages
    BY <1>1, <1>5, SetToAt
  <2>2. Sch' = [t \in Stages |-> routed[t]] /\ routed = [t \in Stages |-> routed[t]]
    BY <1>1, <1>3, <1>5 DEF SetTo
  <2> QED
    BY <2>2
<1>10. \A t \in skips : SkipReason(Sch, t)'
  BY <1>1, <1>3, <1>7, <1>9, ReasonPrimed
<1>11. /\ Act'[s] = "none" /\ \A t \in Stages : t # s => Act'[t] = Act[t]
       /\ \A k \in Loops : k # 1 => task'[k] = task[k]
  BY <1>0, <1>1, SetTaskAt DEF Act
<1>12. Agree(s)'
  BY <1>2, <1>6, <1>7, <1>8, <1>11 DEF Agree
<1>13. ASSUME ~Halted', NEW t \in Stages \ {s}, NEW p \in Stages, Parents[t] = {p},
              Sch'[t] = "pending"
       PROVE  /\ p \in {s} => ~Missed(p, t)
              /\ p \in skips => "skipped" \in On[<<p, t>>]
  <2>1. /\ t \notin EagerSkips({s})
        /\ routed[p] = "skipped" => known[p] = "skipped" \/ "skipped" \in On[<<p, t>>]
    BY <1>5, <1>9, <1>13, CascadeLeaves
  <2>2. MissingEdges({s}) = {}
    BY <1>1, <1>13
  <2>3. p \in {s} => ~Missed(p, t)
    BY <1>13, <2>1, <2>2 DEF EagerSkips
  <2>4. p \in skips => routed[p] = "skipped" /\ known[p] # "skipped"
    BY <1>6, <1>7, <1>8
  <2> QED
    BY <2>1, <2>3, <2>4
<1>14. MissingEdges({s}) # {} => \E e \in Gated : route[e] = "missing"
  BY DEF MissingEdges
<1>15. ResultStep({s}, skips)
  BY <1>0, <1>1, <1>2, <1>6, <1>7, <1>8, <1>10, <1>11, <1>12, <1>13, <1>14 DEF ResultStep
<1> QED
  BY <1>7, <1>15, ResultStepKeeps

\* A stage that failed for good, or whose preparation failed.
LEMMA GiveUpKeeps ==
    ASSUME TypeInv, TypeInv', FirstLoopInv, NEW s \in Stages,
           StageFailed(1, s) \/ PreparationFails(1, s)
    PROVE  FirstLoopInv'
<1> DEFINE known == BadKnown(1, s)
           skips == BadSkips(1, s)
           routed == BadRouted(1, s)
           seeds == {c \in Stages : Rejects(known, s, c, "failed")}
<1>0. 1 \in Loops /\ stage \in [Stages -> StoredState] /\ Sch \in [Stages -> ScheduleState]
  BY TypeParts, FirstTyped
<1>1. PICK stored :
        /\ GiveUp(1, s, stored)
        /\ \/ stored = "failed" /\ Act[s] \in {"dead", "bad"}
           \/ stored = stage[s] /\ Act[s] = "prep" /\ s \in Unprepared
  BY DEF StageFailed, PreparationFails, Act
<1>2. /\ SetTask(1, s, "none") /\ UNCHANGED <<run, route, cancel>>
      /\ Sch' = routed
      /\ Halted' = (Halted \/ ~FailureAccepted(routed, s))
      /\ Pc' = Pc /\ loop'[1].cut = loop[1].cut
      /\ stage' = [SetTo(stage, skips, "skipped") EXCEPT ![s] = stored]
  BY <1>0, <1>1, GiveUpEffect DEF Sch, Halted, Pc
<1>3. /\ Pc = "tick" /\ Sch[s] = "active" /\ Agree(s)
      /\ stage[s] # "skipped" /\ stage[s] # "succeeded"
  BY <1>1, HeardOf
<1>4. known = [Sch EXCEPT ![s] = "failed"]
  BY DEF BadKnown, Sch
<1>5. skips = Cascade(known, seeds) /\ routed = SetTo(known, skips, "skipped")
  BY DEF BadSkips, BadRouted
<1> HIDE DEF known, skips, routed
<1>6. \A t \in Stages : known[t] = IF t = s THEN "failed" ELSE Sch[t]
  BY <1>0, <1>4
<1>7. /\ skips \in SUBSET Stages /\ s \notin skips
      /\ \A t \in skips : Sch[t] = "pending"
  <2>1. \A t \in skips : t \in Stages /\ known[t] = "pending"
    <3> HIDE DEF seeds
    <3> QED
      BY <1>5, CascadeOf
  <2> QED
    BY <1>6, <2>1
<1>8. \A t \in Stages : Sch'[t] = IF t \in skips THEN "skipped" ELSE known[t]
  BY <1>2, <1>5, SetToAt
<1>9. /\ \A t \in Stages \ {s} : stage'[t] = IF t \in skips THEN "skipped" ELSE stage[t]
      /\ stage'[s] = stored
  BY <1>2, SetToAt
<1>10. ASSUME NEW t \in skips PROVE SkipReason(Sch, t)'
  <2>1. ASSUME NEW c \in Stages, c \in seeds PROVE SkipReason(routed, c)
    <3>1. Parents[c] = {s} /\ routed[s] = "failed"
      BY <1>2, <1>6, <1>7, <1>8, <2>1 DEF Rejects
    <3> QED
      BY <3>1 DEF SkipReason, RejectedBy
  <2> HIDE DEF seeds
  <2>2. SkipReason(routed, t)
    BY <1>5, <2>1, CascadeReasons
  <2> QED
    BY <1>2, <1>7, <2>2, ReasonPrimed
<1>11. /\ Act'[s] = "none" /\ \A t \in Stages : t # s => Act'[t] = Act[t]
       /\ \A k \in Loops : k # 1 => task'[k] = task[k]
  BY <1>0, <1>2, SetTaskAt DEF Act
<1>12. Agree(s)' /\ Sch'[s] = "failed"
  <2>1. Sch'[s] = "failed"
    BY <1>6, <1>7, <1>8
  <2>2. stored = "failed" \/ (s \in Unprepared /\ stored = "pending")
    BY <1>1, <1>3 DEF Agree, Shown
  <2> QED
    BY <1>9, <1>11, <2>1, <2>2 DEF Agree
<1>13. ASSUME NEW t \in Stages \ {s}, NEW p \in Stages, Parents[t] = {p},
              Sch'[t] = "pending", p \in skips
       PROVE  "skipped" \in On[<<p, t>>]
  <2> HIDE DEF seeds
  <2>1. routed[p] = "skipped" => known[p] = "skipped" \/ "skipped" \in On[<<p, t>>]
    BY <1>2, <1>5, <1>13, CascadeLeaves
  <2>2. routed[p] = "skipped" /\ known[p] # "skipped"
    BY <1>2, <1>6, <1>7, <1>8, <1>13
  <2> QED
    BY <2>1, <2>2
<1>14. stored # "succeeded"
  BY <1>1, <1>3
<1>15. ResultStep({s}, skips)
  BY <1>0, <1>1, <1>2, <1>3, <1>6, <1>7, <1>8, <1>9, <1>10, <1>11, <1>12, <1>13, <1>14
     DEF ResultStep
<1> QED
  BY <1>7, <1>15, ResultStepKeeps
\* What a pass that is left without a halt looked at is what it leaves.
LEMMA RulesPrimed ==
    ASSUME route' = route, Sch' = Sch, NEW s \in Stages
    PROVE  /\ JoinAllows(Sch, s)' <=> JoinAllows(Sch, s)
           /\ Stalled(Sch, s)' <=> Stalled(Sch, s)
BY DEF JoinAllows, Stalled, ParentsSettled, Having, Fired, Missed

\* A pass of the loop.
LEMMA TickKeeps ==
    ASSUME TypeInv, TypeInv', FirstLoopInv, Tick(1) PROVE FirstLoopInv'
<1>0. /\ 1 \in Loops /\ task \in [Loops -> [Stages -> TaskState]]
      /\ Sch \in [Stages -> ScheduleState] /\ Halted \in BOOLEAN
      /\ loop[1].cut \in BOOLEAN
  BY TypeParts, FirstTyped
<1> DEFINE A == Started(1)
           D == Dropped(1)
<1>1. /\ Pc = "tick" /\ \A s \in Stages : ~Stalled(Sch, s)
      /\ Sch' = SetTo(SetTo(Sch, A, "active"), D, "skipped")
      /\ Halted' = Stopping(1) /\ loop'[1].cut = loop[1].cut
      /\ Pc' = IF Idle(1) THEN "wind" ELSE "tick"
      /\ task' = [task EXCEPT ![1] = SetTo(@, A, "prep")]
      /\ UNCHANGED <<run, stage, route, cancel>>
  BY <1>0, TickEffect DEF Sch, Pc, Halted
<1>2. /\ A \in SUBSET Stages
      /\ \A t \in A : Sch[t] = "pending" /\ JoinAllows(Sch, t)
  BY DEF Started, First, Runnable, Sch
<1>3. /\ D \in SUBSET Stages /\ \A t \in D : Sch[t] = "pending"
      /\ D # {} => Idle(1) /\ Stopping(1) /\ A = {}
  BY DEF Dropped, Having, Sch, Started
<1>4. Idle(1) => A = {} /\ \A t \in Stages : Act[t] = "none"
  BY DEF Idle, InFlight, Act
<1>5. Stopping(1) <=> Halted \/ loop[1].cut
  BY DEF Stopping, Halted
<1> HIDE DEF A, D
<1>6. \A t \in Stages : Sch'[t] = IF t \in D THEN "skipped"
                                  ELSE IF t \in A THEN "active" ELSE Sch[t]
  BY <1>1, SetToAt
<1>7. /\ \A t \in Stages : Act'[t] = IF t \in A THEN "prep" ELSE Act[t]
      /\ \A k \in Loops : k # 1 => task'[k] = task[k]
  <2>1. task'[1] = SetTo(task[1], A, "prep")
    BY <1>0, <1>1
  <2> QED
    BY <1>0, <1>1, <2>1, SetToAt DEF Act
<1>8. \A t \in Stages : Agree(t) /\ (Sch[t] = "active" <=> Act[t] # "none")
  BY <1>1 DEF FirstLoopInv, Busy, Agreement
<1>9. Frozen
  BY <1>1 DEF Frozen
<1>10. \A t \in Stages : Sch[t] \in Terminal => Sch'[t] = Sch[t]
  BY <1>2, <1>3, <1>6 DEF Terminal
<1>11. Live' => D = {}
  BY <1>1, <1>3 DEF Live
<1>12. Control' /\ Busy'
  <2>1. \A t \in Stages : Sch'[t] = "active" <=> Act'[t] # "none"
    BY <1>2, <1>3, <1>6, <1>7, <1>8
  <2>2. Idle(1) => \A t \in Stages : Act'[t] = "none"
    BY <1>4, <1>7
  <2> QED
    BY <1>1, <1>7, <2>1, <2>2 DEF FirstLoopInv, Control, Busy
<1>13. Cancelling'
  BY <1>1 DEF FirstLoopInv, Cancelling
<1>14. Agreement'
  <2> SUFFICES ASSUME NEW t \in Stages PROVE Agree(t)'
    BY DEF Agreement
  <2>0. \A X : Shown(t, X)' <=> Shown(t, X)
    BY <1>1 DEF Shown
  <2>1. CASE t \in D
    <3>1. /\ Sch'[t] = "skipped" /\ Act'[t] = "none" /\ Shown(t, {"pending"})
          /\ Pc' = "wind" /\ Halted'
      BY <1>1, <1>3, <1>4, <1>6, <1>7, <1>8, <2>1 DEF Agree
    <3> QED
      BY <2>0, <3>1 DEF Agree
  <2>2. CASE t \in A /\ t \notin D
    <3>1. Sch'[t] = "active" /\ Act'[t] = "prep" /\ Shown(t, {"pending"})
      BY <1>2, <1>6, <1>7, <1>8, <2>2 DEF Agree
    <3> QED
      BY <2>0, <3>1 DEF Agree
  <2>3. CASE t \notin A /\ t \notin D
    <3>1. Sch'[t] = Sch[t] /\ Act'[t] = Act[t] /\ stage'[t] = stage[t] /\ Agree(t)
      BY <1>1, <1>6, <1>7, <1>8, <2>3
    <3>2. Sch[t] = "skipped" => stage[t] = "skipped"
      BY <1>1, <3>1 DEF Agree
    <3> QED
      BY <2>0, <3>1, <3>2 DEF Agree
  <2> QED
    BY <2>1, <2>2, <2>3
<1>15. StartedReady'
  <2> SUFFICES ASSUME NEW t \in Stages,
                      Sch'[t] \in {"active", "waiting", "succeeded", "failed"}
               PROVE  Ready(t)'
    BY DEF StartedReady
  <2>1. CASE t \in A
    <3>1. \A p \in Stages : Sch[p] \in {"succeeded", "skipped"} => stage[p] = Sch[p]
      BY <1>1, <1>8 DEF Agree
    <3>2. Ready(t)
      BY <1>2, <2>1, <3>1, AllowedIsReady
    <3> QED
      BY <1>9, <3>2, ReadyStays
  <2>2. CASE t \notin A
    <3>1. Ready(t)
      BY <1>1, <1>6, <2>2 DEF FirstLoopInv, StartedReady
    <3> QED
      BY <1>9, <3>1, ReadyStays
  <2> QED
    BY <2>1, <2>2
<1>16. StartedWhenReady'
  BY <1>1, <1>12, <1>14, <1>15, StoreReadyNext
<1>17. SkippedForReason'
  <2> SUFFICES ASSUME Live', NEW t \in Stages, Sch'[t] = "skipped"
               PROVE  SkipReason(Sch, t)'
    BY DEF SkippedForReason
  <2>1. SkipReason(Sch, t)
    BY <1>1, <1>6, <1>11 DEF FirstLoopInv, SkippedForReason, Live
  <2>2. \A p \in Stages : Sch[p] = "succeeded" => stage[p] = "succeeded"
    BY <1>8 DEF Agree
  <2> QED
    BY <1>9, <1>10, <2>1, <2>2, ReasonNext
<1>18. RoutesSet'
  BY <1>1 DEF FirstLoopInv, RoutesSet
<1>19. SkippedEagerly'
  <2> SUFFICES ASSUME Live', ~Halted', NEW t \in Stages, NEW p \in Stages,
                      Parents[t] = {p}, Sch'[t] = "pending"
               PROVE  /\ ~(Sch'[p] = "succeeded" /\ Missed(p, t)')
                      /\ Sch'[p] = "skipped" => "skipped" \in On[<<p, t>>]
    BY DEF SkippedEagerly
  <2>1. Sch[t] = "pending" /\ (Sch'[p] \in {"succeeded", "skipped"} => Sch[p] = Sch'[p])
    BY <1>6, <1>11
  <2>2. Missed(p, t)' <=> Missed(p, t)
    BY <1>1 DEF Missed
  <2>3. /\ ~(Sch[p] = "succeeded" /\ Missed(p, t))
        /\ Sch[p] = "skipped" => "skipped" \in On[<<p, t>>]
    BY <1>1, <1>5, <2>1 DEF FirstLoopInv, SkippedEagerly, Live
  <2> QED
    BY <2>1, <2>2, <2>3
<1>20. HaltedForReason'
  <2>1. \A t \in Stages : Sch[t] = "failed" => Sch'[t] = "failed"
    BY <1>10 DEF Terminal
  <2>2. loop[1].cut => run = "cancelled"
    BY DEF FirstLoopInv, Cancelling
  <2> QED
    BY <1>1, <1>5, <2>1, <2>2 DEF FirstLoopInv, HaltedForReason
<1>21. LeftForReason'
  <2> SUFFICES ASSUME Pc' = "wind", ~Halted', NEW t \in Stages, Sch'[t] = "pending"
               PROVE  ~JoinAllows(Sch, t)' /\ ~Stalled(Sch, t)'
    BY DEF LeftForReason
  <2>1. Idle(1) /\ ~Stopping(1) /\ A = {} /\ D = {} /\ InFlight(1) = {}
    BY <1>1, <1>3, <1>4 DEF Idle
  <2>2. Runnable(1) = {}
    <3>1. Cardinality(InFlight(1)) = 0
      BY <2>1, FS_EmptySet
    <3>2. Room(1) \in Nat /\ Room(1) > 0
      BY <3>1, BoundAssumption DEF Room
    <3>3. First(Runnable(1), Room(1)) = {} /\ Runnable(1) \in SUBSET Stages
      BY <2>1 DEF A, Started, Runnable
    <3> QED
      BY <3>2, <3>3, FirstTakesSome
  <2>3. Sch' = Sch
    BY <1>0, <1>1, <2>1 DEF SetTo
  <2>4. ~JoinAllows(Sch, t) /\ ~Stalled(Sch, t)
    BY <1>1, <2>2, <2>3 DEF Runnable, Sch
  <2> QED
    BY <1>1, <2>3, <2>4, RulesPrimed
<1>22. Ended'
  BY <1>1 DEF Ended
<1> QED
  BY <1>12, <1>13, <1>14, <1>15, <1>16, <1>17, <1>18, <1>19, <1>20, <1>21, <1>22
     DEF FirstLoopInv

\* The loop is left with every stage terminal.
LEMMA LeaveKeeps ==
    ASSUME TypeInv, TypeInv', FirstLoopInv, LeaveLoop(1) PROVE FirstLoopInv'
<1>0. 1 \in Loops /\ loop \in [Loops -> LoopState] /\ loop[1] \in LoopState
  BY TypeParts, OneIsLoop
<1>1. /\ Pc = "tick" /\ \A s \in Stages : Sch[s] \in Terminal
      /\ UNCHANGED <<run, stage, route, task, cancel>>
      /\ loop'[1] = [loop[1] EXCEPT !.pc = "wind"]
  BY <1>0 DEF LeaveLoop, Pc, Sch, AllTerminal
<1>2. /\ Pc' = "wind" /\ Sch' = Sch /\ Halted' = Halted /\ Act' = Act
      /\ loop'[1].cut = loop[1].cut
  BY <1>0, <1>1 DEF LoopState, Pc, Sch, Halted, Act
<1>3. \A s \in Stages : Agree(s) /\ Act[s] = "none"
  BY <1>1 DEF FirstLoopInv, Busy, Agreement, Terminal
<1>4. Control' /\ Busy' /\ Cancelling'
  BY <1>1, <1>2, <1>3 DEF FirstLoopInv, Control, Busy, Cancelling
<1>5. Agreement'
  BY <1>1, <1>2, <1>3 DEF Agreement, Agree, Shown
<1>6. StartedReady' /\ StartedWhenReady' /\ RoutesSet'
  BY <1>1, <1>2 DEF FirstLoopInv, StartedReady, StartedWhenReady, Ready, RoutesSet
<1>7. SkippedForReason'
  <2> SUFFICES ASSUME NEW t \in Stages, Sch[t] = "skipped" PROVE SkipReason(Sch, t)'
    BY <1>2 DEF SkippedForReason
  <2>1. SkipReason(Sch', t)
    BY <1>1, <1>2 DEF FirstLoopInv, SkippedForReason, Live
  <2> QED
    BY <1>1, <2>1, ReasonPrimed
<1>8. SkippedEagerly' /\ LeftForReason' /\ Ended'
  BY <1>1, <1>2 DEF SkippedEagerly, LeftForReason, Ended, Terminal
<1>9. HaltedForReason'
  BY <1>1, <1>2 DEF FirstLoopInv, HaltedForReason
<1> QED
  BY <1>4, <1>5, <1>6, <1>7, <1>8, <1>9 DEF FirstLoopInv
\* A failure in the schedule is recorded or explained.
LEMMA FailureExplained ==
    ASSUME TypeInv, FirstLoopInv, Pc # "done", run # "cancelled",
           NEW f \in Stages, Sch[f] = "failed"
    PROVE  FailureRecorded \/ FailedUnrecorded(f)
<1>1. Agree(f) /\ Ready(f)
  BY DEF FirstLoopInv, Agreement, StartedReady
<1>2. CASE stage[f] = "failed"
  BY <1>2 DEF FailureRecorded, Having
<1>3. CASE f \in Unprepared /\ stage[f] = "pending"
  BY <1>1, <1>3 DEF FailedUnrecorded, Ready
<1> QED
  BY <1>1, <1>2, <1>3 DEF Agree

\* A loop that is left with stages pending and none waiting has met a failure,
\* a route without its field, or a stranded stage.
LEMMA PendingExplained ==
    ASSUME TypeInv, FirstLoopInv, Pc = "wind", ~Halted, run # "cancelled",
           Having(Sch, Stages, "waiting") = {}, ~AllTerminal(Sch)
    PROVE  \/ FailureRecorded
           \/ \E s \in Stages : FailedUnrecorded(s) \/ Stranded(s)
<1>0. \A s \in Stages : /\ Agree(s) /\ Sch[s] # "active" /\ Sch[s] # "waiting"
                        /\ Sch[s] \in ScheduleState
  BY FirstTyped DEF FirstLoopInv, Agreement, Busy, Control, Having
<1> DEFINE N == {s \in Stages : Sch[s] \notin Terminal}
<1>1. N \in SUBSET Stages /\ N # {}
  BY DEF AllTerminal
<1>2. PICK s \in N : \A t \in N : Index[s] <= Index[t]
  BY <1>1, FirstStage
<1>3. s \in Stages /\ Sch[s] = "pending" /\ stage[s] = "pending"
  BY <1>0, <1>2 DEF ScheduleState, Agree, Shown
<1>4. \A p \in Parents[s] : p \in Stages /\ Sch[p] \in Terminal
  <2> SUFFICES ASSUME NEW p \in Parents[s] PROVE p \in Stages /\ Sch[p] \in Terminal
    OBVIOUS
  <2>1. p \in Stages /\ Index[p] < Index[s] /\ Index[p] \in Nat /\ Index[s] \in Nat
    BY <1>3, DagAssumption
  <2> QED
    BY <1>2, <2>1
<1>5. ~JoinAllows(Sch, s) /\ ~Stalled(Sch, s)
  BY <1>3 DEF FirstLoopInv, LeftForReason
<1>6. CASE \E p \in Parents[s] : Sch[p] = "failed"
  BY <1>4, <1>6, FailureExplained
<1>7. CASE \A p \in Parents[s] : Sch[p] # "failed"
  <2>1. \A p \in Parents[s] : Sch[p] \in {"succeeded", "skipped"} /\ stage[p] = Sch[p]
    BY <1>0, <1>4, <1>7 DEF Terminal, Agree
  <2>2. ASSUME NEW p \in Parents[s], Sch[p] = "succeeded", ~Fired(Sch, p, s),
               ~FailureRecorded
        PROVE  Missed(p, s)
    <3>1. <<p, s>> \in Gated /\ route[<<p, s>>] # "fire" /\ <<p, s>>[1] = p
      BY <2>2 DEF Fired
    <3>2. route[<<p, s>>] # "unset"
      BY <2>1, <2>2, <3>1 DEF FirstLoopInv, RoutesSet
    <3>3. route[<<p, s>>] # "missing"
      BY <2>2, <3>1 DEF FailureRecorded
    <3>4. route[<<p, s>>] \in {"unset", "fire", "miss", "missing"}
      BY <3>1, TypeParts
    <3> QED
      BY <3>1, <3>2, <3>3, <3>4 DEF Missed
  <2>3. Parents[s] # {}
    BY <1>5 DEF JoinAllows
  <2>4. CASE Cardinality(Parents[s]) = 1
    <3>1. PICK p \in Stages : Parents[s] = {p}
      BY <1>3, <2>4, ParentsCounted
    <3>2. /\ ~(Sch[p] = "succeeded" /\ Missed(p, s))
          /\ Sch[p] = "skipped" => "skipped" \in On[<<p, s>>]
      BY <1>3, <3>1 DEF FirstLoopInv, SkippedEagerly, Live
    <3>3. CASE Sch[p] = "skipped"
      BY <1>3, <2>1, <3>1, <3>2, <3>3 DEF Stranded
    <3>4. CASE Sch[p] = "succeeded"
      <4>1. ~Fired(Sch, p, s)
        BY <1>5, <2>4, <3>1, <3>4 DEF JoinAllows
      <4> QED
        BY <2>2, <3>1, <3>2, <3>4, <4>1
    <3> QED
      BY <2>1, <3>1, <3>3, <3>4
  <2>5. CASE Cardinality(Parents[s]) # 1
    <3>1. Cardinality(Parents[s]) > 1 /\ ParentsSettled(Sch, s)
      <4>1. Cardinality(Parents[s]) \in Nat /\ Cardinality(Parents[s]) # 0
        BY <1>3, <2>3, ParentsCounted
      <4> QED
        BY <2>1, <2>5, <4>1 DEF ParentsSettled
    <3>2. Having(Sch, Parents[s], "succeeded") # {}
      BY <1>3, <1>5, <3>1 DEF Stalled
    <3>3. Having(Sch, Parents[s], "skipped") = {}
      BY <1>5, <3>1, <3>2 DEF JoinAllows
    <3>4. PICK p \in Parents[s] : ~Fired(Sch, p, s)
      BY <1>5, <3>1, <3>2 DEF JoinAllows
    <3>5. Sch[p] = "succeeded"
      BY <2>1, <3>3 DEF Having
    <3>6. ~Missed(p, s)
      BY <1>3, <1>5, <3>1, <3>3 DEF Stalled
    <3> QED
      BY <2>2, <3>4, <3>5, <3>6
  <2> QED
    BY <2>4, <2>5
<1> QED
  BY <1>6, <1>7

\* A loop that makes its run succeeded has run what the envelopes route it
\* through.
LEMMA SuccessExplained ==
    ASSUME TypeInv, FirstLoopInv, Pc = "wind", ~Halted, AllTerminal(Sch),
           ~UnhandledFailure(Sch)
    PROVE  EndedAsRouted
<1>1. \A s \in Stages : Sch[s] # "failed"
  <2> SUFFICES ASSUME NEW f \in Stages, Sch[f] = "failed" PROVE FALSE
    OBVIOUS
  <2>1. PICK c \in Children(f) : Sch[c] # "skipped"
    BY DEF UnhandledFailure, FailureAccepted
  <2>2. c \in Stages /\ f \in Parents[c] /\ Sch[c] \in {"succeeded", "failed"}
    BY <2>1 DEF Children, AllTerminal, Terminal
  <2>3. stage[f] \in {"succeeded", "skipped"}
    BY <2>2 DEF FirstLoopInv, StartedReady, Ready
  <2>4. Agree(f)
    BY DEF FirstLoopInv, Agreement
  <2> QED
    BY <2>3, <2>4 DEF Agree
<1>2. \A s \in Stages : stage[s] = Sch[s] /\ Sch[s] \in {"succeeded", "skipped"}
  BY <1>1 DEF FirstLoopInv, Agreement, Agree, AllTerminal, Terminal
<1> SUFFICES ASSUME NEW s \in Stages
             PROVE  stage[s] = "succeeded" <=>
                      \/ Parents[s] = {}
                      \/ /\ \E p \in Parents[s] : stage[p] = "succeeded"
                         /\ \/ \E p \in Parents[s] : stage[p] # "succeeded"
                            \/ \A p \in Parents[s] :
                                 <<p, s>> \in Gated => route[<<p, s>>] = "fire"
  BY <1>2 DEF EndedAsRouted
<1>3. Parents[s] \subseteq Stages
  BY ParentsCounted
<1>4. CASE Sch[s] = "succeeded"
  <2>1. Ready(s)
    BY <1>4 DEF FirstLoopInv, StartedReady
  <2> QED
    BY <1>2, <1>3, <1>4, <2>1 DEF Ready
<1>5. CASE Sch[s] = "skipped"
  <2>1. SkipReason(Sch, s)
    BY <1>5 DEF FirstLoopInv, SkippedForReason, Live
  <2>2. CASE StalledJoin(Sch, s)
    <3>1. Parents[s] # {}
      BY <2>2, ParentsCounted DEF StalledJoin
    <3>2. CASE Having(Sch, Parents[s], "succeeded") = {}
      BY <1>2, <1>3, <1>5, <3>1, <3>2 DEF Having
    <3>3. ASSUME Having(Sch, Parents[s], "skipped") = {}, NEW p \in Parents[s], Missed(p, s)
          PROVE  /\ \A q \in Parents[s] : stage[q] = "succeeded"
                 /\ <<p, s>> \in Gated /\ route[<<p, s>>] # "fire"
      BY <1>2, <1>3, <3>3 DEF Having, Missed
    <3> QED
      BY <1>2, <1>5, <2>2, <3>1, <3>2, <3>3 DEF StalledJoin
  <2>3. ASSUME NEW p \in Stages, RejectedBy(Sch, p, s)
        PROVE  /\ Parents[s] = {p}
               /\ \/ stage[p] # "succeeded"
                  \/ <<p, s>> \in Gated /\ route[<<p, s>>] # "fire"
    BY <1>2, <2>3 DEF RejectedBy, Missed
  <2> QED
    BY <1>2, <1>5, <2>1, <2>2, <2>3 DEF SkipReason
<1> QED
  BY <1>2, <1>4, <1>5

\* The loop ends and stores the outcome.
LEMMA WindDownKeeps ==
    ASSUME TypeInv, TypeInv', FirstLoopInv, WindDown(1) PROVE FirstLoopInv'
<1>0. 1 \in Loops /\ Halted \in BOOLEAN
  BY FirstTyped
<1> DEFINE outcome == Outcome(Sch, Halted)
<1>1. /\ Pc = "wind" /\ Finish(1)
      /\ UNCHANGED <<stage, route, task, cancel>>
      /\ IF outcome = "waiting" THEN UNCHANGED run ELSE WriteTerminal(outcome)
  BY DEF WindDown, Pc, Sch, Halted
<1>2. Pc' = "done"
  BY <1>0, <1>1, FinishPc DEF Pc
<1>3. loop'[1].cut = FALSE
  <2> DEFINE ended == [loop EXCEPT ![1] = Blank("done")]
  <2>1. ended[1] = Blank("done") /\ Blank("done").cut = FALSE
    BY <1>0, TypeParts DEF Blank
  <2>2. [Blank("done") EXCEPT !.linked = FALSE].cut = FALSE
    BY DEF Blank
  <2> HIDE DEF ended
  <2>3. loop' = ended \/ loop' = [j \in Loops |-> [ended[j] EXCEPT !.linked = FALSE]]
    BY <1>1 DEF Finish, Unlinked, ended
  <2> QED
    BY <1>0, <2>1, <2>2, <2>3
<1>4. outcome \in {"waiting", "failed", "succeeded"}
  BY DEF Outcome
<1>5. run' = "cancelled" <=> run = "cancelled"
  BY <1>1, <1>4 DEF WriteTerminal
<1>6. Control' /\ Busy'
  BY <1>1, <1>2 DEF FirstLoopInv, Control, Busy, Act
<1>7. Cancelling'
  BY <1>1, <1>2, <1>3, <1>5 DEF FirstLoopInv, Cancelling
<1>8. Agreement' /\ StartedReady' /\ SkippedForReason' /\ SkippedEagerly'
      /\ HaltedForReason' /\ LeftForReason'
  BY <1>2 DEF Agreement, StartedReady, SkippedForReason, SkippedEagerly, Live,
              HaltedForReason, LeftForReason
<1>9. StartedWhenReady' /\ RoutesSet'
  BY <1>1 DEF FirstLoopInv, StartedWhenReady, RoutesSet
<1>10. run = "running" \/ run = "cancelled"
  BY <1>1, TypeParts DEF FirstLoopInv, Cancelling
<1>11. CASE run = "cancelled"
  <2>1. Ended'
    BY <1>5, <1>11 DEF Ended
  <2> QED
    BY <1>6, <1>7, <1>8, <1>9, <2>1 DEF FirstLoopInv
<1>12. CASE run = "running"
  <2>1. ASSUME outcome = "waiting" PROVE Ended'
    <3>1. PICK s \in Stages : Sch[s] = "waiting"
      BY <2>1 DEF Outcome, Having
    <3>2. stage[s] = "waiting"
      BY <1>1, <1>12, <3>1 DEF FirstLoopInv, Agreement, Agree, Shown
    <3>3. run' = "running" /\ stage'[s] = "waiting"
      BY <1>1, <1>12, <2>1, <3>2
    <3> QED
      BY <3>3 DEF Ended, Having
  <2>2. ASSUME outcome = "failed" PROVE Ended'
    <3>1. \/ FailureRecorded
          \/ \E s \in Stages : FailedUnrecorded(s) \/ Stranded(s)
      <4>1. CASE Halted
        <5>1. \/ \E e \in Gated : route[e] = "missing"
              \/ \E s \in Stages : Sch[s] = "failed"
          BY <1>1, <1>12, <4>1 DEF FirstLoopInv, HaltedForReason
        <5> QED
          BY <1>1, <1>12, <5>1, FailureExplained DEF FailureRecorded
      <4>2. CASE UnhandledFailure(Sch)
        BY <1>1, <1>12, <4>2, FailureExplained DEF UnhandledFailure
      <4>3. CASE ~Halted /\ ~UnhandledFailure(Sch)
        <5>1. Having(Sch, Stages, "waiting") = {} /\ ~AllTerminal(Sch)
          BY <2>2, <4>3 DEF Outcome
        <5> QED
          BY <1>1, <1>12, <4>3, <5>1, PendingExplained
      <4> QED
        BY <4>1, <4>2, <4>3
    <3>2. run' = "failed"
      BY <1>1, <1>12, <2>2 DEF WriteTerminal
    <3>3. FailureRecorded' <=> FailureRecorded
      BY <1>1 DEF FailureRecorded, Having
    <3>4. \A s \in Stages : /\ FailedUnrecorded(s)' <=> FailedUnrecorded(s)
                            /\ Stranded(s)' <=> Stranded(s)
      BY <1>1 DEF FailedUnrecorded, Stranded
    <3> QED
      BY <3>1, <3>2, <3>3, <3>4 DEF Ended
  <2>3. ASSUME outcome = "succeeded" PROVE Ended'
    <3>1. ~Halted /\ AllTerminal(Sch) /\ ~UnhandledFailure(Sch)
      BY <2>3 DEF Outcome
    <3>2. EndedAsRouted
      BY <1>1, <3>1, SuccessExplained
    <3>3. EndedAsRouted'
      BY <1>1, <3>2 DEF EndedAsRouted
    <3>4. run' = "succeeded"
      BY <1>1, <1>12, <2>3 DEF WriteTerminal
    <3> QED
      BY <3>3, <3>4 DEF Ended
  <2>4. Ended'
    BY <1>4, <2>1, <2>2, <2>3
  <2> QED
    BY <1>6, <1>7, <1>8, <1>9, <2>4 DEF FirstLoopInv
<1> QED
  BY <1>10, <1>11, <1>12
\* The steps of a cancel.
LEMMA CancelKeeps ==
    ASSUME TypeInv, TypeInv', FirstLoopInv, CancelWrite \/ CancelProceeds
    PROVE  FirstLoopInv'
<1>0. /\ 1 \in Loops /\ loop \in [Loops -> LoopState] /\ loop[1] \in LoopState
      /\ stage \in [Stages -> StoredState]
  BY TypeParts, OneIsLoop
<1>1. run' = "cancelled" /\ cancel' # "idle"
  <2>1. CASE CancelWrite
    BY <2>1 DEF CancelWrite
  <2>2. CASE CancelProceeds
    <3>1. cancel # "idle" /\ run' = run /\ cancel' # "idle"
      BY <2>2 DEF CancelProceeds, CancelHalt, CancelKilled, CancelMark
    <3> QED
      BY <3>1 DEF FirstLoopInv, Cancelling
  <2> QED
    BY <2>1, <2>2
<1>2. route' = route /\ task' = task /\ Act' = Act
  BY DEF CancelWrite, CancelProceeds, CancelHalt, CancelKilled, CancelMark, Act
<1>3. Sch' = Sch /\ Pc' = Pc /\ Halted' = Halted
  <2>1. \/ loop'[1] = loop[1]
        \/ loop'[1] = [loop[1] EXCEPT !.cut = @ \/ loop[1].linked]
        \/ loop'[1] = [loop[1] EXCEPT !.linked = FALSE]
    BY <1>0 DEF CancelWrite, CancelProceeds, CancelHalt, CancelKilled, CancelMark, Unlinked
  <2> QED
    BY <1>0, <2>1 DEF LoopState, Sch, Pc, Halted
<1>4. \A s \in Stages : \/ stage'[s] = stage[s]
                        \/ stage[s] \notin Terminal /\ stage'[s] = "failed"
  <2>1. CASE CancelMark
    BY <2>1, SetToAt DEF CancelMark
  <2>2. CASE ~CancelMark
    BY <2>2 DEF CancelWrite, CancelProceeds, CancelHalt, CancelKilled
  <2> QED
    BY <2>1, <2>2
<1>5. Frozen
  BY <1>2, <1>4 DEF Frozen, Terminal
<1>6. Control' /\ Busy'
  BY <1>2, <1>3 DEF FirstLoopInv, Control, Busy
<1>7. Cancelling'
  BY <1>1 DEF Cancelling
<1>8. Agreement'
  <2> SUFFICES ASSUME Pc # "done", NEW s \in Stages PROVE Agree(s)'
    BY <1>3 DEF Agreement
  <2>1. Agree(s)
    BY DEF FirstLoopInv, Agreement
  <2> QED
    BY <1>1, <1>2, <1>3, <1>4, <2>1 DEF Agree, Shown, Terminal
<1>9. StartedReady'
  BY <1>3, <1>5, ReadyStays DEF FirstLoopInv, StartedReady
<1>10. StartedWhenReady'
  <2> SUFFICES ASSUME NEW s \in Stages,
                      stage'[s] \in {"running", "waiting", "succeeded"}
               PROVE  Ready(s)'
    BY DEF StartedWhenReady, Ready
  <2>1. stage[s] \in {"running", "waiting", "succeeded"}
    BY <1>4
  <2>2. Ready(s)
    BY <2>1 DEF FirstLoopInv, StartedWhenReady, Ready
  <2> QED
    BY <1>5, <2>2, ReadyStays
<1>11. SkippedForReason'
  <2> SUFFICES ASSUME Live, NEW s \in Stages, Sch[s] = "skipped"
               PROVE  SkipReason(Sch, s)'
    BY <1>3 DEF SkippedForReason, Live
  <2>1. SkipReason(Sch', s)
    BY <1>3 DEF FirstLoopInv, SkippedForReason
  <2> QED
    BY <1>2, <2>1, ReasonPrimed
<1>12. RoutesSet'
  <2> SUFFICES ASSUME NEW e \in Gated
               PROVE  stage'[e[1]] = "succeeded" <=> route'[e] # "unset"
    BY DEF RoutesSet
  <2>1. e[1] \in Stages
    BY DagAssumption DEF Edges
  <2> QED
    BY <1>2, <1>4, <2>1 DEF FirstLoopInv, RoutesSet, Terminal
<1>13. SkippedEagerly'
  <2>1. \A p, s : Missed(p, s)' <=> Missed(p, s)
    BY <1>2 DEF Missed
  <2> QED
    BY <1>3, <2>1 DEF FirstLoopInv, SkippedEagerly, Live
<1>14. HaltedForReason' /\ Ended'
  BY <1>1 DEF HaltedForReason, Ended
<1>15. LeftForReason'
  BY <1>2, <1>3, RulesPrimed DEF FirstLoopInv, LeftForReason
<1> QED
  BY <1>6, <1>7, <1>8, <1>9, <1>10, <1>11, <1>12, <1>13, <1>14, <1>15 DEF FirstLoopInv

\* The run is started with everything pending and nothing in flight.
LEMMA FirstLoopInit == Init => FirstLoopInv
<1> SUFFICES ASSUME Init PROVE FirstLoopInv
  OBVIOUS
<1>0. 1 \in Loops
  BY OneIsLoop
<1>1. loop[1] = [Blank("tick") EXCEPT !.linked = TRUE]
  BY <1>0 DEF Init
<1>2. /\ Pc = "tick" /\ Halted = FALSE /\ loop[1].cut = FALSE
      /\ \A s \in Stages : Sch[s] = "pending"
  BY <1>1 DEF Pc, Halted, Sch, Blank, AllPending
<1>3. /\ \A s \in Stages : stage[s] = "pending"
      /\ \A l \in Loops : \A s \in Stages : task[l][s] = "none"
      /\ \A s \in Stages : Act[s] = "none"
  BY <1>0 DEF Init, AllPending, Act
<1>4. run = "running" /\ cancel = "idle" /\ \A e \in Gated : route[e] = "unset"
  BY DEF Init
<1>5. Control /\ Busy /\ Cancelling
  BY <1>2, <1>3, <1>4 DEF Control, Busy, Cancelling
<1>6. Agreement /\ StartedReady /\ StartedWhenReady
  BY <1>2, <1>3 DEF Agreement, Agree, Shown, StartedReady, StartedWhenReady
<1>7. SkippedForReason /\ HaltedForReason /\ LeftForReason /\ Ended
  BY <1>2 DEF SkippedForReason, HaltedForReason, LeftForReason, Ended
<1>8. RoutesSet
  <2>1. \A e \in Gated : e[1] \in Stages
    BY DagAssumption DEF Edges
  <2> QED
    BY <1>3, <1>4, <2>1 DEF RoutesSet
<1>9. SkippedEagerly
  BY <1>2 DEF SkippedEagerly
<1> QED
  BY <1>5, <1>6, <1>7, <1>8, <1>9 DEF FirstLoopInv

\* Every step before an answer keeps the invariant of the first loop.
LEMMA FirstLoopNext ==
    TypeInv /\ TypeInv' /\ FirstLoopInv /\ Unanswered /\ Unanswered' /\ [Next]_vars
        => FirstLoopInv'
<1> SUFFICES ASSUME TypeInv, TypeInv', FirstLoopInv, Unanswered, Unanswered', [Next]_vars
             PROVE  FirstLoopInv'
  OBVIOUS
<1>1. CASE UNCHANGED vars
  <2>1. /\ run' = run /\ stage' = stage /\ route' = route /\ loop' = loop
        /\ task' = task /\ cancel' = cancel
    BY <1>1 DEF vars
  <2>2. Sch' = Sch /\ Pc' = Pc /\ Halted' = Halted /\ Act' = Act
    BY <2>1 DEF Sch, Pc, Halted, Act
  <2>3. Control' /\ Busy' /\ Cancelling' /\ Agreement'
    BY <2>1, <2>2 DEF FirstLoopInv, Control, Busy, Cancelling, Agreement, Agree, Shown
  <2>4. StartedReady' /\ StartedWhenReady' /\ RoutesSet' /\ HaltedForReason'
    BY <2>1, <2>2 DEF FirstLoopInv, StartedReady, Ready, StartedWhenReady, RoutesSet,
                      HaltedForReason
  <2>5. SkippedForReason'
    <3>1. ASSUME NEW s \in Stages, SkipReason(Sch, s) PROVE SkipReason(Sch, s)'
      <4>1. SkipReason(Sch', s)
        BY <2>2, <3>1
      <4> QED
        BY <2>1, <4>1, ReasonPrimed
    <3> QED
      BY <2>2, <3>1 DEF FirstLoopInv, SkippedForReason, Live
  <2>6. SkippedEagerly'
    BY <2>1, <2>2 DEF FirstLoopInv, SkippedEagerly, Live, Missed
  <2>7. LeftForReason'
    BY <2>1, <2>2, RulesPrimed DEF FirstLoopInv, LeftForReason
  <2>8. Ended'
    <3>1. FailureRecorded' <=> FailureRecorded
      BY <2>1 DEF FailureRecorded, Having
    <3>2. \A s \in Stages : /\ FailedUnrecorded(s)' <=> FailedUnrecorded(s)
                            /\ Stranded(s)' <=> Stranded(s)
      BY <2>1 DEF FailedUnrecorded, Stranded
    <3>3. EndedAsRouted' <=> EndedAsRouted
      BY <2>1 DEF EndedAsRouted
    <3>4. Having(stage, Stages, "waiting")' = Having(stage, Stages, "waiting")
      BY <2>1 DEF Having
    <3> QED
      BY <2>1, <2>2, <3>1, <3>2, <3>3, <3>4 DEF FirstLoopInv, Ended
  <2> QED
    BY <2>3, <2>4, <2>5, <2>6, <2>7, <2>8 DEF FirstLoopInv
<1>2. CASE Next
  <2>1. \/ LoopStep(1)
        \/ \E s \in Stages : FirstStageStep(s)
        \/ CancelWrite \/ CancelProceeds
    BY <1>2, OnlyFirstLoop DEF FirstLoopInv
  <2>2. CASE LoopStep(1)
    BY <2>2, SkipStalledKeeps, TickKeeps, LeaveKeeps, WindDownKeeps DEF LoopStep
  <2>3. ASSUME NEW s \in Stages, FirstStageStep(s) PROVE FirstLoopInv'
    <3>1. CASE Spawn(1, s) \/ WorkerEnds(1, s)
      BY <3>1, WorkerSteps, WorkerStepKeeps
    <3> QED
      BY <2>3, <3>1, SucceededKeeps, WaitsOrRepairedKeeps, GiveUpKeeps DEF FirstStageStep
  <2>4. CASE CancelWrite \/ CancelProceeds
    BY <2>4, CancelKeeps
  <2> QED
    BY <2>1, <2>2, <2>3, <2>4
<1> QED
  BY <1>1, <1>2

-----------------------------------------------------------------------------
(* What the first loop promises                                            *)

\* A run that is not answered yet was not answered before.
LEMMA UnansweredBefore == TypeInv /\ [Next]_vars /\ Unanswered' => Unanswered
<1> SUFFICES ASSUME TypeInv, [Next]_vars, Unanswered',
                    NEW l \in Loops, l # 1
             PROVE  loop[l].pc = "off"
  BY DEF Unanswered
<1>1. loop'[l].pc = "off"
  BY DEF Unanswered
<1>2. CASE Next
  BY <1>1, <1>2, StartedForGood
<1>3. CASE UNCHANGED vars
  BY <1>1, <1>3 DEF vars
<1> QED
  BY <1>2, <1>3

\* Until the first answer a run keeps the invariant of its first loop.
LEMMA FirstLoopAlways == Spec => [](TypeInv /\ (Unanswered => FirstLoopInv))
BY TypeInit, TypeNext, FirstLoopInit, FirstLoopNext, UnansweredBefore, PTL DEF Spec

\* For every pipeline and for as long as no question is answered: a stage that
\* is stored as running, waiting or succeeded has parents that succeeded or
\* were skipped, one at least succeeded, and its `if`s fired when none was
\* skipped, whatever the order of the workers, their failures, the repairs
\* and a cancel at any point.
THEOREM StartedOnlyWhenReady == Spec => [](Unanswered => StartedWhenReady)
<1>1. TypeInv /\ FirstLoopInv => StartedWhenReady
  BY DEF FirstLoopInv
<1> QED
  BY <1>1, FirstLoopAlways, PTL

\* The stages the envelopes route the run through are the ones that satisfy
\* the equation of EndedAsRouted: it has one solution, because parents come
\* first in pipeline order.
LEMMA RoutedIsSucceeded ==
    ASSUME TypeInv, EndedAsRouted
    PROVE  Routed = {s \in Stages : stage[s] = "succeeded"}
<1> DEFINE Rule(f) == [s \in Stages |->
             \/ Parents[s] = {}
             \/ /\ \E p \in Parents[s] : f[p]
                /\ \/ \E p \in Parents[s] : ~f[p]
                   \/ \A p \in Parents[s] :
                        <<p, s>> \in Gated => route[<<p, s>>] = "fire"]
           through == CHOOSE f : f = Rule(f)
           g == [s \in Stages |-> stage[s] = "succeeded"]
<1>0. \A s \in Stages : Parents[s] \subseteq Stages
  BY ParentsCounted
<1>1. \E f : f = Rule(f)
  <2>1. ASSUME NEW s \in Stages
        PROVE  (stage[s] = "succeeded") =
                 (\/ Parents[s] = {}
                  \/ /\ \E p \in Parents[s] : g[p]
                     /\ \/ \E p \in Parents[s] : ~g[p]
                        \/ \A p \in Parents[s] :
                             <<p, s>> \in Gated => route[<<p, s>>] = "fire")
    <3> DEFINE B == \/ Parents[s] = {}
                    \/ /\ \E p \in Parents[s] : g[p]
                       /\ \/ \E p \in Parents[s] : ~g[p]
                          \/ \A p \in Parents[s] :
                               <<p, s>> \in Gated => route[<<p, s>>] = "fire"
    <3>1. \A p \in Parents[s] : g[p] <=> stage[p] = "succeeded"
      BY <1>0
    <3> HIDE DEF g
    <3>2. stage[s] = "succeeded" <=> B
      BY <3>1 DEF EndedAsRouted
    <3>3. B \in BOOLEAN
      OBVIOUS
    <3> HIDE DEF B
    <3>4. (stage[s] = "succeeded") = B
      BY <3>2, <3>3
    <3> QED
      BY <3>4 DEF B
  <2>2. g = Rule(g)
    BY <2>1, Zenon
  <2> QED
    BY <2>2
<1>2. through = Rule(through)
  BY <1>1, Zenon
<1>3. Routed = {s \in Stages : through[s]}
  BY Zenon DEF Routed
<1> HIDE DEF through, g
<1>4. \A s \in Stages : through[s] <=>
             \/ Parents[s] = {}
             \/ /\ \E p \in Parents[s] : through[p]
                /\ \/ \E p \in Parents[s] : ~through[p]
                   \/ \A p \in Parents[s] :
                        <<p, s>> \in Gated => route[<<p, s>>] = "fire"
  BY <1>2
<1> DEFINE bad == {s \in Stages : ~(through[s] <=> stage[s] = "succeeded")}
<1>5. bad = {}
  <2> SUFFICES ASSUME bad # {} PROVE FALSE
    OBVIOUS
  <2>1. bad \in SUBSET Stages
    OBVIOUS
  <2>2. PICK s \in bad : \A t \in bad : Index[s] <= Index[t]
    BY <2>1, FirstStage
  <2>3. s \in Stages
    BY <2>1
  <2>4. \A p \in Parents[s] : through[p] <=> stage[p] = "succeeded"
    <3> SUFFICES ASSUME NEW p \in Parents[s] PROVE p \in Stages /\ p \notin bad
      OBVIOUS
    <3>1. p \in Stages /\ Index[p] < Index[s] /\ Index[p] \in Nat /\ Index[s] \in Nat
      BY <1>0, <2>3, DagAssumption
    <3> QED
      BY <2>2, <3>1
  <2>5. through[s] <=> stage[s] = "succeeded"
    BY <1>4, <2>3, <2>4 DEF EndedAsRouted
  <2> QED
    BY <2>2, <2>5
<1> QED
  BY <1>3, <1>5

\* For every pipeline and for as long as no question is answered: a run stored
\* as succeeded has run exactly the stages its envelopes route it through and
\* has skipped all others.
THEOREM SuccessAsRouted == Spec => [](Unanswered => SucceededAsRouted)
<1>1. TypeInv /\ FirstLoopInv => SucceededAsRouted
  <2> SUFFICES ASSUME TypeInv, FirstLoopInv, run = "succeeded"
               PROVE  /\ Having(stage, Stages, "succeeded") = Routed
                      /\ Having(stage, Stages, "skipped") = Stages \ Routed
    BY DEF SucceededAsRouted
  <2>1. EndedAsRouted
    BY DEF FirstLoopInv, Cancelling, Ended
  <2>2. Routed = {s \in Stages : stage[s] = "succeeded"}
    BY <2>1, RoutedIsSucceeded
  <2> QED
    BY <2>1, <2>2 DEF Having, EndedAsRouted
<1> QED
  BY <1>1, FirstLoopAlways, PTL

\* For every pipeline and for as long as no question is answered: once the
\* loop has ended, a failed run has a stage that failed, an envelope without
\* the field of a route, a stage whose preparation failed or a stranded one,
\* and a run still running has a stage that waits.
THEOREM OutcomeAlwaysExplained == Spec => [](Unanswered => OutcomeExplained)
<1>1. TypeInv /\ FirstLoopInv => OutcomeExplained
  <2> SUFFICES ASSUME TypeInv, FirstLoopInv, AtRest
               PROVE  /\ run = "failed" =>
                           \/ FailureRecorded
                           \/ \E s \in Stages : FailedUnrecorded(s) \/ Stranded(s)
                      /\ run = "running" => Having(stage, Stages, "waiting") # {}
    BY DEF OutcomeExplained
  <2>1. Pc = "done"
    BY OneIsLoop DEF AtRest, FirstLoopInv, Control, Pc
  <2> QED
    BY <2>1 DEF FirstLoopInv, Ended
<1> QED
  BY <1>1, FirstLoopAlways, PTL

\* For every pipeline and for as long as no question is answered: at most
\* maxActiveStagesPerRun stages of the run are prepared or worked on.
THEOREM RunWithinStageLimit == Spec => [](Unanswered => WithinStageLimit)
<1>1. TypeInv /\ FirstLoopInv /\ LimitInv => WithinStageLimit
  <2> SUFFICES ASSUME TypeInv, FirstLoopInv, LimitInv
               PROVE  Cardinality({w \in Loops \X Stages :
                        task[w[1]][w[2]] \in {"prep", "worker"}}) <= MaxActive
    BY DEF WithinStageLimit
  <2> DEFINE F == InFlight(1)
             W == {w \in Loops \X Stages : task[w[1]][w[2]] \in {"prep", "worker"}}
             T == {<<1, s>> : s \in F}
             f == [s \in F |-> <<1, s>>]
  <2>1. W \in SUBSET T
    <3> SUFFICES ASSUME NEW l \in Loops, NEW s \in Stages,
                        task[l][s] \in {"prep", "worker"}
                 PROVE  l = 1 /\ s \in F
      OBVIOUS
    <3>1. l = 1
      BY DEF FirstLoopInv, Control
    <3> QED
      BY <3>1 DEF InFlight
  <2>2. f \in Surjection(F, T)
    BY DEF Surjection
  <2>3. /\ IsFiniteSet(F) /\ Cardinality(F) \in Nat /\ Cardinality(F) <= MaxActive
    BY InFlightFinite, OneIsLoop DEF LimitInv, LoopLimited
  <2> HIDE DEF F, W, T, f
  <2>4. IsFiniteSet(T) /\ Cardinality(T) <= Cardinality(F)
    BY <2>2, <2>3, FS_Surjection
  <2>5. IsFiniteSet(W) /\ Cardinality(W) <= Cardinality(T)
    BY <2>1, <2>4, FS_Subset
  <2>6. Cardinality(T) \in Nat /\ Cardinality(W) \in Nat
    BY <2>4, <2>5, FS_CardinalityType
  <2>7. Cardinality(W) <= MaxActive
    BY <2>3, <2>4, <2>5, <2>6, BoundAssumption
  <2> QED
    BY <2>7 DEF W
<1>2. Spec => []LimitInv
  BY TypeInit, TypeNext, LimitInit, LimitNext, PTL DEF Spec
<1> QED
  BY <1>1, <1>2, FirstLoopAlways, PTL

\* What a step may do to a settled or failed stage of a run that is not
\* cancelled.
SettledStep ==
    run # "cancelled" => \A s \in Stages :
         /\ stage[s] \in {"succeeded", "skipped"} => stage'[s] = stage[s]
         /\ stage[s] = "failed" =>
              \/ stage'[s] = "failed"
              \/ stage'[s] = "pending" /\ attempts'[s] = attempts[s] + 1

\* No step before an answer undoes what is settled.
LEMMA SettledNext ==
    ASSUME TypeInv, FirstLoopInv, Unanswered, Unanswered', [Next]_vars
    PROVE  SettledStep
<1> SUFFICES ASSUME run # "cancelled", NEW t \in Stages
             PROVE  /\ stage[t] \in {"succeeded", "skipped"} => stage'[t] = stage[t]
                    /\ stage[t] = "failed" =>
                         \/ stage'[t] = "failed"
                         \/ stage'[t] = "pending" /\ attempts'[t] = attempts[t] + 1
  BY DEF SettledStep
<1>0. /\ 1 \in Loops /\ stage \in [Stages -> StoredState]
      /\ attempts \in [Stages -> Nat] /\ Sch \in [Stages -> ScheduleState]
  BY TypeParts, FirstTyped
<1>1. CASE stage' = stage
  BY <1>1
<1>2. ASSUME Pc = "tick", Sch[t] = "pending"
      PROVE  stage[t] \notin {"succeeded", "skipped", "failed"}
  BY <1>2 DEF FirstLoopInv, Agreement, Agree, Shown
<1>3. ASSUME NEW s \in Stages, Spawn(1, s) \/ WorkerEnds(1, s)
      PROVE  /\ stage[t] \in {"succeeded", "skipped"} => stage'[t] = stage[t]
             /\ stage[t] = "failed" => stage'[t] = "failed"
  <2>1. WorkerStep(s)
    BY <1>3, WorkerSteps
  <2>2. stage[s] \notin {"succeeded", "skipped", "failed"}
    BY <2>1 DEF WorkerStep, FirstLoopInv, Control, Agreement, Agree, Shown
  <2> QED
    BY <2>1, <2>2 DEF WorkerStep
<1>4. CASE SkipStalled(1)
  <2>1. PICK s \in Stages : stage' = SetTo(stage, Cascade(Sch, {s}), "skipped")
    BY <1>4 DEF SkipStalled, Sch
  <2>2. t \in Cascade(Sch, {s}) => Sch[t] = "pending"
    BY CascadeOf
  <2>3. Pc = "tick"
    BY <1>4 DEF SkipStalled, Pc
  <2> QED
    BY <1>2, <2>1, <2>2, <2>3, SetToAt
<1>5. ASSUME NEW s \in Stages, StageSucceeded(1, s)
      PROVE  /\ stage[t] \in {"succeeded", "skipped"} => stage'[t] = stage[t]
             /\ stage[t] = "failed" => stage'[t] = "failed"
  <2>1. /\ Act[s] = "ok"
        /\ stage' = SetTo(SetTo(stage, OkSkips(1, s), "skipped"), OkOpened(1, s), "pending")
    BY <1>0, <1>5, SucceededEffect DEF Act
  <2>2. Pc = "tick" /\ Sch[s] = "active" /\ OkOpened(1, s) = {}
    BY <2>1, HeardOf, NothingReopened
  <2>3. t \in OkSkips(1, s) => Sch[t] = "pending"
    <3>1. t \in OkSkips(1, s) => OkKnown(1, s)[t] = "pending"
      BY CascadeOf DEF OkSkips
    <3> QED
      BY <1>0, <3>1 DEF OkKnown, Sch
  <2>4. stage'[t] = IF t \in OkSkips(1, s) THEN "skipped" ELSE stage[t]
    BY <2>1, <2>2, SetToAt
  <2> QED
    BY <1>2, <2>2, <2>3, <2>4
<1>6. ASSUME NEW s \in Stages, StageWaits(1, s) \/ StageRepaired(1, s)
      PROVE  /\ stage[t] \in {"succeeded", "skipped"} => stage'[t] = stage[t]
             /\ stage[t] = "failed" =>
                  \/ stage'[t] = "failed"
                  \/ stage'[t] = "pending" /\ attempts'[t] = attempts[t] + 1
  <2>1. Act[s] \in {"ask", "bad"}
    BY <1>6 DEF StageWaits, StageRepaired, Act
  <2>2. stage[s] \notin {"succeeded", "skipped"}
    BY <2>1, HeardOf
  <2>3. \/ stage' = stage
        \/ /\ stage' = [stage EXCEPT ![s] = "pending"]
           /\ attempts' = [attempts EXCEPT ![s] = @ + 1]
    BY <1>6 DEF StageWaits, StageRepaired
  <2> QED
    BY <1>0, <2>2, <2>3
<1>7. ASSUME NEW s \in Stages, StageFailed(1, s) \/ PreparationFails(1, s)
      PROVE  /\ stage[t] \in {"succeeded", "skipped"} => stage'[t] = stage[t]
             /\ stage[t] = "failed" => stage'[t] = "failed"
  <2>1. PICK stored : /\ GiveUp(1, s, stored) /\ stored \in {"failed", stage[s]}
                      /\ Act[s] \in {"dead", "bad", "prep"}
    BY <1>7 DEF StageFailed, PreparationFails, Act
  <2>2. /\ Pc = "tick" /\ Sch[s] = "active" /\ stage[s] \notin {"succeeded", "skipped"}
    BY <2>1, HeardOf
  <2>3. stage' = [SetTo(stage, BadSkips(1, s), "skipped") EXCEPT ![s] = stored]
    BY <1>0, <2>1, GiveUpEffect
  <2>4. t \in BadSkips(1, s) => Sch[t] = "pending"
    <3>1. t \in BadSkips(1, s) => BadKnown(1, s)[t] = "pending"
      BY CascadeOf DEF BadSkips
    <3> QED
      BY <1>0, <3>1 DEF BadKnown, Sch
  <2>5. stage'[t] = IF t = s THEN stored
                    ELSE IF t \in BadSkips(1, s) THEN "skipped" ELSE stage[t]
    BY <2>3, SetToAt
  <2> QED
    BY <1>2, <2>1, <2>2, <2>4, <2>5
<1>8. ASSUME CancelWrite \/ CancelProceeds PROVE stage' = stage
  <2>1. ~CancelMark
    BY DEF CancelMark, FirstLoopInv, Cancelling
  <2> QED
    BY <1>8, <2>1 DEF CancelWrite, CancelProceeds, CancelHalt, CancelKilled
<1>9. CASE LoopStep(1)
  BY <1>1, <1>4, <1>9 DEF LoopStep, Tick, LeaveLoop, WindDown
<1>10. CASE UNCHANGED vars
  BY <1>1, <1>10 DEF vars
<1>11. CASE Next
  <2>1. \/ LoopStep(1)
        \/ \E s \in Stages : FirstStageStep(s)
        \/ CancelWrite \/ CancelProceeds
    BY <1>11, OnlyFirstLoop DEF FirstLoopInv
  <2> QED
    BY <1>1, <1>3, <1>5, <1>6, <1>7, <1>8, <1>9, <2>1 DEF FirstStageStep
<1> QED
  BY <1>10, <1>11

\* For every pipeline and for as long as no question is answered: while the
\* run is not cancelled, what is stored as succeeded or skipped stays so, and
\* a failed stage is opened again only by a new attempt.
THEOREM SettledForGood == Spec /\ []Unanswered => SettledStays
<1>1. TypeInv /\ FirstLoopInv /\ Unanswered /\ Unanswered' /\ [Next]_vars
        => [SettledStep]_vars
  BY SettledNext
<1>2. [][SettledStep]_vars => SettledStays
  BY PTL DEF SettledStays, SettledStep
<1> QED
  BY <1>1, <1>2, FirstLoopAlways, PTL DEF Spec
=============================================================================
