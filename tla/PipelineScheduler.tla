------------------------- MODULE PipelineScheduler -------------------------
(***************************************************************************)
(* The schedule of one run: runPipelineDag and resumeRun in                *)
(* src/src/runtime/pipelineScheduler.ts, the join rules of joinReadiness,  *)
(* the skip cascade of cloneSchedule and the reopening of skipped stages.  *)
(*                                                                         *)
(* A run has one durable store and may have several scheduling loops over  *)
(* it: loop 1 starts the run, and each answer to a waiting stage first     *)
(* runs that stage again and then, when it succeeds, schedules the rest of *)
(* the run in a loop of its own (resumeViaSubprocess in runManager.ts).    *)
(* Each loop keeps its own copy of the stage states and its own tasks in   *)
(* flight; the workers write to the store before their loop hears of it.   *)
(*                                                                         *)
(* Execution mode "process", no clones, feedback loops, operator retries,  *)
(* browsers or host shutdown.  The handling of one worker's result is one  *)
(* step.                                                                   *)
(***************************************************************************)
EXTENDS Naturals, FiniteSets

CONSTANTS
    Stages,
    Parents,        \* the stages a stage is routed from
    Index,          \* stageIndex: the order of the stages in the pipeline
    Gated,          \* edges <<parent, child>> that carry an `if`
    On,             \* the parent states an edge does not skip its child for
    MaxActive,      \* maxActiveStagesPerRun
    MaxAttempts,    \* 1, or max_attempts of a stage repaired on verify failure
    Asking,         \* stages that may ask the operator
    Failing,        \* stages whose worker may fail
    Unprepared,     \* stages whose preparation may fail (a missing secret)
    MaxLoops,       \* bound: 1 + the number of answers
    AnswersAtRest,  \* bound: whether answers come only while no loop runs
    Cancellable     \* whether the operator may cancel the run

Edges == {e \in Stages \X Stages : e[1] \in Parents[e[2]]}
Loops == 1..MaxLoops

ASSUME DagAssumption ==
    /\ IsFiniteSet(Stages)
    /\ Parents \in [Stages -> SUBSET Stages]
    /\ Index \in [Stages -> Nat]
    /\ \A s \in Stages : \A p \in Parents[s] : Index[p] < Index[s]
    /\ \A s, t \in Stages : Index[s] = Index[t] => s = t
    /\ Gated \subseteq Edges
    /\ On \in [Edges -> SUBSET {"succeeded", "failed", "skipped"}]

ASSUME BoundAssumption ==
    /\ MaxActive \in Nat \ {0}
    /\ MaxAttempts \in [Stages -> Nat \ {0}]
    /\ MaxLoops \in Nat \ {0}
    /\ Asking \subseteq Stages /\ Failing \subseteq Stages
    /\ Unprepared \subseteq Stages
    /\ \A s \in Asking : MaxAttempts[s] = 1
    /\ AnswersAtRest \in BOOLEAN
    /\ Cancellable \in BOOLEAN

VARIABLES
    run,        \* stored status of the run
    stage,      \* stored status of each stage, from the events of its last attempt
    route,      \* what the payload of a stored envelope makes of each `if`
    attempts,   \* attempts of each stage that have started or were opened
    loop,       \* the scheduling loops
    task,       \* what each loop has in flight
    halt,       \* the entry of the run in schedulingHalts
    owner,      \* the loop whose promise untracks the run, 0 when untracked
    cancel      \* progress of cancelRun

vars == <<run, stage, route, attempts, loop, task, halt, owner, cancel>>

Terminal == {"succeeded", "failed", "skipped"}
ScheduleState == Terminal \cup {"pending", "active", "waiting"}
StoredState == Terminal \cup {"pending", "running", "waiting"}

(***************************************************************************)
(* The rules of the graph.  st is a schedule: the state of every stage.    *)
(***************************************************************************)
AllTerminal(st) == \A s \in Stages : st[s] \in Terminal
Having(st, S, x) == {s \in S : st[s] = x}
Children(s) == {c \in Stages : s \in Parents[c]}

Fired(st, p, s) ==
    <<p, s>> \in Gated => st[p] = "succeeded" /\ route[<<p, s>>] = "fire"
Missed(p, s) == <<p, s>> \in Gated /\ route[<<p, s>>] = "miss"

(* Every parent is terminal and none has failed. *)
ParentsSettled(st, s) ==
    \A p \in Parents[s] : st[p] \in {"succeeded", "skipped"}

(* Mutant: the join looks at the states of the parents only. *)
MutantJoinIgnoresGates(st, s) ==
    \/ Parents[s] = {}
    \/ /\ Parents[s] # {}
       /\ ParentsSettled(st, s)
       /\ Having(st, Parents[s], "succeeded") # {}

JoinAllows(st, s) ==
    \/ Parents[s] = {}
    \/ /\ Cardinality(Parents[s]) = 1
       /\ \A p \in Parents[s] : st[p] = "succeeded" /\ Fired(st, p, s)
    \/ /\ Cardinality(Parents[s]) > 1
       /\ ParentsSettled(st, s)
       /\ Having(st, Parents[s], "succeeded") # {}
       /\ \/ Having(st, Parents[s], "skipped") # {}
          \/ \A p \in Parents[s] : Fired(st, p, s)

(* Mutant: only a join of skipped parents counts as stalled. *)
MutantStalledAllSkipped(st, s) ==
    /\ st[s] = "pending"
    /\ Cardinality(Parents[s]) > 1
    /\ ParentsSettled(st, s)
    /\ Having(st, Parents[s], "succeeded") = {}

(* A join of settled parents that can never run. *)
Stalled(st, s) ==
    /\ st[s] = "pending"
    /\ Cardinality(Parents[s]) > 1
    /\ ParentsSettled(st, s)
    /\ \/ Having(st, Parents[s], "succeeded") = {}
       \/ /\ Having(st, Parents[s], "skipped") = {}
          /\ \E p \in Parents[s] : Missed(p, s)

(* A pending stage with one parent is skipped when its edge rejects what
   became of the parent. *)
Rejects(st, p, s, observed) ==
    st[s] = "pending" /\ Parents[s] = {p} /\ observed \notin On[<<p, s>>]

(* The pending stages among `seeds`, and what their skipping skips. *)
Cascade(st, seeds) ==
    LET doomed[s \in Stages] ==
          \/ st[s] = "pending" /\ s \in seeds
          \/ \E p \in Parents[s] : Rejects(st, p, s, "skipped") /\ doomed[p]
    IN  {s \in Stages : doomed[s]}

SetTo(st, S, x) == [s \in Stages |-> IF s \in S THEN x ELSE st[s]]

(* Mutant: every failure is taken as accepted. *)
MutantAcceptsAny(st, f) == TRUE

(* A failure is accepted by a successor that lists it and is not skipped. *)
FailureAccepted(st, f) ==
    \E c \in Children(f) : "failed" \in On[<<f, c>>] /\ st[c] # "skipped"

UnhandledFailure(st) ==
    \E s \in Stages : st[s] = "failed" /\ ~FailureAccepted(st, s)

(* Mutant: skipped stages are opened without asking the join rule. *)
MutantReopenAll(st) == Having(st, Stages, "skipped")

(* A skipped stage that never started is opened again when its join rule
   is met after all. *)
Reopened(st) ==
    {s \in Stages : st[s] = "skipped" /\ attempts[s] = 0 /\ JoinAllows(st, s)}

(* The `if` of the out-edges of succeeded stages, taken in order: an edge
   whose field is missing ends the pass. *)
MissingEdges(S) == {e \in Gated : e[1] \in S /\ route[e] = "missing"}
Before(e, f) ==
    \/ Index[e[1]] < Index[f[1]]
    \/ e[1] = f[1] /\ Index[e[2]] < Index[f[2]]
EagerSkips(S) ==
    {c \in Stages : \E p \in S :
        /\ Parents[c] = {p}
        /\ Missed(p, c)
        /\ \A m \in MissingEdges(S) : ~Before(m, <<p, c>>)}

(***************************************************************************)
(* A loop: its control state, the schedule it keeps, schedulingHalted, the *)
(* halt object it was given (whether that object is still the entry of the *)
(* run, and whether a cancel set it), and the stage it resumes.            *)
(***************************************************************************)
NoStage == "none"
AllPending == [s \in Stages |-> "pending"]
Blank(pc) == [pc |-> pc, st |-> AllPending, halted |-> FALSE,
              linked |-> FALSE, cut |-> FALSE, from |-> NoStage]

Init ==
    /\ run = "running"
    /\ stage = AllPending
    /\ route \in [Gated -> {"unset"}]
    /\ attempts = [s \in Stages |-> 0]
    /\ loop = [l \in Loops |->
                 IF l = 1 THEN [Blank("tick") EXCEPT !.linked = TRUE]
                 ELSE Blank("off")]
    /\ task = [l \in Loops |-> [s \in Stages |-> "none"]]
    /\ halt = "clear"
    /\ owner = 1
    /\ cancel = "idle"

InFlight(l) == {s \in Stages : task[l][s] # "none"}
Looping(l) == loop[l].pc \in {"tick", "wind"}
AtRest == \A l \in Loops : loop[l].pc \in {"off", "done"}

(* removeActiveEntry: the run is untracked and loses its halt object. *)
Forget == owner' = 0 /\ halt' = "none"
Unlinked(loops) == [l \in Loops |-> [loops[l] EXCEPT !.linked = FALSE]]

(* The promise of loop l settles. *)
Finish(l) ==
    LET ended == [loop EXCEPT ![l] = Blank("done")] IN
    IF owner = l THEN Forget /\ loop' = Unlinked(ended)
    ELSE loop' = ended /\ UNCHANGED <<owner, halt>>

(* writeTerminalRunStatus *)
WriteTerminal(outcome) == run' = IF run = "cancelled" THEN run ELSE outcome

(***************************************************************************)
(* The scheduling loop.                                                    *)
(***************************************************************************)
Runnable(l) ==
    {s \in Stages : loop[l].st[s] = "pending" /\ JoinAllows(loop[l].st, s)}

(* The first n stages of S in pipeline order. *)
First(S, n) == {s \in S : Cardinality({t \in S : Index[t] < Index[s]}) < n}

(* applyStalledJoinSkips, before a pass starts anything. *)
SkipStalled(l) ==
    /\ loop[l].pc = "tick"
    /\ \E s \in Stages :
         /\ Stalled(loop[l].st, s)
         /\ LET skips == Cascade(loop[l].st, {s}) IN
            /\ loop' = [loop EXCEPT ![l].st = SetTo(@, skips, "skipped")]
            /\ stage' = SetTo(stage, skips, "skipped")
    /\ UNCHANGED <<run, route, attempts, task, halt, owner, cancel>>

(* A pass of the loop: start what is runnable, as far as the limit allows.
   With nothing in flight the loop is left; when halted the stages still
   pending become skipped in this loop's schedule and not in the store. *)
Tick(l) ==
    LET st == loop[l].st
        halted == loop[l].halted \/ loop[l].cut
        room == IF Cardinality(InFlight(l)) >= MaxActive THEN 0
                ELSE MaxActive - Cardinality(InFlight(l))
        started == IF halted THEN {} ELSE First(Runnable(l), room)
        idle == InFlight(l) \cup started = {}
        dropped == IF idle /\ halted THEN Having(st, Stages, "pending") ELSE {}
    IN  /\ loop[l].pc = "tick"
        /\ ~AllTerminal(st)
        /\ \A s \in Stages : ~Stalled(st, s)
        /\ loop' = [loop EXCEPT
             ![l].st = SetTo(SetTo(st, started, "active"), dropped, "skipped"),
             ![l].halted = halted,
             ![l].pc = IF idle THEN "wind" ELSE "tick"]
        /\ task' = [task EXCEPT ![l] = SetTo(@, started, "prep")]
        /\ UNCHANGED <<run, stage, route, attempts, halt, owner, cancel>>

(* Every stage is terminal: the loop is left with its tasks in flight. *)
LeaveLoop(l) ==
    /\ loop[l].pc = "tick"
    /\ AllTerminal(loop[l].st)
    /\ loop' = [loop EXCEPT ![l].pc = "wind"]
    /\ UNCHANGED <<run, stage, route, attempts, task, halt, owner, cancel>>

(* What the loop makes of the run once nothing is in flight. *)
Outcome(st, halted) ==
    IF ~halted /\ Having(st, Stages, "waiting") # {} THEN "waiting"
    ELSE IF halted \/ UnhandledFailure(st) \/ ~AllTerminal(st) THEN "failed"
    ELSE "succeeded"

WindDown(l) ==
    /\ loop[l].pc = "wind"
    /\ InFlight(l) = {}
    /\ LET outcome == Outcome(loop[l].st, loop[l].halted) IN
       IF outcome = "waiting" THEN UNCHANGED run ELSE WriteTerminal(outcome)
    /\ Finish(l)
    /\ UNCHANGED <<stage, route, attempts, task, cancel>>

(***************************************************************************)
(* launchStage: preparation, then a worker process.                        *)
(***************************************************************************)
SetTask(l, s, x) == task' = [task EXCEPT ![l][s] = x]

(* The launcher refuses a run it is cancelling. *)
Spawn(l, s) ==
    /\ task[l][s] = "prep"
    /\ IF cancel = "killing"
       THEN SetTask(l, s, "dead") /\ UNCHANGED <<stage, attempts>>
       ELSE /\ SetTask(l, s, "worker")
            /\ stage' = [stage EXCEPT ![s] = "running"]
            /\ attempts' = [attempts EXCEPT ![s] = IF @ = 0 THEN 1 ELSE @]
    /\ UNCHANGED <<run, route, loop, halt, owner, cancel>>

(* The worker writes what it came to, then tells its loop. *)
WorkerSucceeds(l, s) ==
    /\ task[l][s] = "worker"
    /\ stage' = [stage EXCEPT ![s] = "succeeded"]
    /\ \E r \in [{e \in Gated : e[1] = s} -> {"fire", "miss", "missing"}] :
         route' = [e \in Gated |-> IF e[1] = s THEN r[e] ELSE route[e]]
    /\ SetTask(l, s, "ok")
    /\ UNCHANGED <<run, attempts, loop, halt, owner, cancel>>

WorkerAsks(l, s) ==
    /\ task[l][s] = "worker"
    /\ s \in Asking
    /\ stage' = [stage EXCEPT ![s] = "waiting"]
    /\ SetTask(l, s, "ask")
    /\ UNCHANGED <<run, route, attempts, loop, halt, owner, cancel>>

(* Verification failed: the failure is recorded and may be repaired. *)
WorkerFails(l, s) ==
    /\ task[l][s] = "worker"
    /\ s \in Failing
    /\ stage' = [stage EXCEPT ![s] = "failed"]
    /\ SetTask(l, s, "bad")
    /\ UNCHANGED <<run, route, attempts, loop, halt, owner, cancel>>

(* The worker dies without a word, or is killed by a cancel. *)
WorkerDies(l, s) ==
    /\ task[l][s] = "worker"
    /\ s \in Failing \/ cancel = "killing"
    /\ SetTask(l, s, "dead")
    /\ UNCHANGED <<run, stage, route, attempts, loop, halt, owner, cancel>>

(***************************************************************************)
(* A loop hears of the result of its worker.                               *)
(***************************************************************************)
StageSucceeded(l, s) ==
    LET known == [loop[l].st EXCEPT ![s] = "succeeded"]
        skips == Cascade(known, EagerSkips({s}))
        routed == SetTo(known, skips, "skipped")
        broken == MissingEdges({s}) # {}
        opened == IF broken THEN {} ELSE Reopened(routed)
    IN  /\ Looping(l) /\ task[l][s] = "ok"
        /\ loop' = [loop EXCEPT ![l].st = SetTo(routed, opened, "pending"),
                                ![l].halted = @ \/ broken]
        /\ stage' = SetTo(SetTo(stage, skips, "skipped"), opened, "pending")
        /\ SetTask(l, s, "none")
        /\ UNCHANGED <<run, route, attempts, halt, owner, cancel>>

StageWaits(l, s) ==
    /\ Looping(l) /\ task[l][s] = "ask"
    /\ loop' = [loop EXCEPT ![l].st[s] = "waiting"]
    /\ SetTask(l, s, "none")
    /\ UNCHANGED <<run, stage, route, attempts, halt, owner, cancel>>

(* Mutant: max_attempts counts the repairs (off by one). *)
MutantRepairOnceMore(s) == attempts[s] <= MaxAttempts[s]
Repairable(s) == attempts[s] < MaxAttempts[s]

(* A new attempt is opened; it has no events yet. *)
StageRepaired(l, s) ==
    /\ Looping(l) /\ task[l][s] = "bad" /\ Repairable(s)
    /\ attempts' = [attempts EXCEPT ![s] = @ + 1]
    /\ stage' = [stage EXCEPT ![s] = "pending"]
    /\ loop' = [loop EXCEPT ![l].st[s] = "pending"]
    /\ SetTask(l, s, "none")
    /\ UNCHANGED <<run, route, halt, owner, cancel>>

(* onStageFailure without a repair; `stored` is the stage's status in the
   store. *)
GiveUp(l, s, stored) ==
    LET known == [loop[l].st EXCEPT ![s] = "failed"]
        skips == Cascade(known, {c \in Stages : Rejects(known, s, c, "failed")})
        routed == SetTo(known, skips, "skipped")
    IN  /\ loop' = [loop EXCEPT ![l].st = routed,
                                ![l].halted = @ \/ ~FailureAccepted(routed, s)]
        /\ stage' = [SetTo(stage, skips, "skipped") EXCEPT ![s] = stored]
        /\ SetTask(l, s, "none")
        /\ UNCHANGED <<run, route, attempts, halt, owner, cancel>>

StageFailed(l, s) ==
    /\ Looping(l)
    /\ task[l][s] = "dead" \/ (task[l][s] = "bad" /\ ~Repairable(s))
    /\ GiveUp(l, s, "failed")

(* The preparation fails, with nothing recorded for the stage. *)
PreparationFails(l, s) ==
    /\ Looping(l) /\ task[l][s] = "prep" /\ s \in Unprepared
    /\ GiveUp(l, s, stage[s])

(***************************************************************************)
(* An answer: the waiting stage runs again in a worker of its own, and its *)
(* success starts another loop over the stored schedule.                   *)
(***************************************************************************)
Answer(l, s) ==
    /\ AnswersAtRest => AtRest
    /\ loop[l].pc = "off"
    /\ l = 2 \/ loop[l - 1].pc # "off"
    /\ stage[s] = "waiting"
    /\ \A k \in Loops : loop[k].from # s
    /\ stage' = [stage EXCEPT ![s] = "running"]
    /\ loop' = [loop EXCEPT ![l].pc = "resume", ![l].from = s]
    /\ SetTask(l, s, "prep")
    /\ owner' = l
    /\ UNCHANGED <<run, route, attempts, halt, cancel>>

(* snapshotToScheduleState *)
Hydrated == [s \in Stages |-> IF stage[s] = "running" THEN "active" ELSE stage[s]]

(* hydrateScheduleFromStore, with the resumed stage set to succeeded. *)
Schedule(s) ==
    LET opened == Reopened(Hydrated) IN
    [st |-> [SetTo(Hydrated, opened, "pending") EXCEPT ![s] = "succeeded"],
     opened |-> opened,
     halted |-> UnhandledFailure(Hydrated)]

(* runPipelineDag from the stored schedule: another loop. *)
Continue(l, s) ==
    LET h == Schedule(s)
        done == Having(h.st, Stages, "succeeded")
        skips == Cascade(h.st, EagerSkips(done))
    IN  /\ loop' = [loop EXCEPT ![l] =
             [pc |-> "tick", st |-> SetTo(h.st, skips, "skipped"),
              halted |-> h.halted \/ MissingEdges(done) # {},
              linked |-> TRUE, cut |-> halt = "cut", from |-> s]]
        /\ halt' = IF halt = "none" THEN "clear" ELSE halt
        /\ stage' = SetTo(SetTo(stage, h.opened, "pending"), skips, "skipped")
        /\ UNCHANGED <<run, owner>>

(* Mutant: nobody schedules the rest of the run. *)
MutantResumedSuccess(l, s) ==
    /\ loop[l].pc = "resume" /\ task[l][s] = "ok"
    /\ SetTask(l, s, "none")
    /\ Finish(l)
    /\ UNCHANGED <<run, stage, route, attempts, cancel>>

(* resumeRun: a stage without successors only settles the run, unless there
   is more to schedule. *)
ResumedStageSucceeds(l, s) ==
    LET st == Schedule(s).st
        leaf == Children(s) = {}
    IN  /\ loop[l].pc = "resume" /\ task[l][s] = "ok"
        /\ SetTask(l, s, "none")
        /\ IF leaf /\ (Having(st, Stages, "active") # {} \/ AllTerminal(st))
           THEN /\ IF Having(st, Stages, "active") # {} THEN UNCHANGED run
                   ELSE WriteTerminal(IF UnhandledFailure(st) THEN "failed"
                                      ELSE "succeeded")
                /\ stage' = SetTo(stage, Schedule(s).opened, "pending")
                /\ Finish(l)
           ELSE Continue(l, s)
        /\ UNCHANGED <<route, attempts, cancel>>

ResumedStageAsks(l, s) ==
    /\ loop[l].pc = "resume" /\ task[l][s] = "ask"
    /\ SetTask(l, s, "none")
    /\ Finish(l)
    /\ UNCHANGED <<run, stage, route, attempts, cancel>>

(* The run is stored as failed whatever its status is. *)
ResumedStageFails(l, s) ==
    /\ loop[l].pc = "resume" /\ task[l][s] \in {"bad", "dead"}
    /\ SetTask(l, s, "none")
    /\ stage' = [stage EXCEPT ![s] = "failed"]
    /\ run' = "failed"
    /\ Finish(l)
    /\ UNCHANGED <<route, attempts, cancel>>

(***************************************************************************)
(* cancelRun: the status, the halt object and the workers, the stages.     *)
(***************************************************************************)
Workers == {w \in Loops \X Stages : task[w[1]][w[2]] = "worker"}

CancelWrite ==
    /\ Cancellable /\ cancel = "idle" /\ run = "running"
    /\ run' = "cancelled"
    /\ cancel' = "written"
    /\ UNCHANGED <<stage, route, attempts, loop, task, halt, owner>>

CancelHalt ==
    /\ cancel = "written"
    /\ halt' = IF halt = "none" THEN "none" ELSE "cut"
    /\ loop' = [l \in Loops |-> [loop[l] EXCEPT !.cut = @ \/ loop[l].linked]]
    /\ cancel' = IF Workers = {} THEN "marking" ELSE "killing"
    /\ UNCHANGED <<run, stage, route, attempts, task, owner>>

CancelKilled ==
    /\ cancel = "killing" /\ Workers = {}
    /\ cancel' = "marking"
    /\ UNCHANGED <<run, stage, route, attempts, loop, task, halt, owner>>

CancelMark ==
    /\ cancel = "marking"
    /\ stage' = SetTo(stage, {s \in Stages : stage[s] \notin Terminal}, "failed")
    /\ Forget
    /\ loop' = Unlinked(loop)
    /\ cancel' = "done"
    /\ UNCHANGED <<run, route, attempts, task>>

WorkerEnds(l, s) ==
    \/ WorkerSucceeds(l, s)
    \/ WorkerAsks(l, s)
    \/ WorkerFails(l, s)
    \/ WorkerDies(l, s)

ResultHandled(l, s) ==
    \/ StageSucceeded(l, s)
    \/ StageWaits(l, s)
    \/ StageRepaired(l, s)
    \/ StageFailed(l, s)
    \/ ResumedStageSucceeds(l, s)
    \/ ResumedStageAsks(l, s)
    \/ ResumedStageFails(l, s)

LoopStep(l) == SkipStalled(l) \/ Tick(l) \/ LeaveLoop(l) \/ WindDown(l)
CancelProceeds == CancelHalt \/ CancelKilled \/ CancelMark

(* What happens without anybody asking for it. *)
Progress ==
    \/ CancelProceeds
    \/ \E l \in Loops : LoopStep(l)
    \/ \E l \in Loops, s \in Stages :
         Spawn(l, s) \/ WorkerEnds(l, s) \/ ResultHandled(l, s)

Next ==
    \/ Progress
    \/ \E l \in Loops, s \in Stages : PreparationFails(l, s) \/ Answer(l, s)
    \/ CancelWrite

Spec == Init /\ [][Next]_vars

(* The host goes on running its loops and handlers, workers end (a stage has
   a timeout) and a cancel once begun goes on.  Every one of these steps
   brings the run nearer to its end, so it is enough that some step is taken
   as long as there is one.  Answers, cancels and faults need not happen. *)
FairSpec == Spec /\ WF_vars(Progress)

(***************************************************************************)
(* Properties.                                                             *)
(***************************************************************************)

(* Every variable has its type; in particular a stage never has more
   attempts than its repair policy allows (scheduleAutomaticRepair). *)
TypeOK ==
    /\ run \in {"running", "succeeded", "failed", "cancelled"}
    /\ stage \in [Stages -> StoredState]
    /\ route \in [Gated -> {"unset", "fire", "miss", "missing"}]
    /\ \A s \in Stages : attempts[s] \in 0..MaxAttempts[s]
    /\ loop \in [Loops ->
         [pc : {"off", "resume", "tick", "wind", "done"},
          st : [Stages -> ScheduleState], halted : BOOLEAN, linked : BOOLEAN,
          cut : BOOLEAN, from : Stages \cup {NoStage}]]
    /\ task \in [Loops -> [Stages ->
         {"none", "prep", "worker", "ok", "ask", "bad", "dead"}]]
    /\ halt \in {"none", "clear", "cut"}
    /\ owner \in Loops \cup {0}
    /\ cancel \in {"idle", "written", "killing", "marking", "done"}

(* A stage is started only once each of its parents has succeeded or was
   skipped, one at least succeeded, and, when all of them succeeded, every
   `if` on the way fired: docs/architecture.md:122 as the store shows it.
   This holds where a loop has the run for itself: until the first answer
   (proved), and after it when each answer comes at rest (AnswersAtRest),
   whatever the loop hydrates from the stages that failed, asked or were
   skipped before.  It is false where an answer starts a loop beside another
   one (AnswersAtRest = FALSE): a stage that is still being prepared is
   stored as pending, so the second loop starts it too, and it runs again
   beside the children of its first success. *)
StartedWhenReady ==
    \A s \in Stages : stage[s] \in {"running", "waiting", "succeeded"} =>
        \/ Parents[s] = {}
        \/ /\ \A p \in Parents[s] : stage[p] \in {"succeeded", "skipped"}
           /\ \E p \in Parents[s] : stage[p] = "succeeded"
           /\ \/ \E p \in Parents[s] : stage[p] = "skipped"
              \/ \A p \in Parents[s] :
                   <<p, s>> \in Gated => route[<<p, s>>] = "fire"

(* The stages the envelopes route the run through. *)
Routed ==
    LET through[s \in Stages] ==
          \/ Parents[s] = {}
          \/ /\ \E p \in Parents[s] : through[p]
             /\ \/ \E p \in Parents[s] : ~through[p]
                \/ \A p \in Parents[s] :
                     <<p, s>> \in Gated => route[<<p, s>>] = "fire"
    IN  {s \in Stages : through[s]}

(* A run stored as succeeded has run exactly the stages its envelopes route
   it through and has skipped all others: neither the order in which workers
   end, nor repairs, nor a resume in the middle change what was run, as long
   as no loop starts work beside another one. *)
SucceededAsRouted ==
    run = "succeeded" => /\ Having(stage, Stages, "succeeded") = Routed
                         /\ Having(stage, Stages, "skipped") = Stages \ Routed

FailureRecorded ==
    \/ Having(stage, Stages, "failed") # {}
    \/ \E e \in Gated : route[e] = "missing"

(* Once every loop has ended, the stored outcome is the one the stored
   stages have: a failed run has a stage that failed or an envelope without
   the field of a route, and a run still running waits for an answer
   (docs/architecture.md:39). *)
OutcomeFromStages ==
    AtRest => /\ run = "failed" => FailureRecorded
              /\ run = "running" => Having(stage, Stages, "waiting") # {}

(* A stage whose preparation failed: launchStage records nothing for it, so
   it is still pending behind parents that are settled. *)
FailedUnrecorded(s) ==
    /\ s \in Unprepared
    /\ stage[s] = "pending"
    /\ \A p \in Parents[s] : stage[p] \in {"succeeded", "skipped"}

(* A stage behind one skipped parent whose edge lists "skipped": it is not
   skipped with its parent and never starts (docs/yaml-catalog.md:168). *)
Stranded(s) ==
    /\ stage[s] = "pending"
    /\ \E p \in Parents[s] : /\ Parents[s] = {p}
                             /\ stage[p] = "skipped"
                             /\ "skipped" \in On[<<p, s>>]

(* The same, except that the run may also have failed for a stage that
   failed without a record, or for one that is stranded.  Checked where one
   stage waits at a time: an answer to a second one may run the stage that
   failed without a record again, after the run was stored as failed. *)
OutcomeExplained ==
    AtRest => /\ run = "failed" =>
                   \/ FailureRecorded
                   \/ \E s \in Stages : FailedUnrecorded(s) \/ Stranded(s)
              /\ run = "running" => Having(stage, Stages, "waiting") # {}

(* At most maxActiveStagesPerRun stages of the run are prepared or worked on
   at a time, all loops together (docs/ci.md:400).  The code keeps to the
   limit in each loop for itself (LoopsWithinLimit, proved) and counts a
   stage that an answer runs again in none, so it is false as soon as an
   answer comes beside a working loop: it is proved until the first answer,
   and no run checks it. *)
WithinStageLimit ==
    Cardinality({w \in Loops \X Stages :
        task[w[1]][w[2]] \in {"prep", "worker"}}) <= MaxActive

(* While a run is not cancelled, a stage stored as succeeded or skipped
   stays so, and a failed one is opened again only by a new attempt.  Checked
   where one stage waits at a time: with two, the failure of the one that is
   answered during a cancel is stored over "cancelled", and the answer to the
   other starts a worker for a stage that the cancel has marked as failed. *)
SettledStays ==
    [][run # "cancelled" => \A s \in Stages :
         /\ stage[s] \in {"succeeded", "skipped"} => stage'[s] = stage[s]
         /\ stage[s] = "failed" =>
              \/ stage'[s] = "failed"
              \/ stage'[s] = "pending" /\ attempts'[s] = attempts[s] + 1]_vars

(* A run that is running is in the end stored with an outcome or waits for
   the operator. *)
RunSettles ==
    run = "running" ~> (run # "running" \/ \E s \in Stages : stage[s] = "waiting")
=============================================================================
