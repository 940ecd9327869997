# Stageflow: TLA+ models, model checking and proofs

Stageflow runs pipelines of agent stages on one host process. A *run* is a
request to execute a pipeline (a DAG of stages) on a checkout; the host admits
or queues runs, schedules the stages of each, starts a worker process per stage,
waits for operators at human gates, and records everything in a SQLite run
store, from which it continues after a restart. The documentation is under
`src/docs/`, the host's code under `src/src/`; all paths below are relative to
the repository with the prefix `src/`.

These modules model the parts of the host where several things happen at once,
where a crash leaves things half done, or where something must not be done twice.
The host is one JavaScript thread, so operations interleave at their `await`s,
and nothing in the test suite drives those interleavings systematically.

| file | what it is |
|---|---|
| `AdmissionQueue.tla` | class `AdmissionQueue` as operators on a queue value |
| `AdmissionQueueDrain.tla` | the queue under its clients: arrivals, cancels, drain passes |
| `RunAdmission.tla` | admission, tracking, cancellation, answers, restart (uses `AdmissionQueue`) |
| `CheckoutLeases.tla` | what the run manager promises about checkouts; `RunAdmission` implements it |
| `PipelineScheduler.tla` | the schedule of one run: loops, workers, results, resume, cancel |
| `RetrySession.tla` | operator retries: the requests, the session they share, the loop that serves it |
| `StageLauncher.tla` | host-wide worker slots, the wait queue, cancels in between |
| `AgentTurns.tla` | the turns of an agent session and the approvals they ask for |
| `ReplyDelivery.tla` | the delivery of an agent's replies: attempts, sweeps, resends, restarts |
| `ChannelSends.tla` | the write-ahead ledger of channel sends |
| `ProfileLock.tla` | the lock file of a browser profile |
| `MC*.tla`, `*.cfg` | small instances for TLC |
| `*_proofs.tla` | theorems and proofs checked by TLAPS |
| `PROJECT.json` | components, runs, mutants, the map from definitions to source lines, findings, hazards, theorems |

## 1. Inventory of the system

### Components, their state and operations

**Run manager** (`src/src/runtime/runManager.ts`). State: `active` (the map of
tracked and provisional entries), `provisionalIds`, `checkoutLeases`,
`admissionQueue`, `pendingQueuedStarts`, `queuedDones`, `schedulingHalts`,
`resumeInFlight`, `trackingGeneration`, `maxConcurrent`, whether new work is
accepted. Operations: `startRun`, `reserveAndStartPipeline`,
`tryAdmitOrEnqueue`, `drainAdmissionQueue`, `startDequeuedAdmission`, `track`,
`untrackIfGeneration`, `removeActiveEntry`, `cancelRun`, `deliverAnswer`,
`resumeViaSubprocess`, `retryStage`, `abandonStage`, `decideFeedbackLoop`,
`deleteRun`, and at startup `attachWaitingStages`, `reconcileOrphanedStages`,
`autoResumeInterruptedStages`, `resumeStalledSchedules`,
`reenqueuePersistedQueuedRuns`. Correct when: a checkout is used by one run at a
time, slots and quotas hold, no reservation leaks, no queued run is lost or
starved, a cancelled run stays cancelled, every live execution is tracked.

**Admission queue** (class in the same file). State: a list per project root,
the round-robin order and cursor. Operations: `enqueue`, `requeueFront`,
`remove`, `positionOf`, `dequeueNext` with skip sets. Correct when: lists, order
and cursor agree, no entry is lost or doubled, the announced position is the
real turn, roots are served fairly.

**Pipeline scheduler** (`pipelineScheduler.ts`, `joinReadiness.ts`,
`cloneSchedule.ts`, `reopenSkipped.ts`, `envelopeRouting.ts`). State: per call
of `runPipelineDag` a map of stage states, `schedulingHalted`, the tasks in
flight; in the store the events of each stage attempt and the envelopes.
Operations: the loop, `launchStage`, `onStageSuccess`, `onStageFailure`,
`scheduleAutomaticRepair`, `applyStalledJoinSkips`, `resumeRun`, `retryRun`.
Correct when: a stage starts only when its predecessors allow it, the stages
run are those the envelopes route to, the stored outcome follows from the stored
stages, every run settles or waits.

**Stage process launcher** (`stageProcessLauncher.ts`). State: active children,
host-wide slots, wait queue, cancelled runs. Operations: `launch`, `cancelRun`,
`waitForCapacity`, `signalAllActive`. Correct when: slots are neither lost nor
exceeded and no child survives the cancel of its run.

**Human gates** (`stageHitl.ts`, `answerResume.ts`). A stage waits for an
answer; in process mode its worker exits and the answer starts a new one.

**Retry coordinator** (`runRetryCoordinator.ts`, with `retryStageInternal` of the
run manager). State: `retryInFlight`, `retryStartOwner`, the session of a run
with its active roots, pending deltas and terminal roots. Operations:
`retryStage`, `waitForRetryCoordinatorOrOwnerRelease`, `addRoot`, `waitForRoot`,
`rollbackStartTracking`, the drain of mutations in the scheduler's loop, the end
of the session. Correct when: no request waits for a session that is gone, no
stage stays locked, an accepted retry runs.

**Agent turns and approvals** (`agents/turnLifecycle.ts`, `approvalBroker.ts`,
`chatTurn.ts`, `service.ts`). State: the rows of sessions, turns and approvals;
in memory the chains of messages, the conversations and their abort signals, the
broker's waits. Operations: open, send, stop, begin, ask, wait, decide, expire,
resume, close, complete, restart. Correct when: a gated tool runs only when it
was approved, no approval stays pending that nobody awaits, turns end.

**Channels** (`channels/ledger.ts`, `agents/communications/delivery.ts`). State:
the ledger's records in memory and in its file, submissions under way; the
delivery rows and the marker on their turns. Operations: `send`, the provider's
answer, release and reload; `deliver`, sweeps, `resend`, `markDelivered`,
`settleInterruptedDeliveries`. Correct when: a message is not sent twice by
itself and the caller is told the truth.

**Browser profile lock** (`browser/localProfileLock.ts`, `stageProfileLock.ts`).
State: the lock file, the chain of operations of a process, the statuses of the
runs (`runLiveness.ts`). Operations: `acquire`, `reclaimStale`, `releaseOwner`, the
wait of a stage, the closing of a run's browsers at its end, after a failed resume
and in `cancelRun`. Correct when: one run uses a profile and a stale lock does not
block it for good.

**Feedback loops and clones** (`feedbackLoopCoordinator.ts`,
`replayLifecycle.ts`, `cloneSchedule.ts`): generations of replayed stages.
**Trigger sources and submissions** (`scheduleSource.ts`, `githubPollSource.ts`,
`triggerRunner.ts`): at-most-once dispatch by key. **Run store** (`runstore/`):
SQL with unconditional and compare-and-set status updates. The remaining parts
(HTTP, MCP and CLI surfaces, configuration, providers, mailbox, agent-to-agent
service, evaluations, identity, operator agent, compaction, memory, envelopes)
are sequential, text processing or I/O; `PROJECT.json` lists each of them with
the reason it is not modelled.

### How they interact

`startRun` reserves an entry and a checkout lease, or enqueues; a started run
calls `startPipeline`, which runs the scheduler; the scheduler calls the
launcher, whose workers write stage events to the store and then report. When
the promise of a run settles, `untrackIfGeneration` removes its entry, frees the
lease and starts a drain pass over the queue. `cancelRun` writes the status,
sets the run's halt object, removes the queue entry, kills the workers and
removes the active entry. `deliverAnswer` tracks the run again when necessary,
runs the waiting stage in a worker of its own, and on success calls `resumeRun`,
which schedules the rest in a new loop. `retryStage` starts a session whose loop
takes further retries in while it runs. At startup the store is the only input.

A message to an agent becomes a turn; its gated tool calls wait at the approval
broker for a person or a deadline; its reply becomes a delivery row that sweeps
retry and that marks the turn as undelivered when they give up. A stage's channel
tool goes through the ledger. A stage that needs a browser takes the profile's
lock, which the end of its run or its cancel releases.

### What is hard here

Operations that check before an `await` and act after it (admission, cancel,
answer); an entry of the active map whose owner changes; a drain pass that puts
entries back; two loops over one run's schedule; a retry that arrives while its
session ends; a decision, a deadline and a stop that meet at one approval; a send
whose answer is lost; a lock judged stale and dropped later; failures between two
writes; a crash at any point. `PROJECT.json` lists these as hazards at their lines, with
the properties that would notice them going wrong.

## 2. Plan

Order: what decides over all runs first, then what decides within a run.

1. `AdmissionQueue`, `AdmissionQueueDrain` - done, checked, proved.
2. `RunAdmission` - done, checked; types, reservations, leases, the fate of queued
   and cancelled runs and the limits proved.
3. `CheckoutLeases`, the abstract table of leases - done; the refinement is
   checked and proved.
4. `PipelineScheduler` - done for process mode without clones and feedback
   loops; checked; types and the limit per loop proved, the rest of its safety
   proved up to the first answer.
5. `StageLauncher` and `RetrySession` - done, checked, their safety proved.
6. `AgentTurns`, `ReplyDelivery`, `ChannelSends`, `ProfileLock` - done, checked,
   and their safety proved.
7. Left to model: feedback loops and clones over `PipelineScheduler`; trigger
   sources and idempotent submissions; `abandonStage` and `deleteRun`.
8. Left to prove: what of `PipelineScheduler` survives an answer given at rest,
   and that an idle host has no queue (`QueuedRunLeavesQueue`).

## 3. The modules and the code

### AdmissionQueue, AdmissionQueueDrain

A queue value has `lists` (root to sequence of runs), `order` (the roots with a
non-empty list) and `cursor` (`rrIndex`, counted from 0 as in the code).
`Enqueue`, `RequeueFront`, `RemoveRun`, `PositionOf` and `DequeueNext` are the
methods; the search loop of `dequeueNext` is the least number of steps from the
cursor to a root with an eligible entry. `AdmissionQueueDrain` adds the entry a
drain pass holds and its two blocked sets, and a history variable with the
runs that arrived and have not left. Whether a taken entry is started or put back is open here.

### RunAdmission

One action is what an operation does between two awaits. Correspondence:

| variable | code |
|---|---|
| `status`, `gate` | `runs.status` in the store; whether a stage of the run waits for input |
| `active`, `generation`, `lease` | `active` with `provisionalIds`, entry generations, `checkoutLeases` |
| `queue`, `deferred` | `admissionQueue`, `queuedDones` |
| `start`, `cancel`, `resume`, `drain` | where each `startRun`, `cancelRun`, `deliverAnswer` and the drain pass is |
| `exec`, `launched` | the executions of a run: the first by its start, later ones by answers |
| `boot`, `visited` | the startup sequence (`server/bootstrap.ts:429-434`) |

Conventions and limits of the model:

- Execution mode is `process`, the default; live in-process waits are left out.
- A run id stands for one `startRun` call. Provisional ids are pairs of the
  operation and the run. A second `cancelRun` of the same run joins the first.
- Every await is an interleaving point. Calls to the synchronous SQLite driver
  yield only microtasks, so the model allows some interleavings that need an
  await of real I/O nearby; each violation run's trace has such an await
  (worker exit, file write, git) at the place where the interleaving happens.
  The microtask between an async function's return and its caller is no step.
- Store reads do not fail. Materializing and starting may fail (`Faults`).
- The order in which a restart re-enqueues runs is left open.
- `status` is the stored status that scheduling uses. Surfaces show a status
  derived from stages (`runProjection.ts:173-186`).

Behaviours the model shows and the properties leave room for, each named in the
formula: a start whose skills cannot be written leaves a queued row that only a
restart picks up (`start = "stranded"` in `QueuedRunNotLost`); two interleavings
in which the last call of the drain is wasted (`WakeUpLost` in
`QueuedRunLeavesQueue`) and starts that fail, which give back their reservation
without a drain; a cancel between the queued row and the creation of its promise,
which leaves that promise open because the drain drops a cancelled entry without
resolving it (the premise of `QueuedDoneSettles`); the repair of a resumed stage
stores `running` without a look at the status, so a cancel that comes while the
stage runs is taken back (the exception in `CancelledNotActivated`).

### CheckoutLeases

Two variables, the runs that work in a checkout and the holder of each checkout,
and three steps: a run enters with its checkout, a run leaves with its lease, the
host restarts. The refinement mapping of `RunAdmission` (`Working`, `HolderOf`)
takes an entry of the active map to its run, so a provisional entry that becomes
the entry of its run is a stutter: at no moment in between is the checkout free.

### PipelineScheduler

The store of one run (`run`, `stage`, `route`, `attempts`) and the loops over
it. Loop 1 is the run's start; each `Answer` uses the next loop, which first
resumes the stage (`pc = "resume"`) and then may `Continue` as a scheduling loop
from the stored schedule. A loop has its own copy `st` of the stage states, as
in the code; a task goes through `prep` (in `launchStage`), `worker`, and the
result the loop has not yet handled (`ok`, `ask`, `bad`, `dead`). `halt`,
`linked` and `cut` model the halt object of `schedulingHalts`: removing the
active entry drops the object, and a loop that still holds the old object is not
reached by a later cancel. `JoinAllows`, `Stalled`, `Rejects`, `Cascade`,
`FailureAccepted`, `Reopened`, `EagerSkips` are the rules of the graph.

A run can fail with no failed stage in the store in two ways, which
`OutcomeExplained` names: a preparation that fails is recorded nowhere
(`FailedUnrecorded`), and a stage behind one skipped parent whose edge lists
`skipped` is neither skipped nor started (`docs/yaml-catalog.md:168` says so),
so that the loop ends with it pending and the run failed (`Stranded`).

Limits: no clones (and no forks: `config/normalizePipelineStageEntry.ts:247`
rejects `fork`), feedback loops, operator retries, browsers, host shutdown or
store failures; with `AnswersAtRest` an answer comes only while no loop is running,
and without it also beside a working loop (the two-loop run, section 4); the launcher's host-wide capacity never runs out; the handling
of one result is one step (its awaits only append events, and a stage behind a
missed gate is refused by the join rule itself); `writeTerminalRunStatus` is one
step (its read and write are separate in `RunAdmission`); an answer is one step
(its races with tracking are in `RunAdmission`); stages that ask have no repair
policy; an attempt row appears with the worker, which stands for "has started"
in the reopening rule. What an `if` makes of a payload is a free choice of
`fire`, `miss`, `missing` when the envelope is stored.

### RetrySession

A request goes from `Enter` (the in-flight set and the ownership of the start)
through `Look`, `Check`, `Track` and `Create` to `Start` (its own session) or
`AddRoot` and `WaitForRoot` (somebody else's), and ends in `Return` or, after a
rejection or a timeout, in `Undo`. The session has `roots`, `pending` and
`terminal` as in the coordinator, and the loop its states, launched set and halt
flag; `Hydrate`, `Drain`, `Launch`, `Open`, `Succeed`, `Fail`, `Ask`, `Settle`
and `Close` are the sections of the loop between awaits. Limits: the stages do
not depend on each other (dependencies and the limit on active stages are those
of `PipelineScheduler`); `AcceptedRuns` excepts a stage of which a request that was
rolled back has left its attempt pending (`LeftPending`); the run has ended and is not cancelled; no manual
recovery, automatic repair, feedback loops or clones.

### StageLauncher

`pc` is where each `launch` is: a granted and a woken launch both continue in a
later microtask, so other operations come between. `Report` ends a launch while
its process is still there, `Exit` is the end of the process; `active` has one
entry per stage, and a second launch of the stage overwrites it. `Without` is the
pass of `cancelRun` over the wait queue. Limits: only a
launcher with a limit (`maxActive`); the `error` event of a child is treated
like its report; signals and the grace period are one step, since a signalled
worker is only required to exit eventually.

### AgentTurns

An exclusive section of `AgentService` is one action. The turn that opens a
session waits in its agent's chain, later turns in the session's chain; the two
are not serialised with each other (`chatTurn.ts:42`). `registered` is the
conversation `stop` reaches, which a later message replaces (`chatTurn.ts:59`).
An approval's deadline is a flag that `Deadline` sets; every read of the rows
expires what is due first, as in the code. `RowFor` looks a row up by the arguments
alone, as the code does, so an approval of one tool serves another one; the tool is
kept in the row and read by nobody. `ReplyDelivery` is `turnLifecycle.replyDelivery`:
a turn that succeeded is marked when its reply is not delivered (`undelivered`, a
turn stored as failed that is told apart from one that failed by itself) and loses
the mark when it is; why and when is the matter of the module `ReplyDelivery`. Limits: one session; no evaluation
sessions, archiving, sub-agents or consumers' rights; refusals for limits and
budgets are one nondeterministic refusal; what a model says is whether it calls
a gated tool, ends or fails.

### ReplyDelivery

`row` is the delivery row, `turn` the outcome its marker changes, `flights` the
provider calls under way. A claim and the start of its send are one action (there
is no await in between), and the outcome is another, which patches the row
whatever it holds by then. A crash happens at await points. `arrived` is a
history variable: what may have reached the person, be it sent, unknown or cut
off.

### ChannelSends

`records` and `file` are the ledger in memory and on disk; each write may fail.
`Submit` writes ahead of the provider call, `SubmitEnds` is the provider's
answer, `Loaded` what the constructor makes of the file. `Age` stands for the
retention time. `sent`, `took` and `dropped` are history variables. Limits: one
connection; the text of messages is their hash; a file that does not parse is
not modelled.

### ProfileLock

One action per file operation (`link`, `read`, `rename` and `rm` are atomic) or
look at a run's liveness; `chain` is the promise chain of a process, and the look
a waiting run takes is outside of it. `tomb` is the lock a run has renamed away
and not yet dropped or put back.

The actors are runs and cancels. A run ends in the three orders the code has:
its loop ends and closes the browsers, releases the lock and is stored as terminal
after that (`Finish`); a resume fails or the last stage at work is abandoned, which
stores the status first (`Fail`, then `CloseBrowsers`); or nothing is released
(`Abandon`). `cancelRun` is an actor of its own: it stores `cancelled` (`Cancel`), sets
the halt object (`Halt`), waits for the workers and closes the browsers
(`CancelClose`), and releases the lock by the run's name, while the run's own loop
goes on; meanwhile the run is not live and still uses the profile, and it may be
retried (`Retry`), which makes it live again under the cancel. `Entitled` are the
users that are live and were not retried under a cancel (`revived`).

Limits: lock files that do not parse; which checks a caller brings is the set
`Checkers`; a run has one stage on the profile and one loop at a time.

## 4. Runs

State counts are distinct states. Deadlock checking is off except for the queue,
because a host with nothing to do rests and requests are not forced.

**admission_queue** (passes). Four runs, three roots, the first with runs of two
callers: every order of arrivals, cancels, takes, put-backs. Shows that
lists/order/cursor stay consistent (`QueueWellFormed`), nothing is lost or
doubled (`EachArrivalOnce`), `positionOf` is the real turn (`PositionIsTurn`)
and the head of each root is served within a round
(`HeadServedWithinOneRound`). Three roots are what it takes for a removal
before, at and behind the cursor, two callers in a root for a pick from the
middle of a list.

**run_admission** (passes, 464,543, fair). Four starts: r1 and r2 share a checkout, r1
and r3 a project, r1, r3 and r4 a caller with quota 1; two slots, a queue of
one; faults at every await; r3 may be cancelled. `LeasesMatchEntries`,
`ProvisionalEntriesOwned`, `QueuedRunNotLost`, `LimitsRespected`,
`CancelledNotActivated`, and `DrainPassEnds` (the pass that puts entries back does
not take the same one for ever). Every reason to queue, refuse and put back occurs.

**run_restart** (passes, 394,814). Two runs an earlier process left in the
store (any status) on one checkout, one of which asks, and a third run that is
started, is in no checkout and may be cancelled at any moment, through startup, at
most one crash at any step, an answer, shutdown and changes of the slot count
between 1 and 2; two executions per run. No queued run is lost
(`QueuedRunNotLost`); when everything that was begun is over and the host waits for
requests (`HostIdle`) no run is queued (`QueuedRunLeavesQueue`) and no promise of a
run that has ended is open (`QueuedDoneSettles`), each but for the cases named in
its formula; every step is a step of the abstract lease table
(`LeasesImplemented`). The three runs are what the lost wake-ups need: a run that
is blocked, one that blocks it, and one the drain holds. Both properties of the idle host
are about rest, so they need no fairness: that operations come to an end
is `DrainPassEnds` for the drain and the event loop's own promise for the others.
One crash suffices: a crash keeps only the store, and the initial states are all
stores already.

**pipeline_schedule** (passes, 73,038, fair). Six stages: `a`, a gated branch
`b -> e`, a branch `c` with one repair whose edge into the join is gated and
accepts failure, a branch `d`, and the join `f`; two stages at a time; `a`, `b` and
`f` may ask and are answered, each once and while no loop is running
(`AnswersAtRest`), so that up to four loops follow each other over one store; `b`
and `c` fail or die; the preparation of `e` may fail; a cancel at any point.
`StartedWhenReady`, `SucceededAsRouted`, `OutcomeExplained`, `SettledStays`,
`RunSettles`, `TypeOK`. What holds only because loops do not overlap and one stage
waits at a time is said at each property; what happens otherwise is in
`pipeline_two_loops` and under the other disagreements.

**stage_launcher** (passes, 177,727, fair). Five launches of two runs for two
slots; one stage is launched twice; two overlapping cancels of one run.
`SlotsConserved` (no path out of a launch loses or doubles a slot),
`CancelCoversWorkers` (the cancel waits for every worker of its run, unless its
stage was launched twice), `LaunchReturns` (nobody sleeps beside a free slot).
Waiters outnumber slots, so newcomers overtake woken waiters. The code has no
bound on how often that happens; with finitely many launches it cannot go on.

**agent_turns** (passes, 385,160, fair). The opening turn and a later one, two
gated calls with the same or different arguments, two approvals, a stop at any
point, one switch of the agent, one restart, replies that fail and arrive after
all. `ToolWasApproved`, `PendingIsAwaited`, `ApprovedStaysApproved` (a payload
approved for the session always finds an approved row, although the lookup takes
the newest), `FinalStaysFinal`, `TurnEnds` (whether or not anybody decides). One
tool is enough here: nothing in the gate reads which one it is.

**reply_delivery** (passes, 113,008, fair). Two replies, two sweeps whose lists
overlap, two waits before retries, a resend, a confirmation at any point, a crash.
`SingleFlight`, `MarkerAgrees`, `NeverResentUnasked`, `DeliverySettles`.

**channel_sends** (passes, 2.58 million up to symmetry). A call, its retry, a
call with the same key and another message, and two with keys of their own, on a
ledger of two records. `AtMostOnce`, `AnswersAreTrue`. The symmetry exchanges
the call with its retry and the two other calls together with their keys; the
checked properties are invariants, so it is sound.

**profile_lock** (passes, 204,094, fair). Three runs of one process; one of them looks
at the holder's liveness when it acquires, may be cancelled, may end before its
browsers are closed or without a release, and may be retried once, under its
cancel too; the other two take the lock in between. `EntitledExclusive`,
`EntitledKeepsFile` (its lock is in place or renamed away to be looked at),
`WaiterServed`. A third run is what it takes for a lock that is renamed away to be
another's and linked back.

**retry_session** (passes, 60,728, fair). Two stages that failed; one request
that waits for the end of its stage and one for the same or the other stage; a
stage may ask. `NobodyLeftBehind` (nor in a circle of requests),
`RetryReturns` (without help of a timeout), `AcceptedRuns` (with the exception of
`LeftPending`, which two requests reach and a third one would suffer from).

Runs that refute what the repository says (each is a finding in `PROJECT.json`):

| run | property | what TLC shows |
|---|---|---|
| pipeline_two_loops | `OutcomeFromStages` | an answer while a sibling runs: the run is stored as failed though all stages succeed |
| agent_second_turn | `OneActiveTurn` | a decision sets the session to open before the waiting turn resumes, and a second message begins a turn on it |

### Other disagreements

While modelling, TLC was also asked the following; each statement was found
violated by the modules as they are, and the properties that remain leave room
for it:

- *Order within a root.* An entry picked past a blocked caller and put back goes
  to the front of its root's list, ahead of an older run.
- *The cap on the queue.* Two starts pass the check of the queue's size
  (`runManager.ts:3594`) before either is stored.
- *A queued run leaves the queue.* "Blocking `sf run` prints `queued at position N`
  on stderr, then waits until the run leaves the queue and reaches a terminal
  outcome" (`docs/ci.md:76`). The run stays queued on an idle host, until the next
  run ends, in three cases. The slot is freed and the drain ends between the
  decision to enqueue (`runManager.ts:3282`) and the enqueue. A pass blocks the root
  of A and holds B, the checkout of A is freed meanwhile (the drain it starts returns at
  once, `runManager.ts:3674`), and B is cancelled while it is held: the pass ends
  without a second look at A. A start fails and clears its reservation, which
  starts no drain (`runManager.ts:3975`). `WakeUpLost` names the first two, `Faults`
  the third.
- *The promise of a queued start.* A cancel between the queued row and the
  creation of its promise (`runManager.ts:3305`) finds nothing to resolve, the drain
  drops the entry, and the blocking start waits for ever.
- *Approved for the same tool.* "An identical call (same tool, same arguments)
  that a person approved is not asked about again in that session. A different
  call, or a new session, asks again" (`docs/agent-runtime.md:98-99`). The hash is of
  the arguments (`agents/service.ts:1354`, `agents/sessions.ts:242`) and the lookups do
  not ask for the tool (`agents/service.ts:1201`, `agents/store.ts:999` and `1066`), so
  a call of another ask-first tool with the same arguments runs without being
  asked about. With two elements in `Tools` the model reaches a tool that runs on a
  row of the other one.
- *A stage starts only when ready, and once.* Beside a working loop an answer
  starts a second one from the store, where a stage still in preparation is
  pending: it is started twice, and again beside the children of its first
  success (against `docs/architecture.md:122`; four stages, `a` before `b` and `c`,
  `c` before `d`, where `b` asks, are enough).
- *Parallel stages within one run.* `STAGEFLOW_MAX_ACTIVE_STAGES_PER_RUN`
  (`docs/ci.md:400`) is kept by each loop (`LoopsWithinLimit`); two loops over one run
  may together exceed it, and the worker of an answer is in no loop's count.
- *Two stages that wait at once.* The answer to one runs a stage again whose
  failed preparation has failed the run already; and a failure stored over
  `cancelled` lets the answer to the other start a worker for a stage that the
  cancel has marked as failed.
- *An accepted retry runs.* A request that is rolled back after it created its attempt
  leaves it pending (`runRetryCoordinator.ts:459`); another session hydrates and runs
  that stage although it is no root; a third request for it is accepted after its
  success, but `applyRetryRootDelta` (`pipelineScheduler.ts:593-600`) leaves the stage
  alone and the accepted attempt stays pending. The documentation says that retries
  "create new attempts and recompute affected downstream execution"
  (`docs/architecture.md:127`), and a test is named "addRoot of a succeeded sibling
  remints it" (`tests/runtime.stageRetry.hydrate.test.ts:282`).
- *One run at a time on a profile.* "A run is live while it can still use its
  browser: not yet terminal" (`browser/runLiveness.ts:5`), and the lease is "released
  only by teardownRunBrowsers" (`docs/browser-internals.md:108`). But `cancelRun` stores
  `cancelled` (`runManager.ts:1463`), waits for the workers (`1487`) and closes the browsers
  (`1489`) in this order, and a failed resume (`2902`) stores the status first too.
  Meanwhile a waiting run's poll judges the holder dead (`browser/runLiveness.ts:16`),
  drops its lock (`browser/stageProfileLock.ts:46`) and takes the profile beside it.
  `Users` is larger than `Entitled` by exactly such runs.
- *A retried run keeps its profile.* A cancelled run may be retried as soon as its
  status is stored (`runActionEligibility.ts:29`); the cancel that is still under way
  then releases the lock of the retried run by its name (`browserTeardown.ts:354`) and
  another run acquires the profile (against `docs/browser.md:240`, "one run at a
  time").
- *Cancelled is final.* An outcome is written over `cancelled` when the cancel
  lands between the read and the write of `writeTerminalRunStatus`.
- *Every execution is tracked.* An answer during the wind-down of the asking
  execution runs a stage without slot and lease.
- *The outcome follows from stored stages.* A failed preparation fails the run
  and no stored stage.
- *No worker after a cancel.* A cancel during a stage's preparation is followed
  by the spawn of its worker.
- *One holder across processes.* With two host processes on one profile, a lock
  that is renamed away to be looked at leaves a gap in which a third run links
  its own; the link back fails silently (`localProfileLock.ts:120`) and two runs
  hold the profile. `Processes` and `ProcOf` of `ProfileLock` express this.

Every property of a passing run has a mutant in `PROJECT.json`: a plausible bug
in one mapped definition that TLC then reports under the same configuration.

### Bounds

`Executions` (executions of a run per host process), `MaxCrashes`, `MaxRestarts`,
`MaxLoops` (1 + answers), `MaxCalls` and `MaxApprovals` (gated calls, approval rows),
`MaxSwitches` (of an agent), `MaxManual` (resends by a person), `MaxRetries` (of a
run that ended, for the lock), `AnswersAtRest` (no answer beside a working loop), and
the sets `Starters`, `Persisted`, `Asking`, `Awaiting`, `Cancellable`, `Failing`,
`Unprepared`, `Leaving`, `Retryable`, `SlotCounts`, `Calls`, `Launches`, `Cancels` name
what may happen in an instance. Except for `AnswersAtRest` they
bound how often, never in which order. `MaxActive`, `MaxRecords`, `Backoffs` and `MaxTries` are
limits of the code, set small (or, for `MaxTries`, to the code's value) so that
they are reached. One crash is enough where a crash leaves only stored rows that
the model reaches without it too; two approvals are what it takes for a repeated
payload and for a second one beside a pending one.

### Fairness

`RunAdmission!FairSpec`: an await of a drain pass, or of the cancel of a run, is over
in the end (the event loop). The drain's own cancel is strongly fair: an operator
who cancels the same run again and again takes its place each time, but the awaited
promise is settled by then. `PipelineScheduler!FairSpec`: as long as a loop, a handler, a worker or
a running cancel can step, some such step is taken; each of them brings the run
nearer to its end, so this weak form is enough. `StageLauncher!FairSpec`:
microtasks run and workers exit (stage timeout, kill after the grace period).
`AgentTurns!FairSpec`: sections that are due run, model calls end (stall
timeout), deadlines pass; nobody has to decide, stop or send.
`ReplyDelivery!FairSpec`: sends time out, planned times come, the interval starts
sweeps. `ProfileLock!FairSpec`: file operations return, waiting runs poll again,
a run that holds the profile ends, a cancel goes on (workers exit, browsers
close). `RetrySession!FairSpec`: requests, loop and
workers go on; no timeout is assumed to fire. Requests, answers, cancels, faults,
crashes and shutdown are never forced.

## 5. Proofs

All theorems hold for any values of the constants that satisfy the named
assumptions (`QueueAssumption`, `AdmissionAssumption`, `SendsAssumption`,
`DeliveryAssumption`, `LockAssumption`, `TurnsAssumption`, `LauncherAssumption`,
`RetryAssumption`, `DagAssumption`, `BoundAssumption`: the constants have their
types, the "none" values are not elements of the sets they stand beside, and a
pipeline is a finite graph whose parents come before their children). None of
them assumes fairness.

- `AdmissionQueue_proofs`: each operation keeps `Well(q)`: the queue has its
  type, the order lists exactly the roots with a non-empty list, each once, every
  entry is in the list of its root, and the cursor is inside the order (or 0). The removal of a root and the cursor after
  it is the delicate case (`DropRootKeepsWell`, `DequeueKeepsWell`).
- `AdmissionQueue_proofs!QueueAlwaysWellFormed`, about
  `AdmissionQueueDrain`: `DrainSpec => []QueueWellFormed`. The inductive invariant adds to
  `Well(admissionQueue)` that what a drain pass holds is a run: otherwise putting it back would not
  keep the lists typed.
- `AdmissionQueue_proofs!EachArrivalAlwaysOnce`: `DrainSpec => []EachArrivalOnce`.
  A count of copies is not inductive in itself: a put-back adds one copy and is
  right only if there was none. `OnceInv` says that no list has a run twice, that
  what the drain holds is in no list, and that the runs listed or held are those
  that arrived and have not left.
- `RunAdmission_proofs!TypeCorrect`: `Spec => []TypeOK`. `TypeOK` alone is not
  inductive: a drain step takes the run out of the queue, so the invariant is
  `TypeOK`, `Well(queue)` and "the drain holds a run exactly when it is not idle".
- `RunAdmission_proofs!ProvisionalAlwaysOwned`: no reservation is abandoned.
  Inductive on top of the type invariant; each start and drain step changes its
  own provisional id and its own control state together.
- `RunAdmission_proofs!LeasesAlwaysMatch`: a checkout is leased to at most one
  entry and no lease outlives its entry. Uses ownership of provisional entries:
  tracking moves a lease from a provisional id to the run id, which is right
  only if the provisional entry is still there.
- `RunAdmission_proofs!LeaseTableImplemented`: `Spec => Leases!Spec`. The initial
  states map to the abstract one, and each action maps to `Enter`, `Leave`,
  `Restart` or a stutter. The argument needs the type invariant, ownership and
  `LeasesMatchEntries`: only then is the checkout of a removed entry leased to
  that entry, so that removing both is a `Leave`.
- `RunAdmission_proofs!QueuedRunNeverLost`: `Spec => []QueuedRunNotLost`.
  `NotLostInv` adds to "listed at most once and not while held" what each run
  may be in the middle of: only its start works on a run that the store does not
  have (`AbsentUntouched`), a start stores the row first and enqueues after that
  (`StartInOrder`), startup serves no starts and enqueues every run once
  (`BootInOrder`), a cancel or a drain that is about to drop a run has changed its
  stored status before (`DropsAreDecided`), and somebody still looks at a run that
  is stored as queued (`QueuedExpected`).
- `RunAdmission_proofs!CancelledNeverActivated`: `Spec => CancelledNotActivated`, an
  action property. Each writer of `running` is shown to look at the status in the
  same step, or to work for a run that nobody can have cancelled, which follows
  from `NotLostInv`.
- `RunAdmission_proofs!LimitsAlwaysRespected`: `[]LimitsRespected` for a host with
  `AdmittedOnly` (nothing asks, the store starts empty, no crash, one number of
  slots). The hypothesis is needed: attaching and resuming track runs over the
  limits on purpose, and the operator may lower the number of slots below the
  runs in progress. `run_admission` is such a host. Admission checks once and the entry
  then changes its id up to twice; the proof shows that each step adds an entry
  that was just checked, replaces an entry by one of the same run, or removes some.
- `Channels_proofs!AlwaysAtMostOnce`. `OnceInv`: a submission under way is
  `pending` in memory and in the file (`WrittenAhead`), and a key that was ever
  submitted keeps a record in both until its age drops it (`SentIsRecorded`).
  The second is what a restart needs.
- `Channels_proofs!AnswersAlwaysTrue`. `TruthInv`: a record that says
  `submitted` is of a message that was taken; one that says `failed` says so in
  the file too, and is of one that was not. A refusal that cannot be written
  becomes `unknown` in the code for exactly this reason.
- `Channels_proofs!AlwaysSingleFlight`, `MarkerAlwaysAgrees`,
  `AttemptsAlwaysBounded`, `NeverResent`. `FlightInv`: a send belongs to a row
  that is `sending` or was confirmed meanwhile. `AttemptInv`: a planned retry is
  of a reply that cannot have arrived and has a wait left. So a sweep with a stale
  list claims only what the row still plans.
- `ProfileLock_proofs!ExclusiveInOneProcess`: if all runs and cancels belong to one
  process, `[](EntitledExclusive /\ EntitledKeepsFile)`, for any number of runs,
  cancels and retries. It says what the lock file can promise and no more: a
  cancelled run, and one retried under its cancel, may use the profile beside the
  entitled one. `OneProcessInv` says that the chain holds the operations under way,
  each once, and only its head is worked on (`Order`), that the run of a cancel
  under way is terminal or was retried under it (`CancelMarks`), that a lock about
  to be dropped names a run that is not entitled and, if it is live again, asks for
  the lock behind the run that drops it (`StaleStays`), that nobody has linked a
  lock while one is renamed away (`RenamedAway`), that a lock to be removed is still
  there (`Removable`), and where the lock of an entitled run is (`HolderHas`). The
  hypothesis is needed: with two processes it is false.
- `AgentTurns_proofs!ToolAlwaysApproved`, `PendingAlwaysAwaited`, `ApprovalsKept`,
  `FinalAlwaysFinal` and `TurnsTypeCorrect`, for any turns, tools, payloads and
  bounds. `ToolAlwaysApproved` is about the arguments and not about the tool;
  `FinalAlwaysFinal` keeps a turn that failed or was cancelled, and lets one that
  succeeded exchange its status only with the mark of an undelivered reply.
  `TurnsInv` relates the three places that know of an approval: a conversation
  agrees with the row of its call, in the payload and in the answer it was woken
  with (`RowOK`), only the newest row may be
  pending and then its turn's conversation sees to it (`RaisedOK`), the stored
  status of a turn follows its conversation (`TurnOK`), and a turn other than the
  opening one is at work only at the head of the chain (`ChainServes`). Without `RaisedOK` a decision or a
  deadline could meet a row whose conversation has gone on to another.
- `StageLauncher_proofs!SlotsAlwaysConserved` and `CancelAlwaysCoversWorkers`, with
  `LauncherTypeCorrect`, for any launches (also infinitely many), runs and limits.
  `SlotsInv`: the queue has only launches that wait, each once, and the launches
  with a slot are finitely many and counted by `slotsHeld`. `WorkersInv`: `active`
  names each worker whose stage was launched once (`ActiveNames`), and a cancel
  awaits workers of its own run only (`AwaitsOwn`). The queue's part is what a release needs: the launch it wakes holds no
  slot yet. What the pass over the wait queue returns (`WithoutKeeps`) is shown by
  the least index at which its recursive function would leave the definition,
  since an induction schema cannot be used.
- `PipelineScheduler_proofs!PipelineTyped` and `LoopsWithinLimit`: `Spec => []TypeOK`
  and, for each loop, at most `MaxActive` stages in flight, for every pipeline and
  any number of answers. The second rests on `FirstAtMost` (the first n stages of
  a set in pipeline order are at most n), shown by the least number of stages for
  which it would fail, and on the fact that only a pass of the loop or the resume
  that precedes it puts something in flight.
- `PipelineScheduler_proofs!StartedOnlyWhenReady`, `SuccessAsRouted`,
  `OutcomeAlwaysExplained`, `RunWithinStageLimit`: `Spec => [](Unanswered => ...)`, and
  `SettledForGood`: `Spec /\ []Unanswered => SettledStays`. `Unanswered` says that no
  question of a stage was answered yet, so that the loop of the run's start is
  alone; asking, failing, repairs, failed preparations, missing route fields and a
  cancel at every point are all in. The hypothesis is needed for a theorem over
  all pipelines: after an answer a second loop works on a copy of its own, the
  stored outcome may contradict the stages (run `pipeline_two_loops`), a stage may be
  started twice, the two together may exceed the limit, and a resumed run whose preparation failed
  unrecorded may open skipped stages again. `FirstLoopInv` relates the loop's copy
  to the store: what is in flight is what the copy has as active (`Busy`), copy and
  store agree except for results the loop has not heard of, marks of a cancel,
  unrecorded failures and what a halted loop drops (`Agreement`); what was started
  was ready and stays so (`StartedReady`); what was skipped has a reason that no
  later step removes (`SkippedForReason`), which is why nothing is ever reopened
  (`NothingReopened`); a stage its only parent rules out does not stay pending
  (`SkippedEagerly`), which is why a run that ends without a halt has decided every
  stage; a loop halts, and is left, only for the reasons the outcome names
  (`HaltedForReason`, `LeftForReason`); and what was stored at the end (`Ended`).
  Without `SkippedEagerly` and `LeftForReason` the outcome does not follow, without
  `SkippedForReason` nothing keeps a success from reopening a stage.
  `Cascade` is the least set closed under a rule: that it is a fixpoint is proved
  from its monotonicity. `Routed` of `SucceededAsRouted` is compared with the stored
  stages at the first stage, in pipeline order, at which they would differ.
- `RetrySession_proofs!NobodyEverLeftBehind`: `Spec => []NobodyLeftBehind`, for any
  stages, requests and time-outs. `RetryInv` adds that outside a session no stage
  is a root (so nobody begins to wait for one that is gone) and that a request
  holding a stage has one. The property has two parts. `StagesHeld`: uniqueness of
  the holder is what lets the end of a request free its stage. `OwnerAtWork`: that
  the owner of the start never waits itself, and that the start and the end of
  its request both wake the others, excludes a circle of waits.
- `LedgerTypeCorrect` and `TypeCorrect` of `Channels_proofs`, and `TypeCorrect` of
  `ProfileLock_proofs`. `Channels_proofs` extends `ChannelSends` and `ReplyDelivery`,
  and `RunAdmission_proofs` reaches `AdmissionQueueDrain` through the queue's lemmas;
  therefore the specifications of the ledger and of the drain have names of their
  own (`LedgerSpec`, `DrainSpec`).

Only model-checked: all liveness (fairness and `ENABLED` are outside the
prover's reach); `PositionIsTurn` and `HeadServedWithinOneRound` (they compare with
iterated dequeuing, an induction over data); and the safety of `PipelineScheduler`
past the first answer, apart from its types and the limit per loop:
`pipeline_schedule` checks it for answers at rest. The limit of the whole run is
proved until the first answer and checked by no run.

## 6. Not modelled

Listed in `PROJECT.json` with reasons. Planned and not done: feedback loops and
clones, trigger sources and submissions. Of the run manager: `abandonStage`,
`deleteRun`, `decideFeedbackLoop` and in-process live waits.

Most of the repository's 262,000 lines are out of reach for another reason: the
web interface, HTTP routes and clients, SQL, the language model adapters, YAML
validation, prompts and evaluations are formatting, text processing or I/O in
front of the state modelled here, or hold no state of their own. A model of them
would restate them; what they contribute to the modelled parts is kept as a
nondeterministic outcome (a stage fails or asks, a provider answers or does not, a
request arrives). The models therefore cover a small share of the lines and the
larger part of the host's concurrent control.
