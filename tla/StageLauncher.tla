---------------------------- MODULE StageLauncher ----------------------------
(***************************************************************************)
(* The launcher of stage worker processes                                  *)
(* (src/runtime/stageProcessLauncher.ts): a bounded number of workers, a   *)
(* queue of launches that wait for one of them to end, and the             *)
(* cancellation of a run while its launches are anywhere in between.       *)
(*                                                                         *)
(* An action is what runs between two awaits.  A launch that got a slot    *)
(* and a launch that was woken both go on in a later microtask, so other   *)
(* operations come between the grant and the fork, and between the         *)
(* wake-up and the second look at the slots.                               *)
(***************************************************************************)
EXTENDS Integers, Sequences, FiniteSets

CONSTANTS
    Launches,   \* calls of launch
    Runs,
    RunOf,      \* the run of a launch
    KeyOf,      \* activeKey of a launch: its run and stage
    MaxActive,  \* maxActive; the unlimited launcher has no slots to model
    Cancels,    \* calls of cancelRun
    CancelOf    \* the run of a call of cancelRun

ASSUME LauncherAssumption ==
    /\ RunOf \in [Launches -> Runs]
    /\ MaxActive \in Nat \ {0}
    /\ CancelOf \in [Cancels -> Runs]
    /\ \A l, m \in Launches : KeyOf[l] = KeyOf[m] => RunOf[l] = RunOf[m]

VARIABLES
    pc,             \* progress of each launch
    slotsHeld,
    waitQueue,      \* launches that wait for a slot
    cancelledRuns,
    active,         \* the launches that the map `active` names, one per key
    alive,          \* launches whose worker process has not exited
    cancelling,     \* progress of each call of cancelRun
    awaited         \* the workers whose exit a call of cancelRun awaits

vars == <<pc, slotsHeld, waitQueue, cancelledRuns, active, alive, cancelling,
          awaited>>

LaunchStates == {"idle", "waiting", "woken", "granted", "running", "done"}

Init ==
    /\ pc = [l \in Launches |-> "idle"]
    /\ slotsHeld = 0
    /\ waitQueue = << >>
    /\ cancelledRuns = {}
    /\ active = {}
    /\ alive = {}
    /\ cancelling = [c \in Cancels |-> "idle"]
    /\ awaited = [c \in Cancels |-> {}]

-----------------------------------------------------------------------------
(* The slots                                                               *)

\* Mutant: the slot is given back, but no waiter is told.
MutantReleaseSilently(l, s) ==
    /\ slotsHeld' = slotsHeld - 1
    /\ pc' = [pc EXCEPT ![l] = s]
    /\ UNCHANGED waitQueue

\* Launch l moves to s and gives its slot back (releaseCapacity): the first
\* waiter is woken, and has to compete for the slot again.
Release(l, s) ==
    /\ slotsHeld' = slotsHeld - 1
    /\ IF waitQueue = << >>
       THEN /\ pc' = [pc EXCEPT ![l] = s]
            /\ UNCHANGED waitQueue
       ELSE /\ pc' = [pc EXCEPT ![l] = s, ![Head(waitQueue)] = "woken"]
            /\ waitQueue' = Tail(waitQueue)

\* Mutant: the slots are compared with <= instead of <.
MutantOneSlotTooMany(l) ==
    IF RunOf[l] \in cancelledRuns
    THEN /\ pc' = [pc EXCEPT ![l] = "done"]
         /\ UNCHANGED <<slotsHeld, waitQueue>>
    ELSE IF slotsHeld <= MaxActive
    THEN /\ pc' = [pc EXCEPT ![l] = "granted"]
         /\ slotsHeld' = slotsHeld + 1
         /\ UNCHANGED waitQueue
    ELSE /\ pc' = [pc EXCEPT ![l] = "waiting"]
         /\ waitQueue' = Append(waitQueue, l)
         /\ UNCHANGED slotsHeld

\* waitForCapacity up to its await: refused, granted, or queued at the back.
WaitForCapacity(l) ==
    IF RunOf[l] \in cancelledRuns
    THEN /\ pc' = [pc EXCEPT ![l] = "done"]
         /\ UNCHANGED <<slotsHeld, waitQueue>>
    ELSE IF slotsHeld < MaxActive
    THEN /\ pc' = [pc EXCEPT ![l] = "granted"]
         /\ slotsHeld' = slotsHeld + 1
         /\ UNCHANGED waitQueue
    ELSE /\ pc' = [pc EXCEPT ![l] = "waiting"]
         /\ waitQueue' = Append(waitQueue, l)
         /\ UNCHANGED slotsHeld

-----------------------------------------------------------------------------
(* launch and spawnAndWait                                                 *)

\* The call: an invalid email or channel binding fails it at once.
Launch(l) ==
    /\ pc[l] = "idle"
    /\ \/ WaitForCapacity(l)
       \/ pc' = [pc EXCEPT ![l] = "done"] /\ UNCHANGED <<slotsHeld, waitQueue>>
    /\ UNCHANGED <<cancelledRuns, active, alive, cancelling, awaited>>

\* The woken waiter looks at the slots again.
Retry(l) ==
    /\ pc[l] = "woken"
    /\ WaitForCapacity(l)
    /\ UNCHANGED <<cancelledRuns, active, alive, cancelling, awaited>>

\* After the grant: the run was cancelled meanwhile, or building the
\* environment or forking failed, and the slot is given back.
SpawnFails(l) ==
    /\ pc[l] = "granted"
    /\ Release(l, "done")
    /\ UNCHANGED <<cancelledRuns, active, alive, cancelling, awaited>>

\* Mutant: the flag is not looked at again after the grant.
MutantSpawnBlindly(l) ==
    /\ pc[l] = "granted"
    /\ pc' = [pc EXCEPT ![l] = "running"]
    /\ active' = {m \in active : KeyOf[m] # KeyOf[l]} \cup {l}
    /\ alive' = alive \cup {l}
    /\ UNCHANGED <<slotsHeld, waitQueue, cancelledRuns, cancelling, awaited>>

\* The worker is forked; the entry of an earlier worker of the same stage, if
\* there is one, is overwritten.
Spawn(l) ==
    /\ pc[l] = "granted"
    /\ RunOf[l] \notin cancelledRuns
    /\ pc' = [pc EXCEPT ![l] = "running"]
    /\ active' = {m \in active : KeyOf[m] # KeyOf[l]} \cup {l}
    /\ alive' = alive \cup {l}
    /\ UNCHANGED <<slotsHeld, waitQueue, cancelledRuns, cancelling, awaited>>

\* finish and cleanup: the entry of the key is deleted, whoever it names.
Finish(l) ==
    /\ Release(l, "done")
    /\ active' = {m \in active : KeyOf[m] # KeyOf[l]}

\* The worker reports its result (or the channel to it fails): the launch is
\* over although the process is still there.
Report(l) ==
    /\ pc[l] = "running"
    /\ Finish(l)
    /\ UNCHANGED <<cancelledRuns, alive, cancelling, awaited>>

\* The worker process exits, before or after it has reported.
Exit(l) ==
    /\ l \in alive
    /\ alive' = alive \ {l}
    /\ IF pc[l] = "running" THEN Finish(l)
       ELSE UNCHANGED <<pc, slotsHeld, waitQueue, active>>
    /\ UNCHANGED <<cancelledRuns, cancelling, awaited>>

-----------------------------------------------------------------------------
(* cancelRun                                                               *)

\* The waiters of q that are not of run r, in their order.
Without(q, r) ==
    LET kept[i \in 0..Len(q)] ==
          IF i = 0 THEN << >>
          ELSE IF RunOf[q[i]] = r THEN kept[i - 1]
          ELSE Append(kept[i - 1], q[i])
    IN  kept[Len(q)]

\* The flag is set, the waiters of the run are refused and its workers are
\* signalled; without a worker the flag is dropped at once.
CancelRun(c) ==
    LET r        == CancelOf[c]
        children == {l \in active : RunOf[l] = r}
    IN  /\ cancelling[c] = "idle"
        /\ pc' = [l \in Launches |->
                    IF pc[l] = "waiting" /\ RunOf[l] = r THEN "done" ELSE pc[l]]
        /\ waitQueue' = Without(waitQueue, r)
        /\ cancelledRuns' = IF children = {} THEN cancelledRuns \ {r}
                            ELSE cancelledRuns \cup {r}
        /\ cancelling' = [cancelling EXCEPT ![c] =
                            IF children = {} THEN "done" ELSE "waiting"]
        /\ awaited' = [awaited EXCEPT ![c] = children]
        /\ UNCHANGED <<slotsHeld, active, alive>>

\* Every signalled worker has exited.
CancelReturns(c) ==
    /\ cancelling[c] = "waiting"
    /\ awaited[c] \cap alive = {}
    /\ cancelling' = [cancelling EXCEPT ![c] = "done"]
    /\ cancelledRuns' = cancelledRuns \ {CancelOf[c]}
    /\ UNCHANGED <<pc, slotsHeld, waitQueue, active, alive, awaited>>

Next ==
    \/ \E l \in Launches : Launch(l) \/ Retry(l) \/ SpawnFails(l) \/ Spawn(l)
                             \/ Report(l) \/ Exit(l)
    \/ \E c \in Cancels : CancelRun(c) \/ CancelReturns(c)

Spec == Init /\ [][Next]_vars

\* A microtask that is due runs, and a worker ends: its stage has a timeout,
\* and a cancelled one is killed after the grace period.  Launches and
\* cancels are not forced to be requested.
FairSpec ==
    /\ Spec
    /\ \A l \in Launches :
          /\ WF_vars(Retry(l))
          /\ WF_vars(Spawn(l) \/ SpawnFails(l))
          /\ WF_vars(Exit(l))
    /\ \A c \in Cancels : WF_vars(CancelReturns(c))

-----------------------------------------------------------------------------
(* Properties                                                              *)

Holders == {l \in Launches : pc[l] \in {"granted", "running"}}

\* Every launch and every cancel is in a state the code knows.
TypeOK ==
    /\ pc \in [Launches -> LaunchStates]
    /\ slotsHeld \in Nat
    /\ waitQueue \in Seq(Launches)
    /\ cancelledRuns \subseteq Runs
    /\ active \subseteq Launches
    /\ alive \subseteq Launches
    /\ cancelling \in [Cancels -> {"idle", "waiting", "done"}]
    /\ awaited \in [Cancels -> SUBSET Launches]

\* The counter is the number of launches that hold a slot, on every path out
\* of launch and spawnAndWait, and never exceeds the limit: a path that
\* releases twice admits too many workers, one that forgets to release makes
\* the host lose a worker for good.
SlotsConserved ==
    /\ slotsHeld = Cardinality(Holders)
    /\ slotsHeld <= MaxActive

\* While a run is being cancelled, each of its running workers is one that
\* the cancel waits for, unless the same stage was launched twice.
CancelCoversWorkers ==
    \A l \in Launches :
        /\ pc[l] = "running"
        /\ RunOf[l] \in cancelledRuns
        /\ \A m \in Launches \ {l} : KeyOf[m] = KeyOf[l] => pc[m] = "idle"
        => \E c \in Cancels : cancelling[c] = "waiting" /\ l \in awaited[c]

\* A launch that was requested gets its result, however often newcomers take
\* the slot it was woken for.
LaunchReturns == \A l \in Launches : pc[l] # "idle" ~> pc[l] = "done"
=============================================================================
