---------------------------- MODULE ProfileLock ----------------------------
(***************************************************************************)
(* The lease of a run on a browser profile: the lock file of               *)
(* src/browser/localProfileLock.ts, the wait of stageProfileLock.ts, and   *)
(* the release by a run that ends and by cancelRun (browserTeardown.ts,    *)
(* runManager.ts).                                                         *)
(*                                                                         *)
(* An action is one operation on the file system (link, read, rename and   *)
(* rm are atomic) or one look at the liveness of a run.  The operations of *)
(* a process on the file are chained; those of two processes interleave.   *)
(* Temporary names are unique, so only the lock file itself is shared; a   *)
(* file that cannot be parsed is not modelled.                             *)
(*                                                                         *)
(* A run is followed through one stage that uses the profile, one loop at  *)
(* a time.  A cancel is an actor of its own: it makes the run terminal,    *)
(* ends its workers, closes its browsers and releases its lock, while the  *)
(* run's loop goes on, and a run that was cancelled may be retried before  *)
(* the cancel is through.                                                  *)
(***************************************************************************)
EXTENDS Integers, Sequences, FiniteSets

CONSTANTS
    Runs,
    Cancels,     \* requests to cancel a run
    RunOf,       \* the run of an actor: itself, or the run of a cancel
    Processes,
    ProcOf,      \* the process that an actor's lock operations belong to
    Checkers,    \* runs whose acquire looks at the liveness of the holder
    Leaving,     \* bound: runs that may end in another way than by their loop's end
    Retryable,   \* bound: runs that may be retried when they are over
    MaxRetries,  \* bound: times a run is retried
    None

MaxTries == 3    \* attempts of one acquire

Actors == Runs \cup Cancels

ASSUME LockAssumption ==
    /\ Runs \cap Cancels = {}
    /\ RunOf \in [Actors -> Runs]
    /\ \A r \in Runs : RunOf[r] = r
    /\ ProcOf \in [Actors -> Processes]
    /\ Checkers \subseteq Runs /\ Leaving \subseteq Runs /\ Retryable \subseteq Runs
    /\ MaxRetries \in Nat
    /\ None \notin Runs

VARIABLES
    file,     \* the run the lock file names
    live,     \* runs that are not terminal
    at,       \* progress of each run and each cancel
    seen,     \* the holder that was read
    tomb,     \* the lock that was renamed away
    tries,    \* attempts of the acquire
    chain,    \* operations of each process, by their actors
    halted,   \* runs whose loop is told to halt
    retried,  \* runs whose loop is that of a retry
    revived,  \* history: runs last retried while a cancel of theirs was under way
    retries

ends == <<halted, retried, revived, retries>>
vars == <<file, live, at, seen, tomb, tries, chain, ends>>

Init ==
    /\ file = None
    /\ live = Runs
    /\ at = [a \in Actors |-> "idle"]
    /\ seen = [r \in Runs |-> None]
    /\ tomb = [r \in Runs |-> None]
    /\ tries = [r \in Runs |-> 0]
    /\ chain = [p \in Processes |-> << >>]
    /\ halted = {} /\ retried = {} /\ revived = {} /\ retries = 0

-----------------------------------------------------------------------------
(* The chain of a process                                                  *)

\* The operation of a is the one its process works on.
Turn(a) == chain[ProcOf[a]] # << >> /\ Head(chain[ProcOf[a]]) = a

\* Mutant: operations are not chained.
MutantUnchained(a, s) ==
    /\ at' = [at EXCEPT ![a] = s]
    /\ chain' = [chain EXCEPT ![ProcOf[a]] = <<a>> \o @]

\* a asks for an operation that starts with s.
Enqueue(a, s) ==
    /\ at' = [at EXCEPT ![a] = s]
    /\ chain' = [chain EXCEPT ![ProcOf[a]] = Append(@, a)]

\* The operation of a goes on with s, or ends in s.
Goto(a, s) == at' = [at EXCEPT ![a] = s] /\ UNCHANGED chain
Done(a, s) ==
    /\ at' = [at EXCEPT ![a] = s]
    /\ chain' = [chain EXCEPT ![ProcOf[a]] = Tail(@)]

-----------------------------------------------------------------------------
(* acquire                                                                 *)

\* A loop that was cancelled meanwhile asks all the same.
Acquire(r) ==
    /\ at[r] \in {"idle", "polled"}
    /\ Enqueue(r, "create")
    /\ tries' = [tries EXCEPT ![r] = 1]
    /\ UNCHANGED <<file, live, seen, tomb, ends>>

\* acquire returned "queued": a loop that is told to halt gives up.
Queued(r) == IF r \in halted THEN "ending" ELSE "queued"

\* The next attempt, or the end of the last one.
TryAgain(r) ==
    IF tries[r] < MaxTries
    THEN Goto(r, "create") /\ tries' = [tries EXCEPT ![r] = @ + 1]
    ELSE Done(r, Queued(r)) /\ UNCHANGED tries

\* createExclusive: the link succeeds only where there is no lock.
CreateExclusive(r) ==
    /\ at[r] = "create" /\ Turn(r)
    /\ IF file = None
       THEN file' = r /\ Done(r, "held")
       ELSE UNCHANGED file /\ Goto(r, "read")
    /\ UNCHANGED <<live, seen, tomb, tries, ends>>

\* Another stage of the run that holds the lease joins it.
ReadHolder(r) ==
    /\ at[r] = "read" /\ Turn(r)
    /\ \/ file = None /\ TryAgain(r) /\ UNCHANGED seen
       \/ file = r /\ Done(r, "held") /\ UNCHANGED <<seen, tries>>
       \/ /\ file \notin {None, r}
          /\ seen' = [seen EXCEPT ![r] = file]
          /\ IF r \in Checkers THEN Goto(r, "judge") ELSE Done(r, Queued(r))
          /\ UNCHANGED tries
    /\ UNCHANGED <<file, live, tomb, ends>>

\* The holder's run is live, or its lock is to be dropped.
Judge(r) ==
    /\ at[r] = "judge" /\ Turn(r)
    /\ IF seen[r] \in live THEN Done(r, Queued(r)) ELSE Goto(r, "rename")
    /\ UNCHANGED <<file, live, seen, tomb, tries, ends>>

-----------------------------------------------------------------------------
(* reclaimStale, as a waiting run calls it                                 *)

\* The lock is read outside the chain; acquire is asked again after the sweep.
SweepRead(r) ==
    /\ at[r] = "queued"
    /\ seen' = [seen EXCEPT ![r] = file]
    /\ at' = [at EXCEPT ![r] = IF file = None THEN "polled" ELSE "sweep"]
    /\ UNCHANGED <<file, live, tomb, tries, chain, ends>>

\* Mutant: a waiting run asks again and never looks whether the holder lives.
MutantSweepNobody(r) ==
    /\ at[r] = "sweep"
    /\ Goto(r, "polled")
    /\ tries' = [tries EXCEPT ![r] = 0]
    /\ UNCHANGED <<file, live, seen, tomb, ends>>

\* So is the holder's liveness; dropStale waits for its turn in the chain.
SweepJudge(r) ==
    /\ at[r] = "sweep"
    /\ IF seen[r] \in live THEN Goto(r, "polled") ELSE Enqueue(r, "rename")
    /\ tries' = [tries EXCEPT ![r] = 0]
    /\ UNCHANGED <<file, live, seen, tomb, ends>>

-----------------------------------------------------------------------------
(* dropStale                                                               *)

\* The lock is out of the way: acquire tries again, a sweep is done.
Dropped(r) ==
    IF tries[r] = 0 THEN Done(r, "polled") /\ UNCHANGED tries ELSE TryAgain(r)

\* The lock, whoever holds it now, is renamed away.
Rename(r) ==
    /\ at[r] = "rename" /\ Turn(r)
    /\ IF file = None
       THEN Dropped(r) /\ UNCHANGED <<file, tomb>>
       ELSE /\ tomb' = [tomb EXCEPT ![r] = file]
            /\ file' = None
            /\ Goto(r, "inspect") /\ UNCHANGED tries
    /\ UNCHANGED <<live, seen, ends>>

\* What was renamed is read again: it is removed if it is the stale one.
Inspect(r) ==
    /\ at[r] = "inspect" /\ Turn(r)
    /\ IF tomb[r] = seen[r]
       THEN tomb' = [tomb EXCEPT ![r] = None] /\ Dropped(r)
       ELSE Goto(r, "restore") /\ UNCHANGED <<tomb, tries>>
    /\ UNCHANGED <<file, live, seen, ends>>

\* Another run's lock is linked back, unless there is a new one by now.
Restore(r) ==
    /\ at[r] = "restore" /\ Turn(r)
    /\ file' = IF file = None THEN tomb[r] ELSE file
    /\ tomb' = [tomb EXCEPT ![r] = None]
    /\ Done(r, IF tries[r] = 0 THEN "polled" ELSE Queued(r))
    /\ UNCHANGED <<live, seen, tries, ends>>

-----------------------------------------------------------------------------
(* The end of a run                                                        *)

\* The loop's end: the run's browsers are closed, then its lock is released,
\* then its status is terminal.
Finish(r) ==
    /\ at[r] \in {"held", "polled"}
    /\ at' = [at EXCEPT ![r] = "ending"]
    /\ UNCHANGED <<file, live, seen, tomb, tries, chain, ends>>

\* A resume that failed, or the abandoning of the last stage at work: the run
\* is terminal first, and its browsers are closed after that.
Fail(r) ==
    /\ r \in Leaving /\ at[r] \in {"held", "polled"}
    /\ live' = live \ {r}
    /\ at' = [at EXCEPT ![r] = IF @ = "held" THEN "closing" ELSE "ending"]
    /\ UNCHANGED <<file, seen, tomb, tries, chain, ends>>

CloseBrowsers(r) ==
    /\ at[r] = "closing"
    /\ at' = [at EXCEPT ![r] = "ending"]
    /\ UNCHANGED <<file, live, seen, tomb, tries, chain, ends>>

\* The browsers are closed, but releasing fails, or the host stopped first.
Abandon(r) ==
    /\ r \in Leaving /\ at[r] \in {"held", "polled"}
    /\ live' = live \ {r}
    /\ at' = [at EXCEPT ![r] = "over"]
    /\ UNCHANGED <<file, seen, tomb, tries, chain, ends>>

\* A run whose release is through has its terminal status; a cancel wrote it.
Ended(a) == live' = live \ ({a} \cap Runs)

\* releaseOwner: releaseFile is asked for when the lock names the run.
ReleaseOwner(a) ==
    /\ at[a] = "ending"
    /\ IF file = RunOf[a] THEN Enqueue(a, "release") /\ UNCHANGED live
       ELSE Goto(a, "over") /\ Ended(a)
    /\ UNCHANGED <<file, seen, tomb, tries, ends>>

\* releaseFile reads the lock again and removes it in a second operation.
Release(a) ==
    /\ at[a] = "release" /\ Turn(a)
    /\ IF file = RunOf[a] THEN Goto(a, "remove") /\ UNCHANGED live
       ELSE Done(a, "over") /\ Ended(a)
    /\ UNCHANGED <<file, seen, tomb, tries, ends>>

Remove(a) ==
    /\ at[a] = "remove" /\ Turn(a)
    /\ file' = None
    /\ Done(a, "over") /\ Ended(a)
    /\ UNCHANGED <<seen, tomb, tries, ends>>

-----------------------------------------------------------------------------
(* cancelRun and retry                                                     *)

\* The run is stored as cancelled; nothing of it has been ended yet.
Cancel(c) ==
    /\ at[c] = "idle" /\ RunOf[c] \in live
    /\ live' = live \ {RunOf[c]}
    /\ at' = [at EXCEPT ![c] = "cancelled"]
    /\ UNCHANGED <<file, seen, tomb, tries, chain, ends>>

\* The loop's halt object is set; the loop of a retry has none.
Halt(c) ==
    /\ at[c] = "cancelled"
    /\ halted' = halted \cup ({RunOf[c]} \ retried)
    /\ at' = [at EXCEPT ![c] = "closing"]
    /\ UNCHANGED <<file, live, seen, tomb, tries, chain, retried, revived, retries>>

\* The workers have ended and the browsers are closed, unless the loop took
\* the lock meanwhile and starts a worker only now.
CancelClose(c) ==
    LET r == RunOf[c] IN
    /\ at[c] = "closing"
    /\ \/ at' = [at EXCEPT ![c] = "ending"]
       \/ at[r] = "held" /\ at' = [at EXCEPT ![c] = "ending", ![r] = "ending"]
    /\ UNCHANGED <<file, live, seen, tomb, tries, chain, ends>>

UnderWay(c) == at[c] \notin {"idle", "over"}

\* A run that is over, a cancelled one too, is retried and is live again.
Retry(r) ==
    /\ r \in Retryable /\ at[r] = "over" /\ retries < MaxRetries
    /\ retries' = retries + 1
    /\ live' = live \cup {r}
    /\ at' = [at EXCEPT ![r] = "idle"]
    /\ halted' = halted \ {r} /\ retried' = retried \cup {r}
    /\ revived' = IF \E c \in Cancels : RunOf[c] = r /\ UnderWay(c)
                  THEN revived \cup {r} ELSE revived \ {r}
    /\ UNCHANGED <<file, seen, tomb, tries, chain>>

Step(r) ==
    \/ CreateExclusive(r) \/ ReadHolder(r) \/ Judge(r)
    \/ SweepRead(r) \/ SweepJudge(r) \/ Rename(r) \/ Inspect(r) \/ Restore(r)
    \/ CloseBrowsers(r)
ReleaseStep(a) == ReleaseOwner(a) \/ Release(a) \/ Remove(a)

Next ==
    \/ \E r \in Runs :
          Acquire(r) \/ Step(r) \/ Finish(r) \/ Fail(r) \/ Abandon(r) \/ Retry(r)
    \/ \E a \in Actors : ReleaseStep(a)
    \/ \E c \in Cancels : Cancel(c) \/ Halt(c) \/ CancelClose(c)

Spec == Init /\ [][Next]_vars

\* Operations end, a waiting run asks for the lock again after each poll, a
\* run that has its profile comes to its end, and a cancel goes on.
FairSpec ==
    /\ Spec
    /\ \A r \in Runs :
          /\ WF_vars(Step(r)) /\ WF_vars(Acquire(r))
          /\ WF_vars(at[r] = "held" /\ (Finish(r) \/ Fail(r) \/ Abandon(r)))
    /\ \A a \in Actors : WF_vars(ReleaseStep(a))
    /\ \A c \in Cancels : WF_vars(Halt(c) \/ CancelClose(c))

-----------------------------------------------------------------------------
(* Properties                                                              *)

Steps == {"idle", "create", "read", "judge", "held", "queued", "sweep", "polled",
          "rename", "inspect", "restore", "cancelled", "closing", "ending",
          "release", "remove", "over"}

\* Runs that have a worker or a browser on the profile.
Users == {r \in Runs : at[r] \in {"held", "closing"}}

\* Users that are not terminal and were not retried under a cancel.
Entitled == (Users \cap live) \ revived

\* The lock, the chains and the actors are in states the code knows.
TypeOK ==
    /\ file \in Runs \cup {None}
    /\ live \subseteq Runs
    /\ at \in [Actors -> Steps]
    /\ seen \in [Runs -> Runs \cup {None}]
    /\ tomb \in [Runs -> Runs \cup {None}]
    /\ tries \in [Runs -> 0..MaxTries]
    /\ chain \in [Processes -> Seq(Actors)]
    /\ halted \subseteq Runs /\ retried \subseteq Runs
    /\ revived \subseteq Runs
    /\ retries \in 0..MaxRetries

\* One run at a time is entitled to the profile.  That one run at a time uses
\* it ("one run at a time", docs/browser.md:240) is false: a run stored as
\* cancelled keeps its browsers until its workers have ended, and a waiting run
\* finds it not live and takes the profile; and a run retried before its cancel
\* was through loses its lock to that cancel.
EntitledExclusive == Cardinality(Entitled) <= 1

\* The lock of an entitled run is in its place, except for the moment in which
\* somebody has renamed it away to look at it.
EntitledKeepsFile ==
    \A r \in Entitled : file = r \/ \E q \in Runs : tomb[q] = r

\* A run that waits for the profile gets it, or ends: a lock left behind by
\* a run that ended without a release does not block the profile for good.
WaiterServed == \A r \in Runs : at[r] = "queued" ~> at[r] \in {"held", "ending", "over"}
=============================================================================
