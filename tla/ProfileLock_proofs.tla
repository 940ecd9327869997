------------------------- MODULE ProfileLock_proofs -------------------------
(***************************************************************************)
(* The lock of a profile keeps the runs that are entitled to it apart      *)
(* while all actors belong to one process, for any number of runs,         *)
(* cancels, retries and lost releases.                                     *)
(***************************************************************************)
EXTENDS ProfileLock, FiniteSetTheorems, TLAPS

\* The states in which an operation of an actor is in its process's chain, and
\* those in which it is the one that is worked on.
Chained == {"create", "read", "judge", "rename", "inspect", "restore", "release",
            "remove"}
Working == {"read", "judge", "inspect", "restore", "remove"}

\* What a step may do to the place of r and to the chains.
LEMMA PlaceTypes ==
    ASSUME TypeOK, NEW r \in Actors, NEW s \in Steps,
           \/ Enqueue(r, s)
           \/ Goto(r, s)
           \/ Turn(r) /\ Done(r, s)
    PROVE  /\ at' \in [Actors -> Steps]
           /\ chain' \in [Processes -> Seq(Actors)]
<1>1. /\ at \in [Actors -> Steps] /\ chain \in [Processes -> Seq(Actors)]
      /\ ProcOf[r] \in Processes
  BY LockAssumption DEF TypeOK, ends
<1>2. at' = [at EXCEPT ![r] = s]
  BY DEF Enqueue, Goto, Done
<1>3. CASE Enqueue(r, s)
  BY <1>1, <1>2, <1>3 DEF Enqueue
<1>4. CASE Goto(r, s)
  BY <1>1, <1>2, <1>4 DEF Goto
<1>5. CASE Turn(r) /\ Done(r, s)
  BY <1>1, <1>2, <1>5 DEF Turn, Done
<1> QED
  BY <1>3, <1>4, <1>5

\* The next attempt is a place, and one more attempt.
LEMMA TryAgainTypes ==
    ASSUME TypeOK, NEW r \in Runs, Turn(r), TryAgain(r)
    PROVE  /\ at' \in [Actors -> Steps]
           /\ chain' \in [Processes -> Seq(Actors)]
           /\ tries' \in [Runs -> 0..MaxTries]
<1>1. /\ tries \in [Runs -> 0..MaxTries] /\ {"create", "queued", "ending"} \subseteq Steps
      /\ r \in Actors
  BY DEF TypeOK, ends, Steps, Actors
<1>2. CASE tries[r] < MaxTries
  <2>1. Goto(r, "create") /\ tries' = [tries EXCEPT ![r] = @ + 1]
    BY <1>2 DEF TryAgain
  <2>2. tries[r] + 1 \in 0..MaxTries
    BY <1>1, <1>2 DEF MaxTries
  <2> QED
    BY <1>1, <2>1, <2>2, PlaceTypes
<1>3. CASE ~(tries[r] < MaxTries)
  BY <1>1, <1>3, PlaceTypes DEF TryAgain, Queued
<1> QED
  BY <1>2, <1>3

\* So is what follows a dropped lock.
LEMMA DroppedTypes ==
    ASSUME TypeOK, NEW r \in Runs, Turn(r), Dropped(r)
    PROVE  /\ at' \in [Actors -> Steps]
           /\ chain' \in [Processes -> Seq(Actors)]
           /\ tries' \in [Runs -> 0..MaxTries]
<1>1. "polled" \in Steps /\ tries \in [Runs -> 0..MaxTries] /\ r \in Actors
  BY DEF Steps, TypeOK, ends, Actors
<1>2. CASE tries[r] = 0
  BY <1>1, <1>2, PlaceTypes DEF Dropped
<1>3. CASE tries[r] # 0
  BY <1>3, TryAgainTypes DEF Dropped
<1> QED
  BY <1>2, <1>3

\* The file starts absent.
LEMMA TypeInit == Init => TypeOK
<1> SUFFICES ASSUME Init PROVE TypeOK
  OBVIOUS
<1>1. 0 \in 0..MaxTries /\ 0 \in 0..MaxRetries /\ "idle" \in Steps
  BY LockAssumption DEF MaxTries, Steps
<1>2. chain \in [Processes -> Seq(Actors)]
  BY DEF Init
<1> QED
  BY <1>1, <1>2 DEF Init, TypeOK, ends, Actors

\* Every step keeps the types.
LEMMA TypeNext == TypeOK /\ [Next]_vars => TypeOK'
<1> SUFFICES ASSUME TypeOK, [Next]_vars PROVE TypeOK'
  OBVIOUS
<1>s. /\ \A s \in {"create", "read", "judge", "held", "queued", "sweep", "polled",
                   "rename", "inspect", "restore", "cancelled", "closing",
                   "ending", "release", "remove", "over", "idle"} : s \in Steps
      /\ 0 \in 0..MaxTries /\ 1 \in 0..MaxTries
      /\ Runs \subseteq Actors /\ Cancels \subseteq Actors
  BY DEF Steps, MaxTries, Actors
<1>1. ASSUME NEW r \in Runs, Acquire(r) PROVE TypeOK'
  <2>1. Enqueue(r, "create")
    BY <1>1 DEF Acquire
  <2> QED
    BY <1>1, <1>s, <2>1, PlaceTypes DEF Acquire, TypeOK, ends
<1>2. ASSUME NEW r \in Runs, CreateExclusive(r) PROVE TypeOK'
  <2>1. Turn(r) /\ (Done(r, "held") \/ Goto(r, "read")) /\ file' \in {r, file}
    BY <1>2 DEF CreateExclusive
  <2> QED
    BY <1>2, <1>s, <2>1, PlaceTypes DEF CreateExclusive, TypeOK, ends
<1>3. ASSUME NEW r \in Runs, ReadHolder(r) PROVE TypeOK'
  <2>1. CASE TryAgain(r) /\ UNCHANGED seen
    BY <1>3, <2>1, TryAgainTypes DEF ReadHolder, TypeOK, ends
  <2>2. CASE ~(TryAgain(r) /\ UNCHANGED seen)
    <3>1. /\ Turn(r) /\ (Done(r, "held") \/ Done(r, "queued") \/ Done(r, "ending")
                          \/ Goto(r, "judge"))
          /\ seen' = seen \/ seen' = [seen EXCEPT ![r] = file]
          /\ UNCHANGED <<tries, file, live, tomb, ends>>
      BY <1>3, <2>2 DEF ReadHolder, Queued
    <3>2. seen' \in [Runs -> Runs \cup {None}]
      BY <3>1 DEF TypeOK, ends
    <3> QED
      BY <1>s, <3>1, <3>2, PlaceTypes DEF TypeOK, ends
  <2> QED
    BY <2>1, <2>2
<1>4. ASSUME NEW r \in Runs, Judge(r) PROVE TypeOK'
  <2>1. Turn(r) /\ (Done(r, "queued") \/ Done(r, "ending") \/ Goto(r, "rename"))
    BY <1>4 DEF Judge, Queued
  <2> QED
    BY <1>4, <1>s, <2>1, PlaceTypes DEF Judge, TypeOK, ends
<1>5. ASSUME NEW r \in Runs, SweepRead(r) PROVE TypeOK'
  BY <1>5, <1>s DEF SweepRead, TypeOK, ends
<1>6. ASSUME NEW r \in Runs, SweepJudge(r) PROVE TypeOK'
  <2>1. Goto(r, "polled") \/ Enqueue(r, "rename")
    BY <1>6 DEF SweepJudge
  <2> QED
    BY <1>6, <1>s, <2>1, PlaceTypes DEF SweepJudge, TypeOK, ends
<1>7. ASSUME NEW r \in Runs, Rename(r) PROVE TypeOK'
  <2>1. CASE file = None
    BY <1>7, <2>1, DroppedTypes DEF Rename, TypeOK, ends
  <2>2. CASE file # None
    <3>1. /\ Goto(r, "inspect") /\ tomb' = [tomb EXCEPT ![r] = file] /\ file' = None
          /\ UNCHANGED <<tries, live, seen, ends>>
      BY <1>7, <2>2 DEF Rename
    <3> QED
      BY <1>s, <3>1, PlaceTypes DEF TypeOK, ends
  <2> QED
    BY <2>1, <2>2
<1>8. ASSUME NEW r \in Runs, Inspect(r) PROVE TypeOK'
  <2>1. CASE tomb[r] = seen[r]
    BY <1>8, <2>1, DroppedTypes DEF Inspect, TypeOK, ends
  <2>2. CASE tomb[r] # seen[r]
    <3>1. Goto(r, "restore") /\ UNCHANGED <<file, live, seen, tomb, tries, ends>>
      BY <1>8, <2>2 DEF Inspect
    <3> QED
      BY <1>s, <3>1, PlaceTypes DEF TypeOK, ends
  <2> QED
    BY <2>1, <2>2
<1>9. ASSUME NEW r \in Runs, Restore(r) PROVE TypeOK'
  <2>1. Turn(r) /\ (Done(r, "polled") \/ Done(r, "queued") \/ Done(r, "ending"))
    BY <1>9 DEF Restore, Queued
  <2>2. /\ file' \in Runs \cup {None} /\ tomb' \in [Runs -> Runs \cup {None}]
        /\ UNCHANGED <<live, seen, tries, ends>>
    BY <1>9 DEF Restore, TypeOK, ends
  <2> QED
    BY <1>s, <2>1, <2>2, PlaceTypes DEF TypeOK, ends
<1>10. ASSUME NEW r \in Runs,
              Finish(r) \/ Fail(r) \/ CloseBrowsers(r) \/ Abandon(r) \/ Retry(r)
       PROVE  TypeOK'
  <2>1. /\ live' \subseteq Runs /\ retries' \in 0..MaxRetries
        /\ halted' \subseteq Runs /\ retried' \subseteq Runs /\ revived' \subseteq Runs
        /\ UNCHANGED <<file, seen, tomb, tries, chain>>
    BY <1>10, LockAssumption
       DEF Finish, Fail, CloseBrowsers, Abandon, Retry, TypeOK, ends
  <2>2. at' \in [Actors -> Steps]
    BY <1>10, <1>s DEF Finish, Fail, CloseBrowsers, Abandon, Retry, TypeOK
  <2> QED
    BY <2>1, <2>2 DEF TypeOK
<1>11. ASSUME NEW a \in Actors, ReleaseStep(a) PROVE TypeOK'
  <2>1. /\ file' \in {file, None} /\ live' \subseteq live
        /\ UNCHANGED <<seen, tomb, tries, ends>>
    BY <1>11 DEF ReleaseStep, ReleaseOwner, Release, Remove, Ended
  <2>2. \/ Enqueue(a, "release") \/ Goto(a, "over") \/ Goto(a, "remove")
        \/ Turn(a) /\ Done(a, "over")
    BY <1>11 DEF ReleaseStep, ReleaseOwner, Release, Remove
  <2>3. at' \in [Actors -> Steps] /\ chain' \in [Processes -> Seq(Actors)]
    BY <1>s, <2>2, PlaceTypes
  <2> QED
    BY <2>1, <2>3 DEF TypeOK, ends
<1>12. ASSUME NEW c \in Cancels, Cancel(c) \/ Halt(c) \/ CancelClose(c) PROVE TypeOK'
  <2>1. /\ live' \subseteq Runs /\ halted' \subseteq Runs
        /\ UNCHANGED <<file, seen, tomb, tries, chain, retried, revived, retries>>
    BY <1>12, <1>s, LockAssumption DEF Cancel, Halt, CancelClose, TypeOK, ends
  <2>2. at' \in [Actors -> Steps]
    BY <1>12, <1>s DEF Cancel, Halt, CancelClose, TypeOK
  <2> QED
    BY <2>1, <2>2 DEF TypeOK
<1>13. CASE UNCHANGED vars
  BY <1>13 DEF vars, TypeOK, ends
<1> QED
  BY <1>1, <1>2, <1>3, <1>4, <1>5, <1>6, <1>7, <1>8, <1>9, <1>10, <1>11, <1>12,
     <1>13 DEF Next, Step

\* The lock, the chains and the places of the actors keep their types.
THEOREM TypeCorrect == Spec => []TypeOK
BY TypeInit, TypeNext, PTL DEF Spec

-----------------------------------------------------------------------------
(* One process                                                             *)

\* Every actor's operations are chained by process p.
OneProcess(p) == \A a \in Actors : ProcOf[a] = p

\* q's operation comes before s's.
Before(p, q, s) ==
    \E i, j \in 1..Len(chain[p]) : i < j /\ chain[p][i] = q /\ chain[p][j] = s

\* The chain holds the operations that are under way, each once, and only the
\* first of them is worked on.
Order(p) ==
    /\ \A i, j \in 1..Len(chain[p]) : chain[p][i] = chain[p][j] => i = j
    /\ \A i \in 1..Len(chain[p]) : at[chain[p][i]] \in Chained
    /\ \A r \in Actors : at[r] \in Chained =>
                            \E i \in 1..Len(chain[p]) : chain[p][i] = r
    /\ \A r \in Actors : at[r] \in Working => Len(chain[p]) >= 1 /\ chain[p][1] = r

\* The run of a cancel that is under way is terminal, or was retried under it.
CancelMarks ==
    \A c \in Cancels : UnderWay(c) => RunOf[c] \notin live \/ RunOf[c] \in revived

\* s is not entitled to the profile, and will not be before q's operation is
\* through: if it is live again, it asks for the lock behind q.
NotBefore(p, q, s) ==
    \/ s \notin live \/ s \in revived
    \/ at[s] = "idle"
    \/ at[s] = "create" /\ Before(p, q, s)

\* A lock that is to be dropped names such a run.
StaleStays(p) ==
    \A q \in Runs : at[q] \in {"rename", "inspect"} /\ seen[q] \in Runs =>
                        NotBefore(p, q, seen[q])

\* A lock that was renamed away has no successor yet, one that is to be removed
\* is still there, and that of an entitled run is in its place or in the hands
\* of the run that looks at it.
RenamedAway ==
    \A q \in Runs : at[q] \in {"inspect", "restore"} => file = None /\ tomb[q] \in Runs
Removable == \A a \in Actors : at[a] = "remove" => file = RunOf[a]
HolderHas ==
    \A r \in Entitled :
        \/ file = r
        \/ \E q \in Runs : at[q] \in {"inspect", "restore"} /\ tomb[q] = r
LockInv == RenamedAway /\ Removable /\ HolderHas

OneProcessInv(p) == TypeOK /\ Order(p) /\ CancelMarks /\ StaleStays(p) /\ LockInv

\* The ways in which the operation of an actor gets ahead.
Asks(r) == /\ at[r] \notin Chained
           /\ \E s \in Chained \ Working : Enqueue(r, s)
GoesOn(r) == at[r] \in Chained /\ Turn(r) /\ \E s \in Chained : Goto(r, s)
Ends(r) == at[r] \in Chained /\ Turn(r) /\ \E s \in Steps \ Chained : Done(r, s)
Elsewhere(r) == at[r] \notin Chained /\ \E s \in Steps \ Chained : Goto(r, s)
Moves(r) == Asks(r) \/ GoesOn(r) \/ Ends(r) \/ Elsewhere(r)

RunStep(r) ==
    Acquire(r) \/ Step(r) \/ Finish(r) \/ Fail(r) \/ Abandon(r) \/ Retry(r)

\* The steps that move one actor: all but the last step of a cancel.
ActorStep(a) ==
    \/ a \in Runs /\ RunStep(a)
    \/ ReleaseStep(a)
    \/ a \in Cancels /\ (Cancel(a) \/ Halt(a))

\* Every such step is one of the ways.
LEMMA StepMoves ==
    ASSUME TypeOK, NEW r \in Actors, ActorStep(r)
    PROVE  Moves(r)
<1>s. /\ Chained \ Working = {"create", "rename", "release"}
      /\ Steps \ Chained = {"idle", "held", "queued", "sweep", "polled", "cancelled",
                            "closing", "ending", "over"}
  BY DEF Chained, Working, Steps
<1>1. CASE r \in Runs /\ Acquire(r)
  BY <1>1, <1>s DEF Acquire, Moves, Asks, Chained
<1>2. CASE r \in Runs /\ (CreateExclusive(r) \/ Judge(r) \/ Restore(r))
  <2>1. Turn(r) /\ at[r] \in Chained
    BY <1>2 DEF CreateExclusive, Judge, Restore, Chained
  <2>2. \/ Done(r, "held") \/ Done(r, "queued") \/ Done(r, "polled")
        \/ Done(r, "ending") \/ Goto(r, "read") \/ Goto(r, "rename")
    BY <1>2 DEF CreateExclusive, Judge, Restore, Queued
  <2> QED
    BY <1>s, <2>1, <2>2 DEF Moves, GoesOn, Ends, Chained
<1>3. CASE r \in Runs /\ (ReadHolder(r) \/ Rename(r) \/ Inspect(r))
  <2>1. Turn(r) /\ at[r] \in Chained
    BY <1>3 DEF ReadHolder, Rename, Inspect, Chained
  <2>2. \/ Done(r, "held") \/ Done(r, "queued") \/ Done(r, "polled")
        \/ Done(r, "ending") \/ Goto(r, "judge") \/ Goto(r, "create")
        \/ Goto(r, "inspect") \/ Goto(r, "restore")
    BY <1>3 DEF ReadHolder, Rename, Inspect, Dropped, TryAgain, Queued
  <2> QED
    BY <1>s, <2>1, <2>2 DEF Moves, GoesOn, Ends, Chained
<1>4. CASE (r \in Runs /\ SweepJudge(r)) \/ ReleaseOwner(r)
  <2>1. at[r] \notin Chained
    BY <1>4 DEF SweepJudge, ReleaseOwner, Chained
  <2>2. \/ Goto(r, "polled") \/ Goto(r, "over")
        \/ Enqueue(r, "rename") \/ Enqueue(r, "release")
    BY <1>4 DEF SweepJudge, ReleaseOwner
  <2> QED
    BY <1>s, <2>1, <2>2 DEF Moves, Asks, Elsewhere
<1>5. CASE r \in Runs /\ (\/ SweepRead(r) \/ Finish(r) \/ Fail(r) \/ CloseBrowsers(r)
                          \/ Abandon(r) \/ Retry(r))
  <2>1. at[r] \notin Chained
    BY <1>5 DEF SweepRead, Finish, Fail, CloseBrowsers, Abandon, Retry, Chained
  <2>2. \/ Goto(r, "polled") \/ Goto(r, "sweep") \/ Goto(r, "ending")
        \/ Goto(r, "over") \/ Goto(r, "idle") \/ Goto(r, "closing")
    BY <1>5 DEF SweepRead, Finish, Fail, CloseBrowsers, Abandon, Retry, Goto, ends
  <2> QED
    BY <1>s, <2>1, <2>2 DEF Moves, Elsewhere
<1>6. CASE Release(r) \/ Remove(r)
  <2>1. Turn(r) /\ at[r] \in Chained /\ (Goto(r, "remove") \/ Done(r, "over"))
    BY <1>6 DEF Release, Remove, Chained
  <2> QED
    BY <1>s, <2>1 DEF Moves, GoesOn, Ends, Chained
<1>7. CASE r \in Cancels /\ (Cancel(r) \/ Halt(r))
  <2>1. at[r] \notin Chained /\ (Goto(r, "cancelled") \/ Goto(r, "closing"))
    BY <1>7 DEF Cancel, Halt, Goto, ends, Chained
  <2> QED
    BY <1>s, <2>1 DEF Moves, Elsewhere
<1> QED
  BY <1>1, <1>2, <1>3, <1>4, <1>5, <1>6, <1>7
     DEF ActorStep, RunStep, Step, ReleaseStep

\* What the ways do to the chain of the only process.
LEMMA ChainMoves ==
    ASSUME NEW p \in Processes, OneProcess(p), TypeOK, NEW r \in Actors, Moves(r)
    PROVE  /\ \E s \in Steps : at' = [at EXCEPT ![r] = s]
           /\ chain[p] \in Seq(Actors) /\ chain'[p] \in Seq(Actors)
           /\ Asks(r) =>
                /\ at'[r] \in Chained \ Working
                /\ Len(chain'[p]) = Len(chain[p]) + 1
                /\ chain'[p][Len(chain[p]) + 1] = r
                /\ \A i \in 1..Len(chain[p]) : chain'[p][i] = chain[p][i]
           /\ GoesOn(r) =>
                /\ at'[r] \in Chained /\ chain' = chain
                /\ Len(chain[p]) >= 1 /\ chain[p][1] = r
           /\ Ends(r) =>
                /\ at'[r] \notin Chained
                /\ Len(chain[p]) >= 1 /\ chain[p][1] = r
                /\ Len(chain'[p]) = Len(chain[p]) - 1
                /\ \A i \in 1..(Len(chain[p]) - 1) : chain'[p][i] = chain[p][i + 1]
           /\ Elsewhere(r) => at'[r] \notin Chained /\ chain' = chain
<1>1. /\ at \in [Actors -> Steps] /\ chain \in [Processes -> Seq(Actors)]
      /\ chain[p] \in Seq(Actors) /\ ProcOf[r] = p /\ Chained \subseteq Steps
  BY DEF TypeOK, OneProcess, Chained, Steps
<1>2. CASE Asks(r)
  <2>1. PICK s \in Chained \ Working : Enqueue(r, s)
    BY <1>2 DEF Asks
  <2>2. at' = [at EXCEPT ![r] = s] /\ chain'[p] = Append(chain[p], r) /\ at'[r] = s
    BY <1>1, <2>1 DEF Enqueue
  <2>3. at[r] \notin Chained
    BY <1>2 DEF Asks
  <2>4. ~GoesOn(r) /\ ~Ends(r) /\ ~Elsewhere(r)
    BY <1>1, <2>1, <2>2, <2>3 DEF GoesOn, Ends, Elsewhere, Goto
  <2>5. /\ Len(chain'[p]) = Len(chain[p]) + 1 /\ chain'[p] \in Seq(Actors)
        /\ chain'[p][Len(chain[p]) + 1] = r
        /\ \A i \in 1..Len(chain[p]) : chain'[p][i] = chain[p][i]
    BY <1>1, <2>2
  <2> QED
    BY <1>1, <2>1, <2>2, <2>4, <2>5
<1>3. CASE GoesOn(r)
  <2>1. PICK s \in Chained : Goto(r, s)
    BY <1>3 DEF GoesOn
  <2>2. at' = [at EXCEPT ![r] = s] /\ chain' = chain /\ at'[r] = s
    BY <1>1, <2>1 DEF Goto
  <2>3. at[r] \in Chained /\ Len(chain[p]) >= 1 /\ chain[p][1] = r
    BY <1>1, <1>3 DEF GoesOn, Turn
  <2>4. ~Asks(r) /\ ~Ends(r) /\ ~Elsewhere(r)
    BY <1>1, <2>1, <2>2, <2>3 DEF Asks, Ends, Elsewhere, Done
  <2> QED
    BY <1>1, <2>1, <2>2, <2>3, <2>4
<1>4. CASE Ends(r)
  <2>1. PICK s \in Steps \ Chained : Done(r, s)
    BY <1>4 DEF Ends
  <2>2. at' = [at EXCEPT ![r] = s] /\ chain'[p] = Tail(chain[p]) /\ at'[r] = s
    BY <1>1, <2>1 DEF Done
  <2>3. at[r] \in Chained /\ Len(chain[p]) >= 1 /\ chain[p][1] = r
    BY <1>1, <1>4 DEF Ends, Turn
  <2>4. ~Asks(r) /\ ~GoesOn(r) /\ ~Elsewhere(r)
    BY <1>1, <2>1, <2>2, <2>3 DEF Asks, GoesOn, Elsewhere, Goto
  <2>5. /\ Len(chain'[p]) = Len(chain[p]) - 1 /\ chain'[p] \in Seq(Actors)
        /\ \A i \in 1..(Len(chain[p]) - 1) : chain'[p][i] = chain[p][i + 1]
    BY <1>1, <2>2, <2>3
  <2> QED
    BY <1>1, <2>1, <2>2, <2>3, <2>4, <2>5
<1>5. CASE Elsewhere(r)
  <2>1. PICK s \in Steps \ Chained : Goto(r, s)
    BY <1>5 DEF Elsewhere
  <2>2. at' = [at EXCEPT ![r] = s] /\ chain' = chain /\ at'[r] = s
    BY <1>1, <2>1 DEF Goto
  <2>3. at[r] \notin Chained
    BY <1>5 DEF Elsewhere
  <2>4. ~Asks(r) /\ ~GoesOn(r) /\ ~Ends(r)
    BY <1>1, <2>1, <2>2, <2>3 DEF Asks, GoesOn, Ends, Enqueue
  <2> QED
    BY <1>1, <2>1, <2>2, <2>4
<1> QED
  BY <1>2, <1>3, <1>4, <1>5 DEF Moves

\* They keep the order of the chain.
LEMMA OrderKept ==
    ASSUME NEW p \in Processes, OneProcess(p), TypeOK, Order(p), NEW r \in Actors, Moves(r)
    PROVE  Order(p)'
<1>0. Len(chain[p]) \in Nat /\ Len(chain'[p]) \in Nat
  BY ChainMoves
<1>t. at \in [Actors -> Steps] /\ Working \subseteq Chained
  BY DEF TypeOK, Working, Chained
<1>a. /\ \A q \in Actors \ {r} : at'[q] = at[q]
      /\ \A i \in 1..Len(chain[p]) : chain[p][i] \in Actors
      /\ \A i \in 1..Len(chain'[p]) : chain'[p][i] \in Actors
  BY <1>t, ChainMoves
<1>1. CASE Asks(r)
  <2>1. /\ at'[r] \in Chained \ Working
        /\ Len(chain'[p]) = Len(chain[p]) + 1
        /\ chain'[p][Len(chain[p]) + 1] = r
        /\ \A i \in 1..Len(chain[p]) : chain'[p][i] = chain[p][i]
    BY <1>1, ChainMoves
  <2>2. \A i \in 1..Len(chain[p]) : chain[p][i] # r
    BY <1>1 DEF Asks, Order
  <2>i. \A i \in 1..Len(chain'[p]) :
            i \in 1..Len(chain[p]) \/ i = Len(chain[p]) + 1
    BY <1>0, <2>1
  <2>3. ASSUME NEW i \in 1..Len(chain'[p]), NEW j \in 1..Len(chain'[p]),
               chain'[p][i] = chain'[p][j]
        PROVE  i = j
    <3>1. \A k, l \in 1..Len(chain[p]) : chain[p][k] = chain[p][l] => k = l
      BY DEF Order
    <3> QED
      BY <2>i, <2>1, <2>2, <2>3, <3>1
  <2>4. ASSUME NEW i \in 1..Len(chain'[p])
        PROVE  at'[chain'[p][i]] \in Chained
    <3>1. CASE i \in 1..Len(chain[p])
      <4>1. chain'[p][i] = chain[p][i] /\ chain[p][i] \in Actors \ {r}
        BY <1>a, <2>1, <2>2, <3>1
      <4> QED
        BY <1>a, <3>1, <4>1 DEF Order
    <3>2. CASE i = Len(chain[p]) + 1
      BY <2>1, <3>2
    <3> QED
      BY <2>i, <3>1, <3>2
  <2>5. \A q \in Actors : at'[q] \in Chained =>
                           \E i \in 1..Len(chain'[p]) : chain'[p][i] = q
    BY <1>0, <1>a, <2>1 DEF Order
  <2>6. \A q \in Actors : at'[q] \in Working => Len(chain'[p]) >= 1 /\ chain'[p][1] = q
    BY <1>0, <1>a, <2>1 DEF Order
  <2> QED
    BY <2>3, <2>4, <2>5, <2>6 DEF Order
<1>2. CASE GoesOn(r)
  <2>1. at'[r] \in Chained /\ chain' = chain /\ Len(chain[p]) >= 1 /\ chain[p][1] = r
    BY <1>2, ChainMoves
  <2>2. at[r] \in Chained
    BY <1>2 DEF GoesOn
  <2>3. \A i \in 1..Len(chain[p]) : at'[chain[p][i]] \in Chained
    BY <1>a, <2>1 DEF Order
  <2>4. \A q \in Actors : at'[q] \in Chained => \E i \in 1..Len(chain[p]) : chain[p][i] = q
    BY <1>a, <2>1, <2>2 DEF Order
  <2>5. \A q \in Actors : at'[q] \in Working => Len(chain[p]) >= 1 /\ chain[p][1] = q
    BY <1>a, <2>1 DEF Order
  <2> QED
    BY <2>1, <2>3, <2>4, <2>5 DEF Order
<1>3. CASE Ends(r)
  <2>1. /\ at'[r] \notin Chained
        /\ Len(chain[p]) >= 1 /\ chain[p][1] = r
        /\ Len(chain'[p]) = Len(chain[p]) - 1
        /\ \A i \in 1..(Len(chain[p]) - 1) : chain'[p][i] = chain[p][i + 1]
    BY <1>3, ChainMoves
  <2>2. ASSUME NEW i \in 2..Len(chain[p]) PROVE chain[p][i] # r
    <3>1. i \in 1..Len(chain[p]) /\ 1 \in 1..Len(chain[p]) /\ i # 1
      BY <1>0, <2>1
    <3> QED
      BY <2>1, <3>1 DEF Order
  <2>3. \A i, j \in 1..Len(chain'[p]) : chain'[p][i] = chain'[p][j] => i = j
    BY <1>0, <2>1 DEF Order
  <2>4. \A i \in 1..Len(chain'[p]) : at'[chain'[p][i]] \in Chained
    BY <1>0, <1>a, <2>1, <2>2 DEF Order
  <2>5. ASSUME NEW q \in Actors, at'[q] \in Chained
        PROVE  \E i \in 1..Len(chain'[p]) : chain'[p][i] = q
    <3>1. q # r /\ at[q] \in Chained
      BY <1>a, <2>1, <2>5
    <3>2. PICK i \in 1..Len(chain[p]) : chain[p][i] = q
      BY <3>1 DEF Order
    <3>3. i - 1 \in 1..Len(chain'[p]) /\ chain'[p][i - 1] = q
      BY <1>0, <2>1, <3>1, <3>2
    <3> QED
      BY <3>3
  <2>6. \A q \in Actors : at'[q] \notin Working
    BY <1>a, <1>t, <2>1 DEF Order
  <2> QED
    BY <2>3, <2>4, <2>5, <2>6 DEF Order
<1>4. CASE Elsewhere(r)
  <2>1. at'[r] \notin Chained /\ chain' = chain /\ at[r] \notin Chained
    BY <1>4, ChainMoves DEF Elsewhere
  <2>2. \A i \in 1..Len(chain[p]) : chain[p][i] # r
    BY <2>1 DEF Order
  <2>3. \A i \in 1..Len(chain[p]) : at'[chain[p][i]] \in Chained
    BY <1>a, <2>1, <2>2 DEF Order
  <2>4. \A q \in Actors : at'[q] \in Chained => \E i \in 1..Len(chain[p]) : chain[p][i] = q
    BY <1>a, <2>1 DEF Order
  <2>5. \A q \in Actors : at'[q] \in Working => Len(chain[p]) >= 1 /\ chain[p][1] = q
    BY <1>a, <1>t, <2>1 DEF Order
  <2> QED
    BY <2>1, <2>3, <2>4, <2>5 DEF Order
<1> QED
  BY <1>1, <1>2, <1>3, <1>4 DEF Moves

\* They keep one operation before another, unless it is the first that moves.
LEMMA BeforeKept ==
    ASSUME NEW p \in Processes, OneProcess(p), TypeOK, NEW r \in Actors, Moves(r),
           NEW q \in Actors \ {r}, NEW s \in Actors, Before(p, q, s)
    PROVE  Before(p, q, s)'
<1>0. Len(chain[p]) \in Nat /\ Len(chain'[p]) \in Nat
  BY ChainMoves
<1>1. PICK i, j \in 1..Len(chain[p]) : i < j /\ chain[p][i] = q /\ chain[p][j] = s
  BY DEF Before
<1>2. CASE Asks(r)
  <2>1. /\ i \in 1..Len(chain'[p]) /\ j \in 1..Len(chain'[p])
        /\ chain'[p][i] = q /\ chain'[p][j] = s
    BY <1>0, <1>1, <1>2, ChainMoves
  <2> QED
    BY <1>1, <2>1 DEF Before
<1>3. CASE GoesOn(r) \/ Elsewhere(r)
  BY <1>1, <1>3, ChainMoves DEF Before
<1>4. CASE Ends(r)
  <2>1. /\ Len(chain[p]) >= 1 /\ chain[p][1] = r
        /\ Len(chain'[p]) = Len(chain[p]) - 1
        /\ \A k \in 1..(Len(chain[p]) - 1) : chain'[p][k] = chain[p][k + 1]
    BY <1>4, ChainMoves
  <2>2. i # 1
    BY <1>1, <2>1
  <2>3. /\ i - 1 \in 1..Len(chain'[p]) /\ j - 1 \in 1..Len(chain'[p])
        /\ i - 1 < j - 1
    BY <1>0, <1>1, <2>1, <2>2
  <2>4. (i - 1) + 1 = i /\ (j - 1) + 1 = j
    BY <1>0, <1>1
  <2>5. chain'[p][i - 1] = q /\ chain'[p][j - 1] = s
    BY <1>1, <2>1, <2>3, <2>4
  <2> QED
    BY <2>3, <2>5 DEF Before
<1> QED
  BY <1>2, <1>3, <1>4 DEF Moves

\* While r's operation is the first, no other is worked on.
LEMMA WorkAlone ==
    ASSUME NEW p \in Processes, OneProcess(p), TypeOK, Order(p), NEW r \in Actors, Turn(r),
           NEW q \in Actors, at[q] \in Working
    PROVE  q = r
<1>1. chain[p] \in Seq(Actors) /\ ProcOf[r] = p
  BY DEF TypeOK, OneProcess
<1>2. chain[p][1] = r
  BY <1>1 DEF Turn
<1> QED
  BY <1>2 DEF Order

\* What waits behind another operation does not have its turn.
LEMMA NotItsTurn ==
    ASSUME NEW p \in Processes, OneProcess(p), TypeOK, Order(p), NEW r \in Actors,
           NEW q \in Actors, Before(p, q, r)
    PROVE  ~Turn(r)
<1>1. chain[p] \in Seq(Actors) /\ ProcOf[r] = p
  BY DEF TypeOK, OneProcess
<1>2. PICK i, j \in 1..Len(chain[p]) : i < j /\ chain[p][i] = q /\ chain[p][j] = r
  BY DEF Before
<1>3. j # 1 /\ 1 \in 1..Len(chain[p])
  BY <1>1, <1>2
<1>4. chain[p][1] # r
  BY <1>2, <1>3 DEF Order
<1> QED
  BY <1>1, <1>4 DEF Turn

\* What a step of a may change, in the terms that the invariant needs.
LEMMA StepEffects ==
    ASSUME TypeOK, NEW a \in Actors, ActorStep(a)
    PROVE  /\ \A s \in Runs : s \notin live => s \notin live' \/ at'[s] = "idle"
           /\ \A s \in Runs : s \in revived => s \in revived' \/ at'[s] = "idle"
           /\ \A s \in Runs : at[s] = "idle" =>
                                at'[s] = "idle" \/ (s = a /\ Enqueue(a, "create"))
           /\ (a \in Runs /\ at[a] = "create") => Turn(a)
           /\ \A q \in Runs \ {a} : seen'[q] = seen[q]
           /\ (a \in Runs /\ at'[a] \in {"rename", "inspect"}) =>
                /\ seen' = seen
                /\ \/ at[a] = "rename" /\ chain' = chain
                   \/ at[a] \in {"judge", "sweep"} /\ seen[a] \notin live /\ live' = live
<1>1. /\ at \in [Actors -> Steps] /\ seen \in [Runs -> Runs \cup {None}]
      /\ Runs \subseteq Actors /\ Runs \cap Cancels = {}
  BY LockAssumption DEF TypeOK, Actors
<1>2. CASE a \in Runs /\ Acquire(a)
  BY <1>1, <1>2 DEF Acquire, Enqueue, ends
<1>3. CASE a \in Runs /\ (CreateExclusive(a) \/ Judge(a) \/ Restore(a))
  BY <1>1, <1>3 DEF CreateExclusive, Judge, Restore, Queued, Goto, Done, ends
<1>4. CASE a \in Runs /\ ReadHolder(a)
  BY <1>1, <1>4 DEF ReadHolder, TryAgain, Queued, Goto, Done, ends
<1>5. CASE a \in Runs /\ (Rename(a) \/ Inspect(a))
  BY <1>1, <1>5 DEF Rename, Inspect, Dropped, TryAgain, Queued, Goto, Done, ends
<1>6. CASE a \in Runs /\ (SweepRead(a) \/ SweepJudge(a))
  BY <1>1, <1>6 DEF SweepRead, SweepJudge, Goto, Enqueue, ends
<1>7. CASE ReleaseStep(a)
  BY <1>1, <1>7
     DEF ReleaseStep, ReleaseOwner, Release, Remove, Ended, Goto, Enqueue, Done, ends
<1>8. CASE a \in Runs /\ (Finish(a) \/ Fail(a) \/ CloseBrowsers(a) \/ Abandon(a))
  BY <1>1, <1>8 DEF Finish, Fail, CloseBrowsers, Abandon, ends
<1>9. CASE a \in Runs /\ Retry(a)
  BY <1>1, <1>9 DEF Retry
<1>10. CASE a \in Cancels /\ (Cancel(a) \/ Halt(a))
  BY <1>1, <1>10 DEF Cancel, Halt, ends
<1> QED
  BY <1>2, <1>3, <1>4, <1>5, <1>6, <1>7, <1>8, <1>9, <1>10
     DEF ActorStep, RunStep, Step

\* A cancel that is under way goes on leaving its run out.
LEMMA MarksKept ==
    ASSUME TypeOK, CancelMarks, NEW a \in Actors, ActorStep(a)
    PROVE  CancelMarks'
<1>1. /\ at \in [Actors -> Steps] /\ Actors = Runs \cup Cancels
      /\ Runs \cap Cancels = {} /\ RunOf \in [Actors -> Runs]
  BY LockAssumption DEF TypeOK, Actors
<1> SUFFICES ASSUME NEW c \in Cancels, UnderWay(c)'
             PROVE  RunOf[c] \notin live' \/ RunOf[c] \in revived'
  BY DEF CancelMarks
<1>m. UnderWay(c) => RunOf[c] \notin live \/ RunOf[c] \in revived
  BY DEF CancelMarks
<1>2. CASE a \in Runs /\ Retry(a)
  <2>1. at'[c] = at[c]
    BY <1>1, <1>2 DEF Retry
  <2>2. UnderWay(c)
    BY <2>1 DEF UnderWay
  <2>3. CASE RunOf[c] = a
    <3>1. revived' = revived \cup {a}
      BY <1>2, <2>2, <2>3 DEF Retry
    <3> QED
      BY <2>3, <3>1
  <2>4. CASE RunOf[c] # a
    <3>1. live' = live \cup {a} /\ revived' \in {revived \cup {a}, revived \ {a}}
      BY <1>2 DEF Retry
    <3> QED
      BY <1>m, <2>2, <2>4, <3>1
  <2> QED
    BY <2>3, <2>4
<1>3. CASE a \in Runs /\ RunStep(a) /\ ~Retry(a)
  <2>1. at'[c] = at[c]
    BY <1>1, <1>3
       DEF RunStep, Acquire, Step, CreateExclusive, ReadHolder, Judge, SweepRead,
           SweepJudge, Rename, Inspect, Restore, Dropped, TryAgain, Queued, Goto,
           Enqueue, Done, Finish, Fail, CloseBrowsers, Abandon
  <2>2. live' \subseteq live /\ revived' = revived
    BY <1>3
       DEF RunStep, Acquire, Step, CreateExclusive, ReadHolder, Judge, SweepRead,
           SweepJudge, Rename, Inspect, Restore, Finish, Fail, CloseBrowsers,
           Abandon, ends
  <2> QED
    BY <1>m, <2>1, <2>2 DEF UnderWay
<1>4. CASE ReleaseStep(a)
  <2>1. live' \subseteq live /\ revived' = revived
    BY <1>4 DEF ReleaseStep, ReleaseOwner, Release, Remove, Ended, ends
  <2>2. at'[c] = at[c] \/ (c = a /\ at[c] \in {"ending", "release", "remove"})
    BY <1>1, <1>4
       DEF ReleaseStep, ReleaseOwner, Release, Remove, Goto, Enqueue, Done
  <2> QED
    BY <1>m, <2>1, <2>2 DEF UnderWay
<1>5. CASE a \in Cancels /\ Cancel(a)
  <2>1. /\ at' = [at EXCEPT ![a] = "cancelled"] /\ live' = live \ {RunOf[a]}
        /\ revived' = revived
    BY <1>5 DEF Cancel, ends
  <2>2. CASE c = a
    BY <2>1, <2>2
  <2>3. CASE c # a
    BY <1>1, <1>m, <2>1, <2>3 DEF UnderWay
  <2> QED
    BY <2>2, <2>3
<1>6. CASE a \in Cancels /\ Halt(a)
  <2>1. /\ at[a] = "cancelled" /\ at' = [at EXCEPT ![a] = "closing"]
        /\ live' = live /\ revived' = revived
    BY <1>6 DEF Halt
  <2> QED
    BY <1>1, <1>m, <2>1 DEF UnderWay
<1> QED
  BY <1>2, <1>3, <1>4, <1>5, <1>6 DEF ActorStep

\* The run of a lock that is to be dropped does not come to hold it first.
LEMMA StaleKept ==
    ASSUME NEW p \in Processes, OneProcess(p), TypeOK, Order(p), StaleStays(p),
           NEW a \in Actors, ActorStep(a)
    PROVE  StaleStays(p)'
<1>1. /\ Moves(a) /\ at \in [Actors -> Steps] /\ Runs \subseteq Actors
      /\ Runs \cap Cancels = {}
  BY LockAssumption, StepMoves DEF TypeOK, Actors
<1>2. \A q \in Actors \ {a} : at'[q] = at[q]
  BY <1>1, ChainMoves
<1> SUFFICES ASSUME NEW q \in Runs, NEW s \in Runs, seen'[q] = s,
                    at'[q] \in {"rename", "inspect"}
             PROVE  NotBefore(p, q, s)'
  BY DEF StaleStays, NotBefore, Before
<1>3. CASE q = a
  <2>1. seen' = seen /\ s = seen[q]
    BY <1>3, StepEffects
  <2>2. CASE at[a] = "rename" /\ chain' = chain
    <3>1. NotBefore(p, q, s)
      BY <1>3, <2>1, <2>2 DEF StaleStays
    <3>2. CASE s \notin live \/ s \in revived
      BY <3>2, StepEffects DEF NotBefore
    <3>3. CASE at[s] \in {"idle", "create"}
      <4>1. s # a /\ at'[s] = at[s]
        BY <1>1, <1>2, <2>2, <3>3
      <4> QED
        BY <2>2, <3>1, <3>2, <4>1 DEF NotBefore, Before
    <3> QED
      BY <3>1, <3>2, <3>3 DEF NotBefore
  <2>3. CASE at[a] \in {"judge", "sweep"} /\ seen[a] \notin live /\ live' = live
    BY <1>3, <2>1, <2>3 DEF NotBefore
  <2> QED
    BY <1>3, <2>2, <2>3, StepEffects
<1>4. CASE q # a
  <2>1. at[q] \in {"rename", "inspect"} /\ s = seen[q]
    BY <1>1, <1>2, <1>4, StepEffects
  <2>2. NotBefore(p, q, s)
    BY <2>1 DEF StaleStays
  <2>3. CASE s \notin live \/ s \in revived
    BY <2>3, StepEffects DEF NotBefore
  <2>4. CASE at[s] = "idle"
    <3>1. CASE at'[s] = "idle"
      BY <3>1 DEF NotBefore
    <3>2. CASE s = a /\ Enqueue(a, "create")
      <4>1. at'[s] = "create"
        BY <1>1, <3>2 DEF Enqueue
      <4>2. chain[p] \in Seq(Actors) /\ chain'[p] = Append(chain[p], a)
        BY <3>2 DEF Enqueue, OneProcess, TypeOK
      <4>3. PICK i \in 1..Len(chain[p]) : chain[p][i] = q
        BY <1>1, <2>1 DEF Order, Chained
      <4>4. /\ i \in 1..Len(chain'[p]) /\ Len(chain[p]) + 1 \in 1..Len(chain'[p])
            /\ i < Len(chain[p]) + 1
            /\ chain'[p][i] = q /\ chain'[p][Len(chain[p]) + 1] = a
        BY <4>2, <4>3
      <4>5. Before(p, q, s)'
        BY <3>2, <4>4 DEF Before
      <4> QED
        BY <4>1, <4>5 DEF NotBefore
    <3> QED
      BY <2>4, <3>1, <3>2, StepEffects
  <2>5. CASE at[s] = "create" /\ Before(p, q, s)
    <3>1. CASE s = a
      BY <1>1, <2>5, <3>1, NotItsTurn, StepEffects
    <3>2. CASE s # a
      <4>1. at'[s] = "create"
        BY <1>1, <1>2, <2>5, <3>2
      <4>2. Before(p, q, s)'
        BY <1>1, <1>4, <2>5, BeforeKept
      <4> QED
        BY <4>1, <4>2 DEF NotBefore
    <3> QED
      BY <3>1, <3>2
  <2> QED
    BY <2>2, <2>3, <2>4, <2>5 DEF NotBefore
<1> QED
  BY <1>3, <1>4

\* A step of one actor entitles no other run.
LEMMA EntitledOthers ==
    ASSUME TypeOK, NEW a \in Actors, ActorStep(a), NEW q \in Runs \ {a}, q \in Entitled'
    PROVE  q \in Entitled
<1>1. at'[q] = at[q]
  <2>1. at \in [Actors -> Steps] /\ q \in Actors
    BY DEF TypeOK, Actors
  <2>2. Moves(a)
    BY StepMoves
  <2> QED
    BY <2>1, <2>2 DEF Moves, Asks, GoesOn, Ends, Elsewhere, Enqueue, Goto, Done
<1>2. (q \in live' => q \in live) /\ (q \in revived => q \in revived')
  <2>1. CASE a \in Runs /\ RunStep(a)
    BY <2>1
       DEF RunStep, Acquire, Step, CreateExclusive, ReadHolder, Judge, SweepRead,
           SweepJudge, Rename, Inspect, Restore, Finish, Fail, CloseBrowsers,
           Abandon, Retry, ends
  <2>2. CASE ReleaseStep(a)
    BY <2>2 DEF ReleaseStep, ReleaseOwner, Release, Remove, Ended, ends
  <2>3. CASE a \in Cancels /\ (Cancel(a) \/ Halt(a))
    BY <2>3 DEF Cancel, Halt, ends
  <2> QED
    BY <2>1, <2>2, <2>3 DEF ActorStep
<1> QED
  BY <1>1, <1>2 DEF Entitled, Users

\* A step that touches neither the lock nor what was renamed away.
LEMMA QuietKeeps ==
    ASSUME TypeOK, LockInv, NEW a \in Actors, ActorStep(a),
           NEW s, at' = [at EXCEPT ![a] = s], UNCHANGED <<file, tomb>>,
           at[a] \notin {"inspect", "restore"}, s \notin {"inspect", "restore"},
           s = "remove" => file = RunOf[a],
           (a \in Runs /\ a \in Entitled') => file = a
    PROVE  LockInv'
<1>1. /\ at'[a] = s /\ \A q \in Actors \ {a} : at'[q] = at[q]
      /\ Runs \subseteq Actors
  BY DEF TypeOK, Actors
<1>2. RenamedAway' /\ Removable'
  BY <1>1 DEF LockInv, RenamedAway, Removable
<1>3. ASSUME NEW q \in Entitled'
      PROVE  \/ file' = q
             \/ \E x \in Runs : at'[x] \in {"inspect", "restore"} /\ tomb'[x] = q
  <2>0. q \in Runs
    BY DEF Entitled, Users
  <2>1. CASE q = a
    BY <2>0, <2>1
  <2>2. CASE q # a
    <3>1. q \in Entitled
      BY <1>3, <2>0, <2>2, EntitledOthers
    <3>2. \/ file = q
          \/ \E x \in Runs : at[x] \in {"inspect", "restore"} /\ tomb[x] = q
      BY <3>1 DEF LockInv, HolderHas
    <3> QED
      BY <1>1, <3>2
  <2> QED
    BY <2>1, <2>2
<1> QED
  BY <1>2, <1>3 DEF LockInv, HolderHas

\* The steps outside the lock file are such steps.
LEMMA QuietSteps ==
    ASSUME TypeOK, LockInv, NEW a \in Actors, ActorStep(a),
           \/ /\ a \in Runs
              /\ \/ Acquire(a) \/ ReadHolder(a) \/ Judge(a) \/ SweepRead(a)
                 \/ SweepJudge(a) \/ Finish(a) \/ Fail(a) \/ CloseBrowsers(a)
                 \/ Abandon(a) \/ Retry(a)
           \/ ReleaseOwner(a) \/ Release(a)
           \/ a \in Cancels /\ (Cancel(a) \/ Halt(a))
    PROVE  LockInv'
<1> DEFINE Quiet(s) == /\ at' = [at EXCEPT ![a] = s] /\ UNCHANGED <<file, tomb>>
                       /\ at[a] \notin {"inspect", "restore"}
                       /\ s = "remove" => file = RunOf[a]
                       /\ (a \in Runs /\ s = "held") => file = a
                       /\ (a \in Runs /\ s = "closing") => a \notin live'
<1>s. ASSUME NEW s \in Steps \ {"inspect", "restore"}, Quiet(s)
      PROVE  LockInv'
  <2>1. (a \in Runs /\ a \in Entitled') => file = a
    BY <1>s DEF Entitled, Users, TypeOK
  <2>2. s \notin {"inspect", "restore"}
    BY <1>s
  <2> QED
    BY <1>s, <2>1, <2>2, QuietKeeps
<1>t. /\ Steps \ {"inspect", "restore"} =
            {"idle", "create", "read", "judge", "held", "queued", "sweep", "polled",
             "rename", "cancelled", "closing", "ending", "release", "remove", "over"}
      /\ Runs \cap Cancels = {}
  BY LockAssumption DEF Steps
<1> HIDE DEF Quiet
<1>1. CASE a \in Runs /\ (Acquire(a) \/ Judge(a) \/ SweepJudge(a))
  <2>1. \/ Quiet("create") \/ Quiet("queued") \/ Quiet("ending") \/ Quiet("rename")
        \/ Quiet("polled")
    BY <1>1 DEF Acquire, Judge, SweepJudge, Enqueue, Goto, Done, Queued, Quiet
  <2> QED
    BY <1>s, <1>t, <2>1
<1>2. CASE a \in Runs /\ ReadHolder(a)
  <2>1. \/ Quiet("create") \/ Quiet("queued") \/ Quiet("ending") \/ Quiet("held")
        \/ Quiet("judge")
    BY <1>2 DEF ReadHolder, TryAgain, Goto, Done, Queued, Quiet
  <2> QED
    BY <1>s, <1>t, <2>1
<1>3. CASE ReleaseOwner(a) \/ Release(a)
  <2>1. Quiet("release") \/ Quiet("over") \/ Quiet("remove")
    BY <1>3 DEF ReleaseOwner, Release, Enqueue, Goto, Done, Quiet
  <2> QED
    BY <1>s, <1>t, <2>1
<1>4. CASE a \in Runs /\ (\/ SweepRead(a) \/ Finish(a) \/ Fail(a) \/ CloseBrowsers(a)
                          \/ Abandon(a) \/ Retry(a))
  <2>1. \/ Quiet("polled") \/ Quiet("sweep") \/ Quiet("ending") \/ Quiet("over")
        \/ Quiet("idle") \/ Quiet("closing")
    BY <1>4 DEF SweepRead, Finish, Fail, CloseBrowsers, Abandon, Retry, Quiet, ends
  <2> QED
    BY <1>s, <1>t, <2>1
<1>5. CASE a \in Cancels /\ (Cancel(a) \/ Halt(a))
  <2>1. Quiet("cancelled") \/ Quiet("closing")
    BY <1>5, <1>t DEF Cancel, Halt, Quiet, ends
  <2> QED
    BY <1>s, <1>t, <2>1
<1> QED
  BY <1>1, <1>2, <1>3, <1>4, <1>5

\* The lock of an entitled run survives the steps that touch the file: each of
\* them is the first operation of the chain.
LEMMA LockKept ==
    ASSUME NEW p \in Processes, OneProcess(p), OneProcessInv(p),
           NEW a \in Actors, ActorStep(a)
    PROVE  LockInv'
<1>1. /\ TypeOK /\ Order(p) /\ CancelMarks /\ StaleStays(p) /\ LockInv
      /\ at \in [Actors -> Steps] /\ tomb \in [Runs -> Runs \cup {None}]
      /\ file \in Runs \cup {None} /\ None \notin Runs
      /\ Actors = Runs \cup Cancels /\ Runs \subseteq Actors
      /\ RunOf \in [Actors -> Runs] /\ \A r \in Runs : RunOf[r] = r
  BY LockAssumption DEF OneProcessInv, TypeOK, Actors
<1>2. \A q \in Actors \ {a} : at'[q] = at[q]
  BY <1>1, StepMoves, ChainMoves
<1>3. ASSUME Turn(a), NEW q \in Actors \ {a}
      PROVE  at[q] \notin {"inspect", "restore", "remove"}
  BY <1>1, <1>3, WorkAlone DEF Working
<1>e. ASSUME NEW q \in Entitled' PROVE q \in Runs /\ (q # a => q \in Entitled)
  <2>1. q \in Runs
    BY <1>e DEF Entitled, Users
  <2> QED
    BY <1>1, <1>e, <2>1, EntitledOthers
<1>h. \A q \in Entitled :
          q \in Runs /\ (\/ file = q
                         \/ \E x \in Runs : at[x] \in {"inspect", "restore"} /\ tomb[x] = q)
  BY <1>1 DEF LockInv, HolderHas, Entitled, Users
<1>u. ASSUME a \in Runs, at'[a] \notin {"held", "closing"} PROVE a \notin Entitled'
  BY <1>u DEF Entitled, Users
<1>5. CASE a \in Runs /\ CreateExclusive(a)
  <2>1. at[a] = "create" /\ Turn(a)
    BY <1>5 DEF CreateExclusive
  <2>2. CASE file = None
    <3>1. file' = a /\ tomb' = tomb /\ at'[a] = "held"
      BY <1>1, <1>5, <2>2 DEF CreateExclusive, Done
    <3>2. \A q \in Actors : at[q] \notin {"inspect", "restore", "remove"}
      BY <1>3, <2>1
    <3>3. Entitled = {}
      BY <1>1, <1>h, <2>2, <3>2
    <3>4. \A q \in Entitled' : q = a
      BY <1>e, <3>3
    <3>5. \A q \in Actors : at'[q] \notin {"inspect", "restore", "remove"}
      BY <1>2, <3>1, <3>2
    <3>6. RenamedAway' /\ Removable'
      BY <1>1, <3>5 DEF RenamedAway, Removable
    <3>7. HolderHas'
      BY <3>1, <3>4 DEF HolderHas
    <3> QED
      BY <3>6, <3>7 DEF LockInv
  <2>3. CASE file # None
    <3>1. at' = [at EXCEPT ![a] = "read"] /\ UNCHANGED <<file, tomb>>
      BY <1>5, <2>3 DEF CreateExclusive, Goto
    <3>2. at'[a] = "read"
      BY <1>1, <3>1
    <3>3. (a \in Runs /\ a \in Entitled') => file = a
      BY <1>u, <3>2
    <3>4. /\ at[a] \notin {"inspect", "restore"} /\ "read" \notin {"inspect", "restore"}
          /\ "read" = "remove" => file = RunOf[a]
      BY <2>1
    <3> QED
      BY <1>1, <3>1, <3>3, <3>4, QuietKeeps
  <2> QED
    BY <2>2, <2>3
<1>6. CASE a \in Runs /\ Rename(a)
  <2>1. at[a] = "rename" /\ Turn(a)
    BY <1>6 DEF Rename
  <2>2. CASE file = None
    <3>1. PICK s \in {"polled", "create", "queued", "ending"} :
              at' = [at EXCEPT ![a] = s] /\ UNCHANGED <<file, tomb>>
      BY <1>6, <2>2 DEF Rename, Dropped, TryAgain, Queued, Goto, Done
    <3>2. at'[a] = s
      BY <1>1, <3>1
    <3>3. (a \in Runs /\ a \in Entitled') => file = a
      BY <1>u, <3>1, <3>2
    <3>4. /\ at[a] \notin {"inspect", "restore"} /\ s \notin {"inspect", "restore"}
          /\ s # "remove"
      BY <2>1, <3>1
    <3> QED
      BY <1>1, <3>1, <3>3, <3>4, QuietKeeps
  <2>3. CASE file # None
    <3>1. /\ tomb' = [tomb EXCEPT ![a] = file] /\ file' = None
          /\ at'[a] = "inspect" /\ tomb'[a] = file /\ file \in Runs
      BY <1>1, <1>6, <2>3 DEF Rename, Goto
    <3>2. \A q \in Actors : at[q] \notin {"inspect", "restore", "remove"}
      BY <1>3, <2>1
    <3>3. \A q \in Entitled : q = file
      BY <1>1, <1>h, <3>2
    <3>4. RenamedAway' /\ Removable'
      BY <1>1, <1>2, <3>1, <3>2 DEF RenamedAway, Removable
    <3>5. \A q \in Entitled' : tomb'[a] = q
      BY <1>e, <1>u, <1>6, <3>1, <3>3
    <3>6. HolderHas'
      BY <1>6, <3>1, <3>5 DEF HolderHas
    <3> QED
      BY <3>4, <3>6 DEF LockInv
  <2> QED
    BY <2>2, <2>3
<1>7. CASE a \in Runs /\ Inspect(a)
  <2>1. at[a] = "inspect" /\ Turn(a) /\ file = None /\ file' = file
    BY <1>1, <1>7 DEF Inspect, LockInv, RenamedAway
  <2>2. \A q \in Actors \ {a} : at[q] \notin {"inspect", "restore", "remove"}
    BY <1>3, <2>1
  <2>3. \A q \in Entitled : tomb[a] = q
    BY <1>1, <1>h, <2>1, <2>2
  <2>r. at'[a] \in {"polled", "create", "queued", "ending", "restore"}
    BY <1>1, <1>7 DEF Inspect, Dropped, TryAgain, Queued, Goto, Done
  <2>4. CASE tomb[a] = seen[a]
    <3>1. at'[a] \in {"polled", "create", "queued", "ending"}
      BY <1>1, <1>7, <2>4 DEF Inspect, Dropped, TryAgain, Queued, Goto, Done
    <3>2. seen[a] \in Runs
      BY <1>1, <1>7, <2>1, <2>4 DEF LockInv, RenamedAway
    <3>3. seen[a] \notin Entitled
      BY <1>1, <1>7, <2>1, <3>2 DEF StaleStays, NotBefore, Entitled, Users
    <3>4. Entitled' = {}
      BY <1>e, <1>u, <1>7, <2>3, <2>4, <3>1, <3>3
    <3>5. RenamedAway' /\ Removable'
      BY <1>1, <1>2, <2>2, <3>1 DEF RenamedAway, Removable
    <3> QED
      BY <3>4, <3>5 DEF LockInv, HolderHas
  <2>5. CASE tomb[a] # seen[a]
    <3>1. at'[a] = "restore" /\ tomb' = tomb
      BY <1>1, <1>7, <2>5 DEF Inspect, Goto
    <3>2. tomb[a] \in Runs
      BY <1>1, <1>7, <2>1 DEF LockInv, RenamedAway
    <3>3. RenamedAway' /\ Removable'
      BY <1>1, <1>2, <2>1, <2>2, <3>1, <3>2 DEF RenamedAway, Removable
    <3>4. \A q \in Entitled' : tomb'[a] = q
      BY <1>e, <1>u, <1>7, <2>3, <3>1
    <3> QED
      BY <1>7, <3>1, <3>3, <3>4 DEF LockInv, HolderHas
  <2> QED
    BY <2>4, <2>5
<1>8. CASE a \in Runs /\ Restore(a)
  <2>1. at[a] = "restore" /\ Turn(a) /\ file = None /\ tomb[a] \in Runs
    BY <1>1, <1>8 DEF Restore, LockInv, RenamedAway
  <2>2. \A q \in Actors \ {a} : at[q] \notin {"inspect", "restore", "remove"}
    BY <1>3, <2>1
  <2>3. \A q \in Entitled : tomb[a] = q
    BY <1>1, <1>h, <2>1, <2>2
  <2>4. file' = tomb[a] /\ at'[a] \in {"polled", "queued", "ending"}
    BY <1>1, <1>8, <2>1 DEF Restore, Queued, Done
  <2>5. RenamedAway' /\ Removable'
    BY <1>1, <1>2, <2>2, <2>4 DEF RenamedAway, Removable
  <2>6. \A q \in Entitled' : file' = q
    BY <1>e, <1>u, <1>8, <2>3, <2>4
  <2> QED
    BY <2>5, <2>6 DEF LockInv, HolderHas
<1>9. CASE Remove(a)
  <2>1. at[a] = "remove" /\ Turn(a) /\ file = RunOf[a] /\ at'[a] = "over"
    BY <1>1, <1>9 DEF Remove, LockInv, Removable, Done
  <2>2. \A q \in Actors \ {a} : at[q] \notin {"inspect", "restore", "remove"}
    BY <1>3, <2>1
  <2>3. \A q \in Entitled : q = RunOf[a]
    BY <1>1, <1>h, <2>1, <2>2
  <2>4. a \in Cancels => RunOf[a] \notin Entitled
    BY <1>1, <2>1 DEF CancelMarks, UnderWay, Entitled
  <2>5. \A q \in Entitled' : q \in Runs /\ q # a /\ q \in Entitled
    BY <1>e, <1>u, <2>1
  <2>6. Entitled' = {}
    BY <1>1, <2>3, <2>4, <2>5
  <2>7. RenamedAway' /\ Removable'
    BY <1>1, <1>2, <2>1, <2>2 DEF RenamedAway, Removable
  <2> QED
    BY <2>6, <2>7 DEF LockInv, HolderHas
<1> QED
  BY <1>1, <1>5, <1>6, <1>7, <1>8, <1>9, QuietSteps
     DEF ActorStep, RunStep, Step, ReleaseStep

\* The last step of a cancel, which may move its run too, keeps the invariant.
LEMMA CloseKeeps ==
    ASSUME NEW p \in Processes, OneProcess(p), OneProcessInv(p),
           NEW c \in Cancels, CancelClose(c)
    PROVE  Order(p)' /\ CancelMarks' /\ StaleStays(p)' /\ LockInv'
<1>1. /\ TypeOK /\ Order(p) /\ CancelMarks /\ StaleStays(p) /\ LockInv
      /\ at \in [Actors -> Steps] /\ chain[p] \in Seq(Actors)
      /\ Runs \subseteq Actors /\ Cancels \subseteq Actors
  BY DEF OneProcessInv, TypeOK, Actors
<1>2. /\ UNCHANGED <<file, live, seen, tomb, chain, revived>>
      /\ at[c] = "closing" /\ at' \in [Actors -> Steps]
      /\ \A a \in Actors : \/ at'[a] = at[a]
                           \/ at[a] \in {"closing", "held"} /\ at'[a] = "ending"
  BY <1>1 DEF CancelClose, ends, Steps
<1>3. /\ \A a \in Actors : at'[a] \in Chained <=> at[a] \in Chained
      /\ \A a \in Actors : at[a] \in Chained => at'[a] = at[a]
  BY <1>2 DEF Chained
<1>4. Working \subseteq Chained
  BY DEF Working, Chained
<1>5. Order(p)'
  <2>1. \A i \in 1..Len(chain[p]) : at'[chain[p][i]] \in Chained
    BY <1>1, <1>3 DEF Order
  <2> QED
    BY <1>1, <1>2, <1>3, <1>4, <2>1 DEF Order
<1>6. CancelMarks'
  BY <1>1, <1>2 DEF CancelMarks, UnderWay
<1>7. StaleStays(p)'
  <2> SUFFICES ASSUME NEW q \in Runs, at'[q] \in {"rename", "inspect"},
                      seen'[q] \in Runs
               PROVE  NotBefore(p, q, seen[q])'
    BY <1>2 DEF StaleStays, NotBefore, Before
  <2>1. at[q] \in {"rename", "inspect"} /\ seen[q] \in Runs
    BY <1>1, <1>2
  <2>2. NotBefore(p, q, seen[q])
    BY <1>1, <2>1 DEF StaleStays
  <2>3. \A s \in Runs : at[s] \in {"idle", "create"} => at'[s] = at[s]
    BY <1>1, <1>2
  <2> QED
    BY <1>2, <2>1, <2>2, <2>3 DEF NotBefore, Before
<1>8. Entitled' \subseteq Entitled
  BY <1>1, <1>2 DEF Entitled, Users
<1>9. \A a \in Actors : \A s \in {"inspect", "restore", "remove"} :
          at'[a] = s <=> at[a] = s
  BY <1>2
<1>10. LockInv'
  BY <1>1, <1>2, <1>8, <1>9 DEF LockInv, RenamedAway, Removable, HolderHas
<1> QED
  BY <1>5, <1>6, <1>7, <1>10

\* The invariant of one process holds before any run asks for the profile.
LEMMA OneProcessInit ==
    ASSUME NEW p \in Processes
    PROVE  Init => OneProcessInv(p)
<1> SUFFICES ASSUME Init PROVE OneProcessInv(p)
  OBVIOUS
<1>1. TypeOK
  BY TypeInit
<1>2. /\ Len(chain[p]) = 0 /\ \A a \in Actors : at[a] = "idle"
      /\ Runs \subseteq Actors /\ Cancels \subseteq Actors
  BY DEF Init, Actors
<1>3. Order(p) /\ CancelMarks /\ StaleStays(p)
  BY <1>2 DEF Order, CancelMarks, UnderWay, StaleStays, Chained, Working
<1>4. LockInv
  BY <1>2 DEF LockInv, RenamedAway, Removable, HolderHas, Entitled, Users
<1> QED
  BY <1>1, <1>3, <1>4 DEF OneProcessInv

\* It is kept by every step.
LEMMA OneProcessNext ==
    ASSUME NEW p \in Processes, OneProcess(p)
    PROVE  OneProcessInv(p) /\ [Next]_vars => OneProcessInv(p)'
<1> SUFFICES ASSUME OneProcessInv(p), [Next]_vars PROVE OneProcessInv(p)'
  OBVIOUS
<1>0. TypeOK /\ Order(p) /\ CancelMarks /\ StaleStays(p) /\ LockInv
  BY DEF OneProcessInv
<1>1. TypeOK'
  BY <1>0, TypeNext
<1>2. ASSUME NEW a \in Actors, ActorStep(a)
      PROVE  OneProcessInv(p)'
  <2>1. Order(p)'
    BY <1>0, <1>2, StepMoves, OrderKept
  <2>2. CancelMarks' /\ StaleStays(p)'
    BY <1>0, <1>2, MarksKept, StaleKept
  <2>3. LockInv'
    BY <1>2, LockKept
  <2> QED
    BY <1>1, <2>1, <2>2, <2>3 DEF OneProcessInv
<1>3. ASSUME NEW c \in Cancels, CancelClose(c)
      PROVE  OneProcessInv(p)'
  BY <1>1, <1>3, CloseKeeps DEF OneProcessInv
<1>4. CASE UNCHANGED vars
  <2>1. UNCHANGED <<file, live, at, seen, tomb, chain, revived>>
    BY <1>4 DEF vars, ends
  <2>2. Order(p)' /\ CancelMarks'
    BY <1>0, <2>1 DEF Order, CancelMarks, UnderWay
  <2>3. StaleStays(p)'
    BY <1>0, <2>1 DEF StaleStays, NotBefore, Before
  <2>4. LockInv'
    BY <1>0, <2>1 DEF LockInv, RenamedAway, Removable, HolderHas, Entitled, Users
  <2> QED
    BY <1>1, <2>2, <2>3, <2>4 DEF OneProcessInv
<1> QED
  BY <1>2, <1>3, <1>4 DEF Next, ActorStep, RunStep, Actors

\* The invariant leaves the profile to one entitled run.
LEMMA InvExclusive ==
    ASSUME NEW p \in Processes, OneProcess(p)
    PROVE  OneProcessInv(p) => EntitledExclusive /\ EntitledKeepsFile
<1> SUFFICES ASSUME OneProcessInv(p) PROVE EntitledExclusive /\ EntitledKeepsFile
  OBVIOUS
<1>0. /\ TypeOK /\ Order(p) /\ RenamedAway /\ HolderHas
      /\ None \notin Runs /\ Runs \subseteq Actors
  BY LockAssumption DEF OneProcessInv, LockInv, Actors
<1>1. ASSUME NEW a \in Entitled, NEW b \in Entitled
      PROVE  a = b
  <2>1. a \in Runs /\ b \in Runs
    BY DEF Entitled, Users
  <2>2. CASE file # None
    BY <1>0, <2>1, <2>2 DEF HolderHas, RenamedAway
  <2>3. CASE file = None
    <3>1. PICK q \in Runs : at[q] \in {"inspect", "restore"} /\ tomb[q] = a
      BY <1>0, <2>1, <2>3 DEF HolderHas
    <3>2. PICK x \in Runs : at[x] \in {"inspect", "restore"} /\ tomb[x] = b
      BY <1>0, <2>1, <2>3 DEF HolderHas
    <3>3. q = x
      BY <1>0, <3>1, <3>2 DEF Order, Working
    <3> QED
      BY <3>1, <3>2, <3>3
  <2> QED
    BY <2>2, <2>3
<1>2. EntitledExclusive
  <2>1. CASE Entitled = {}
    BY <2>1, FS_EmptySet DEF EntitledExclusive
  <2>2. CASE Entitled # {}
    <3>1. PICK a \in Entitled : Entitled = {a}
      BY <1>1, <2>2
    <3>2. Cardinality({a}) = 1
      BY FS_Singleton
    <3> QED
      BY <3>1, <3>2 DEF EntitledExclusive
  <2> QED
    BY <2>1, <2>2
<1>3. EntitledKeepsFile
  BY <1>0 DEF HolderHas, EntitledKeepsFile
<1> QED
  BY <1>2, <1>3

\* Within one process, no two runs are entitled to the profile at a time, and
\* the lock of an entitled run is in place or in the hands of the run that
\* inspects it: the chain of src/browser/localProfileLock.ts makes dropStale
\* safe.  A run that was cancelled, or retried under its cancel, is not among
\* them, although it may still use the profile (see EntitledExclusive).
THEOREM ExclusiveInOneProcess ==
    ASSUME NEW p \in Processes, OneProcess(p)
    PROVE  Spec => [](EntitledExclusive /\ EntitledKeepsFile)
<1>1. Init => OneProcessInv(p)
  BY OneProcessInit
<1>2. OneProcessInv(p) /\ [Next]_vars => OneProcessInv(p)'
  BY OneProcessNext
<1>3. OneProcessInv(p) => EntitledExclusive /\ EntitledKeepsFile
  BY InvExclusive
<1> QED
  BY <1>1, <1>2, <1>3, PTL DEF Spec
=============================================================================
