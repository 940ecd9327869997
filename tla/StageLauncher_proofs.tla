------------------------ MODULE StageLauncher_proofs ------------------------
(***************************************************************************)
(* The slots of the launcher are neither lost nor given twice, and a       *)
(* cancel waits for every worker of its run: for any number of launches,   *)
(* slots, runs and overlapping cancels.                                    *)
(***************************************************************************)
EXTENDS StageLauncher, SequenceTheorems, FiniteSetTheorems,
        WellFoundedInduction, NaturalsInduction, TLAPS

\* A queue without a launch that is in it twice.
Distinct(q) == \A i, j \in 1..Len(q) : q[i] = q[j] => i = j

\* The queued launches wait, and are queued once.
QueueWaits ==
    /\ Distinct(waitQueue)
    /\ \A i \in 1..Len(waitQueue) : pc[waitQueue[i]] = "waiting"

\* No other launch has used the key of l so far.
Alone(l) == \A m \in Launches \ {l} : KeyOf[m] = KeyOf[l] => pc[m] = "idle"

\* The map of the workers names each one whose key is its own.
ActiveNames ==
    \A l \in Launches : pc[l] = "running" /\ Alone(l) => l \in active

\* A cancel awaits workers of its own run only.
AwaitsOwn ==
    \A c \in Cancels : \A l \in awaited[c] : RunOf[l] = CancelOf[c]

\* The slots and the queue.
SlotsInv ==
    /\ pc \in [Launches -> LaunchStates]
    /\ slotsHeld \in Nat
    /\ waitQueue \in Seq(Launches)
    /\ QueueWaits
    /\ IsFiniteSet(Holders)
    /\ SlotsConserved

\* The workers and the cancels.
WorkersInv ==
    /\ cancelledRuns \subseteq Runs
    /\ active \subseteq Launches
    /\ alive \subseteq Launches
    /\ cancelling \in [Cancels -> {"idle", "waiting", "done"}]
    /\ awaited \in [Cancels -> SUBSET Launches]
    /\ ActiveNames
    /\ AwaitsOwn
    /\ CancelCoversWorkers

LauncherInv == SlotsInv /\ WorkersInv

-----------------------------------------------------------------------------
(* Taking the waiters of a run out of the queue                            *)

\* What the order of the naturals relates.
LEMMA LessThanPairs ==
    ASSUME NEW m \in Nat, NEW n \in Nat
    PROVE  <<m, n>> \in OpToRel(<, Nat) <=> m < n
BY DEF OpToRel

\* A nonempty set of naturals has a least element: what replaces induction.
LEMMA LeastElement ==
    ASSUME NEW S \in SUBSET Nat, S # {}
    PROVE  \E m \in S : \A k \in S : m <= k
<1> DEFINE R == OpToRel(<, Nat)
<1>1. PICK m \in S : \A k \in S : ~ (<<k, m>> \in R)
  BY WFMin, NatLessThanWellFounded
<1>2. \A k \in S : k < m => <<k, m>> \in R
  BY LessThanPairs
<1> HIDE DEF R
<1>3. \A k \in S : ~ (k < m)
  BY <1>1, <1>2
<1> QED
  BY <1>3

\* One step of the pass over the queue q: s is what is kept so far.
Kept(q, r, s, i) == IF RunOf[q[i]] = r THEN s ELSE Append(s, q[i])

\* f is the record of a pass over the first n entries of q.
IsPass(f, q, r, n) ==
    /\ f \in [0..n -> Seq(Launches)]
    /\ f[0] = << >>
    /\ \A i \in 1..n : f[i] = Kept(q, r, f[i - 1], i)

\* A pass over part of the queue can be continued.
LEMMA PassGoesOn ==
    ASSUME NEW q \in Seq(Launches), NEW r, NEW n \in Nat, n < Len(q),
           NEW f, IsPass(f, q, r, n)
    PROVE  \E g : IsPass(g, q, r, n + 1)
<1>1. PICK last : last = Kept(q, r, f[n], n + 1)
  OBVIOUS
<1>2. /\ f[n] \in Seq(Launches) /\ q[n + 1] \in Launches
      /\ f \in [0..n -> Seq(Launches)] /\ f[0] = << >>
      /\ \A i \in 1..n : f[i] = Kept(q, r, f[i - 1], i)
  BY DEF IsPass
<1>3. last \in Seq(Launches)
  BY <1>1, <1>2 DEF Kept
<1>4. PICK g : g = [i \in 0..(n + 1) |-> IF i = n + 1 THEN last ELSE f[i]]
  OBVIOUS
<1>5. \A i \in 0..n : g[i] = f[i]
  BY <1>4
<1>6. g \in [0..(n + 1) -> Seq(Launches)] /\ g[0] = << >> /\ g[n + 1] = last
  BY <1>2, <1>3, <1>4
<1>7. ASSUME NEW i \in 1..(n + 1)
      PROVE  g[i] = Kept(q, r, g[i - 1], i)
  <2>1. CASE i = n + 1
    <3>1. i - 1 = n /\ g[i - 1] = f[n]
      BY <1>5, <2>1
    <3> QED
      BY <1>1, <1>6, <2>1, <3>1
  <2>2. CASE i # n + 1
    <3>1. i \in 1..n /\ i - 1 \in 0..n
      BY <2>2
    <3>2. g[i] = f[i] /\ g[i - 1] = f[i - 1]
      BY <1>5, <3>1
    <3> QED
      BY <1>2, <3>1, <3>2
  <2> QED
    BY <2>1, <2>2
<1> QED
  BY <1>6, <1>7 DEF IsPass

\* There is a pass over the whole queue.
LEMMA PassExists ==
    ASSUME NEW q \in Seq(Launches), NEW r
    PROVE  \E f : IsPass(f, q, r, Len(q))
<1> DEFINE bad == {n \in 0..Len(q) : ~ \E f : IsPass(f, q, r, n)}
<1>1. Len(q) \in Nat /\ bad \in SUBSET Nat
  OBVIOUS
<1>2. CASE bad = {}
  BY <1>1, <1>2
<1>3. CASE bad # {}
  <2>1. PICK m \in bad : \A k \in bad : m <= k
    BY <1>1, <1>3, LeastElement
  <2>2. CASE m = 0
    <3>1. PICK f : f = [i \in 0..0 |-> << >>]
      OBVIOUS
    <3>2. << >> \in Seq(Launches)
      OBVIOUS
    <3>3. IsPass(f, q, r, 0)
      BY <3>1, <3>2 DEF IsPass
    <3> QED
      BY <2>1, <2>2, <3>3
  <2>3. CASE m # 0
    <3>1. PICK n \in Nat : m = n + 1
      BY <1>1, <2>1, <2>3
    <3>2. n \in 0..Len(q) /\ n < Len(q) /\ ~ (m <= n)
      BY <1>1, <2>1, <3>1
    <3>3. \E f : IsPass(f, q, r, n)
      BY <2>1, <3>2
    <3>4. \E f : IsPass(f, q, r, m)
      BY <3>1, <3>2, <3>3, PassGoesOn
    <3> QED
      BY <2>1, <3>4
  <2> QED
    BY <2>2, <2>3
<1> QED
  BY <1>2, <1>3

\* The result of a pass does not depend on how it is recorded.
LEMMA PassUnique ==
    ASSUME NEW q \in Seq(Launches), NEW r, NEW f, IsPass(f, q, r, Len(q)),
           NEW g, g[0] = << >>,
           \A i \in 1..Len(q) : g[i] = Kept(q, r, g[i - 1], i)
    PROVE  g[Len(q)] = f[Len(q)]
<1> DEFINE bad == {i \in 0..Len(q) : g[i] # f[i]}
<1>1. /\ Len(q) \in Nat /\ bad \in SUBSET Nat /\ f[0] = << >>
      /\ \A i \in 1..Len(q) : f[i] = Kept(q, r, f[i - 1], i)
  BY DEF IsPass
<1>2. CASE bad # {}
  <2>1. PICK m \in bad : \A k \in bad : m <= k
    BY <1>1, <1>2, LeastElement
  <2>2. m \in 1..Len(q) /\ m - 1 \in 0..Len(q)
    BY <1>1, <2>1
  <2>3. g[m - 1] = f[m - 1]
    <3>1. ~ (m <= m - 1)
      BY <2>2
    <3> QED
      BY <2>1, <2>2, <3>1
  <2>4. g[m] = f[m]
    BY <1>1, <2>2, <2>3
  <2> QED
    BY <2>1, <2>4
<1> QED
  BY <1>1, <1>2

\* The operator of the model is such a pass.
LEMMA WithoutIsPass ==
    ASSUME NEW q \in Seq(Launches), NEW r
    PROVE  \E f : IsPass(f, q, r, Len(q)) /\ Without(q, r) = f[Len(q)]
<1> DEFINE Rule(f) == [i \in 0..Len(q) |->
                         IF i = 0 THEN << >>
                         ELSE IF RunOf[q[i]] = r THEN f[i - 1]
                         ELSE Append(f[i - 1], q[i])]
           kept == CHOOSE f : f = Rule(f)
<1>1. Without(q, r) = kept[Len(q)]
  BY DEF Without
<1>2. PICK n \in Nat : n = Len(q)
  OBVIOUS
<1>3. PICK f : IsPass(f, q, r, n)
  BY <1>2, PassExists
<1>4. f = Rule(f)
  <2>1. \A i \in 0..n : f[i] = IF i = 0 THEN << >>
                               ELSE IF RunOf[q[i]] = r THEN f[i - 1]
                               ELSE Append(f[i - 1], q[i])
    <3> SUFFICES ASSUME NEW i \in 0..n, i # 0
                 PROVE  f[i] = IF RunOf[q[i]] = r THEN f[i - 1]
                               ELSE Append(f[i - 1], q[i])
      BY <1>3 DEF IsPass
    <3>1. i \in 1..n
      OBVIOUS
    <3> QED
      BY <1>3, <3>1 DEF IsPass, Kept
  <2>2. f = [i \in 0..n |-> f[i]]
    BY <1>3 DEF IsPass
  <2> QED
    BY <1>2, <2>1, <2>2
<1>5. kept = Rule(kept)
  BY <1>4
<1> HIDE DEF kept
<1>6. /\ kept[0] = << >>
      /\ \A i \in 1..n : kept[i] = Kept(q, r, kept[i - 1], i)
  <2>1. \A i \in 0..n : kept[i] = IF i = 0 THEN << >>
                                  ELSE IF RunOf[q[i]] = r THEN kept[i - 1]
                                  ELSE Append(kept[i - 1], q[i])
    BY <1>2, <1>5
  <2>2. 0 \in 0..n /\ \A i \in 1..n : i \in 0..n /\ i # 0
    BY <1>2
  <2> QED
    BY <2>1, <2>2 DEF Kept
<1>7. kept[Len(q)] = f[Len(q)]
  BY <1>2, <1>3, <1>6, PassUnique
<1> QED
  BY <1>1, <1>2, <1>3, <1>7

\* What is left of a queue: waiters of other runs, each as often as before.
LEMMA WithoutKeeps ==
    ASSUME NEW q \in Seq(Launches), NEW r, Distinct(q)
    PROVE  /\ Without(q, r) \in Seq(Launches)
           /\ Distinct(Without(q, r))
           /\ \A j \in 1..Len(Without(q, r)) :
                 /\ RunOf[Without(q, r)[j]] # r
                 /\ \E i \in 1..Len(q) : Without(q, r)[j] = q[i]
<1>1. PICK f : IsPass(f, q, r, Len(q)) /\ Without(q, r) = f[Len(q)]
  BY WithoutIsPass
<1>2. PICK n \in Nat : n = Len(q)
  OBVIOUS
<1> DEFINE Good(s, k) == /\ s \in Seq(Launches)
                         /\ Distinct(s)
                         /\ \A j \in 1..Len(s) :
                               /\ RunOf[s[j]] # r
                               /\ \E i \in 1..k : s[j] = q[i]
           bad == {k \in 0..n : ~ Good(f[k], k)}
<1>3. /\ f[0] = << >> /\ f \in [0..n -> Seq(Launches)]
      /\ \A i \in 1..n : f[i] = Kept(q, r, f[i - 1], i)
      /\ \A i \in 1..n : q[i] \in Launches
      /\ \A i, j \in 1..n : q[i] = q[j] => i = j
  BY <1>1, <1>2 DEF IsPass, Distinct
<1>4. ASSUME NEW k \in 0..n, k # 0, Good(f[k - 1], k - 1)
      PROVE  Good(f[k], k)
  <2>1. PICK s : s = f[k - 1]
    OBVIOUS
  <2>2. k \in 1..n /\ f[k] = Kept(q, r, s, k) /\ q[k] \in Launches
    BY <1>3, <1>4, <2>1
  <2>3. /\ s \in Seq(Launches) /\ Distinct(s)
        /\ \A j \in 1..Len(s) :
              /\ RunOf[s[j]] # r
              /\ \E i \in 1..(k - 1) : s[j] = q[i]
    BY <1>4, <2>1
  <2>4. \A j \in 1..Len(s) : s[j] # q[k] /\ \E i \in 1..k : s[j] = q[i]
    <3> SUFFICES ASSUME NEW j \in 1..Len(s)
                 PROVE  s[j] # q[k] /\ \E i \in 1..k : s[j] = q[i]
      OBVIOUS
    <3>1. PICK i \in 1..(k - 1) : s[j] = q[i]
      BY <2>3
    <3>2. i \in 1..n /\ i \in 1..k /\ i # k
      BY <1>2, <2>2
    <3> QED
      BY <1>3, <2>2, <3>1, <3>2
  <2>5. CASE RunOf[q[k]] = r
    <3>1. f[k] = s
      BY <2>2, <2>5 DEF Kept
    <3> QED
      BY <2>3, <2>4, <3>1
  <2>6. CASE RunOf[q[k]] # r
    <3>1. PICK m \in Nat : m = Len(s)
      BY <2>3
    <3>2. PICK w : w = Append(s, q[k])
      OBVIOUS
    <3>3. /\ w \in Seq(Launches) /\ Len(w) = m + 1 /\ w[m + 1] = q[k]
          /\ \A j \in 1..m : w[j] = s[j]
      BY <2>2, <2>3, <3>1, <3>2
    <3>4. \A j \in 1..(m + 1) : j \in 1..m \/ j = m + 1
      BY <3>1
    <3>5. Distinct(w)
      BY <2>3, <2>4, <3>1, <3>3, <3>4 DEF Distinct
    <3>6. \A j \in 1..Len(w) : /\ RunOf[w[j]] # r
                               /\ \E i \in 1..k : w[j] = q[i]
      <4>1. k \in 1..k
        BY <2>2
      <4> QED
        BY <2>3, <2>4, <2>6, <3>1, <3>3, <3>4, <4>1
    <3>7. f[k] = w
      BY <2>2, <2>6, <3>2 DEF Kept
    <3> QED
      BY <3>3, <3>5, <3>6, <3>7
  <2> QED
    BY <2>5, <2>6
<1>5. Good(f[0], 0)
  <2>1. << >> \in Seq(Launches) /\ Len(<< >>) = 0
    OBVIOUS
  <2> QED
    BY <1>3, <2>1 DEF Distinct
<1>6. bad = {}
  <2> SUFFICES ASSUME bad # {}
               PROVE  FALSE
    OBVIOUS
  <2> HIDE DEF Good
  <2>1. bad \in SUBSET Nat
    BY <1>2
  <2>2. PICK m \in bad : \A k \in bad : m <= k
    BY <2>1, LeastElement
  <2>3. m \in 0..n /\ m # 0 /\ ~ Good(f[m], m)
    BY <1>5, <2>2
  <2>4. m - 1 \in 0..n /\ ~ (m <= m - 1)
    BY <1>2, <2>3
  <2>5. Good(f[m - 1], m - 1)
    BY <2>2, <2>4
  <2> QED
    BY <1>4, <2>3, <2>5
<1>7. Good(f[n], n)
  <2> HIDE DEF Good
  <2>1. n \in 0..n
    BY <1>2
  <2> QED
    BY <1>6, <2>1
<1> QED
  BY <1>1, <1>2, <1>7

-----------------------------------------------------------------------------
(* The slots                                                               *)

\* A launch leaves the slots: one holder less.
LEMMA HolderLeaves ==
    ASSUME IsFiniteSet(Holders), SlotsConserved, NEW l \in Holders,
           slotsHeld' = slotsHeld - 1, Holders' = Holders \ {l}
    PROVE  IsFiniteSet(Holders)' /\ SlotsConserved' /\ slotsHeld' \in Nat
<1>1. /\ IsFiniteSet(Holders \ {l})
      /\ Cardinality(Holders \ {l}) = Cardinality(Holders) - 1
  BY FS_RemoveElement
<1>2. Cardinality(Holders \ {l}) \in Nat
  BY <1>1, FS_CardinalityType
<1>3. slotsHeld = Cardinality(Holders) /\ slotsHeld <= MaxActive
  BY DEF SlotsConserved
<1>4. Cardinality(Holders) \in Nat
  BY FS_CardinalityType
<1>5. slotsHeld' = Cardinality(Holders \ {l}) /\ slotsHeld' <= MaxActive
  BY <1>1, <1>3, <1>4, LauncherAssumption
<1> QED
  BY <1>1, <1>2, <1>5 DEF SlotsConserved

\* A launch gets a free slot: one holder more.
LEMMA HolderComes ==
    ASSUME IsFiniteSet(Holders), SlotsConserved, slotsHeld < MaxActive,
           NEW l, l \notin Holders,
           slotsHeld' = slotsHeld + 1, Holders' = Holders \cup {l}
    PROVE  IsFiniteSet(Holders)' /\ SlotsConserved' /\ slotsHeld' \in Nat
<1>1. /\ IsFiniteSet(Holders \cup {l})
      /\ Cardinality(Holders \cup {l}) = Cardinality(Holders) + 1
  BY FS_AddElement
<1>2. slotsHeld = Cardinality(Holders) /\ Cardinality(Holders) \in Nat
  BY FS_CardinalityType DEF SlotsConserved
<1>3. /\ slotsHeld' = Cardinality(Holders \cup {l})
      /\ slotsHeld' <= MaxActive /\ slotsHeld' \in Nat
  BY <1>1, <1>2, LauncherAssumption
<1> QED
  BY <1>1, <1>3 DEF SlotsConserved

\* What a step of launches does to the others: a waiter may be woken or
\* refused, and nothing else.
OthersKept(l) ==
    \A m \in Launches \ {l} :
        \/ pc'[m] = pc[m]
        \/ pc[m] = "waiting" /\ pc'[m] \in {"woken", "done"}

\* A slot is given back, and the first waiter is woken, who holds none.
LEMMA ReleaseKeeps ==
    ASSUME SlotsInv, NEW l \in Launches, pc[l] \in {"granted", "running"},
           Release(l, "done")
    PROVE  SlotsInv' /\ pc'[l] = "done" /\ OthersKept(l)
<1>1. /\ pc \in [Launches -> LaunchStates] /\ waitQueue \in Seq(Launches)
      /\ Distinct(waitQueue)
      /\ \A i \in 1..Len(waitQueue) : pc[waitQueue[i]] = "waiting"
      /\ IsFiniteSet(Holders) /\ SlotsConserved
  BY DEF SlotsInv, QueueWaits
<1>2. l \in Holders
  BY DEF Holders
<1>3. CASE waitQueue = << >>
  <2>1. /\ pc' = [pc EXCEPT ![l] = "done"] /\ waitQueue' = waitQueue
        /\ slotsHeld' = slotsHeld - 1
    BY <1>3 DEF Release
  <2>2. /\ pc' \in [Launches -> LaunchStates] /\ pc'[l] = "done"
        /\ \A m \in Launches \ {l} : pc'[m] = pc[m]
    BY <1>1, <2>1 DEF LaunchStates
  <2>3. Holders' = Holders \ {l}
    BY <2>2 DEF Holders
  <2>4. QueueWaits'
    BY <1>3, <2>1 DEF QueueWaits, Distinct
  <2> QED
    BY <1>1, <1>2, <2>1, <2>2, <2>3, <2>4, HolderLeaves DEF SlotsInv, OthersKept
<1>4. CASE waitQueue # << >>
  <2>1. PICK h : h = Head(waitQueue)
    OBVIOUS
  <2>2. PICK n \in Nat : n = Len(waitQueue)
    BY <1>1
  <2>3. /\ n > 0 /\ h = waitQueue[1] /\ h \in Launches /\ pc[h] = "waiting"
    BY <1>1, <1>4, <2>1, <2>2
  <2>4. /\ pc' = [pc EXCEPT ![l] = "done", ![h] = "woken"]
        /\ waitQueue' = Tail(waitQueue) /\ slotsHeld' = slotsHeld - 1
    BY <1>4, <2>1 DEF Release
  <2>5. h # l
    BY <2>3
  <2>6. /\ pc' \in [Launches -> LaunchStates] /\ pc'[l] = "done"
        /\ pc'[h] = "woken"
        /\ \A m \in Launches \ {l, h} : pc'[m] = pc[m]
    BY <1>1, <2>3, <2>4, <2>5 DEF LaunchStates
  <2>7. Holders' = Holders \ {l}
    BY <2>3, <2>6 DEF Holders
  <2>8. /\ waitQueue' \in Seq(Launches) /\ Len(waitQueue') = n - 1
        /\ \A i \in 1..(n - 1) : waitQueue'[i] = waitQueue[i + 1]
    BY <1>1, <1>4, <2>2, <2>4
  <2>9. QueueWaits'
    <3>1. Distinct(waitQueue')
      BY <1>1, <2>2, <2>8 DEF Distinct
    <3>2. ASSUME NEW i \in 1..(n - 1)
          PROVE  pc'[waitQueue'[i]] = "waiting"
      <4>1. i + 1 \in 1..n /\ 1 \in 1..n /\ i + 1 # 1
        BY <2>2, <2>3
      <4>2. /\ waitQueue[i + 1] # h /\ waitQueue[i + 1] \in Launches
            /\ pc[waitQueue[i + 1]] = "waiting"
        BY <1>1, <2>2, <2>3, <4>1 DEF Distinct
      <4> QED
        BY <2>6, <2>8, <4>2
    <3> QED
      BY <2>8, <3>1, <3>2 DEF QueueWaits, Distinct
  <2>10. OthersKept(l)
    BY <2>3, <2>6 DEF OthersKept
  <2> QED
    BY <1>1, <1>2, <2>4, <2>6, <2>7, <2>8, <2>9, <2>10, HolderLeaves DEF SlotsInv
<1> QED
  BY <1>3, <1>4

\* A launch without a slot is refused, gets a slot, or queues at the back.
LEMMA WaitForCapacityKeeps ==
    ASSUME SlotsInv, NEW l \in Launches, pc[l] \in {"idle", "woken"},
           WaitForCapacity(l)
    PROVE  SlotsInv' /\ pc'[l] \in {"done", "granted", "waiting"} /\ OthersKept(l)
<1>1. /\ pc \in [Launches -> LaunchStates] /\ waitQueue \in Seq(Launches)
      /\ Distinct(waitQueue) /\ slotsHeld \in Nat
      /\ \A i \in 1..Len(waitQueue) : pc[waitQueue[i]] = "waiting"
      /\ IsFiniteSet(Holders) /\ SlotsConserved
  BY DEF SlotsInv, QueueWaits
<1>2. l \notin Holders /\ \A i \in 1..Len(waitQueue) : waitQueue[i] # l
  BY <1>1 DEF Holders
<1>3. ASSUME NEW s \in {"done", "granted", "waiting"},
             pc' = [pc EXCEPT ![l] = s]
      PROVE  /\ pc' \in [Launches -> LaunchStates] /\ pc'[l] = s
             /\ \A m \in Launches \ {l} : pc'[m] = pc[m]
             /\ OthersKept(l)
             /\ \A i \in 1..Len(waitQueue) : pc'[waitQueue[i]] = "waiting"
  BY <1>1, <1>2, <1>3 DEF LaunchStates, OthersKept
<1>4. CASE /\ pc' = [pc EXCEPT ![l] = "done"]
           /\ UNCHANGED <<slotsHeld, waitQueue>>
  <2>1. Holders' = Holders
    BY <1>2, <1>3, <1>4 DEF Holders
  <2> QED
    BY <1>1, <1>3, <1>4, <2>1 DEF SlotsInv, QueueWaits, SlotsConserved
<1>5. CASE /\ slotsHeld < MaxActive /\ pc' = [pc EXCEPT ![l] = "granted"]
           /\ slotsHeld' = slotsHeld + 1 /\ waitQueue' = waitQueue
  <2>1. Holders' = Holders \cup {l}
    BY <1>3, <1>5 DEF Holders
  <2>2. IsFiniteSet(Holders)' /\ SlotsConserved' /\ slotsHeld' \in Nat
    BY <1>1, <1>2, <1>5, <2>1, HolderComes
  <2> QED
    BY <1>1, <1>3, <1>5, <2>2 DEF SlotsInv, QueueWaits
<1>6. CASE /\ pc' = [pc EXCEPT ![l] = "waiting"]
           /\ waitQueue' = Append(waitQueue, l) /\ slotsHeld' = slotsHeld
  <2>1. Holders' = Holders
    BY <1>2, <1>3, <1>6 DEF Holders
  <2>2. PICK n \in Nat : n = Len(waitQueue)
    BY <1>1
  <2>3. /\ waitQueue' \in Seq(Launches) /\ Len(waitQueue') = n + 1
        /\ waitQueue'[n + 1] = l
        /\ \A i \in 1..n : waitQueue'[i] = waitQueue[i]
    BY <1>1, <1>6, <2>2
  <2>4. \A i \in 1..(n + 1) : i \in 1..n \/ i = n + 1
    BY <2>2
  <2>5. Distinct(waitQueue')
    BY <1>1, <1>2, <2>2, <2>3, <2>4 DEF Distinct
  <2>6. \A i \in 1..(n + 1) : pc'[waitQueue'[i]] = "waiting"
    BY <1>3, <1>6, <2>2, <2>3, <2>4
  <2>7. QueueWaits'
    BY <2>3, <2>5, <2>6 DEF QueueWaits, Distinct
  <2> QED
    BY <1>1, <1>3, <1>6, <2>1, <2>3, <2>7 DEF SlotsInv, SlotsConserved
<1> QED
  BY <1>4, <1>5, <1>6 DEF WaitForCapacity

-----------------------------------------------------------------------------
(* The workers and the cancels                                             *)

\* The worker of a launch that was alone with its key, and still is.
LEMMA StillAlone ==
    ASSUME NEW l \in Launches,
           \A m \in Launches : pc'[m] = "idle" => pc[m] = "idle",
           Alone(l)'
    PROVE  Alone(l)
BY DEF Alone

\* A launch that is not running after the step: its entry in the map, or one
\* of the same key, may go, and no cancel is lost.
LEMMA WorkersKept ==
    ASSUME LauncherInv, NEW l \in Launches, OthersKept(l),
           pc'[l] \notin {"idle", "running"},
           active' \in SUBSET active,
           \A m \in active \ active' : KeyOf[m] = KeyOf[l],
           alive' \in SUBSET Launches,
           UNCHANGED <<cancelledRuns, cancelling, awaited>>
    PROVE  WorkersInv'
<1>1. WorkersInv
  BY DEF LauncherInv
<1>2. \A m \in Launches : /\ pc'[m] = "idle" => pc[m] = "idle"
                          /\ pc'[m] = "running" => pc[m] = "running" /\ m # l
  BY DEF OthersKept
<1>3. ASSUME NEW m \in Launches, pc'[m] = "running", Alone(m)'
      PROVE  pc[m] = "running" /\ Alone(m) /\ m \in active'
  <2>1. pc[m] = "running" /\ Alone(m) /\ m # l
    BY <1>2, <1>3, StillAlone
  <2>2. m \in active
    BY <1>1, <2>1 DEF WorkersInv, ActiveNames
  <2>3. KeyOf[m] # KeyOf[l]
    BY <1>3, <2>1 DEF Alone
  <2> QED
    BY <2>1, <2>2, <2>3
<1>4. ActiveNames'
  BY <1>3 DEF ActiveNames
<1>5. CancelCoversWorkers'
  <2> SUFFICES ASSUME NEW m \in Launches, pc'[m] = "running",
                      RunOf[m] \in cancelledRuns', Alone(m)'
               PROVE  \E c \in Cancels :
                         cancelling'[c] = "waiting" /\ m \in awaited'[c]
    BY DEF CancelCoversWorkers, Alone
  <2>1. pc[m] = "running" /\ RunOf[m] \in cancelledRuns /\ Alone(m)
    BY <1>3
  <2> QED
    BY <1>1, <2>1 DEF WorkersInv, CancelCoversWorkers, Alone
<1> QED
  BY <1>1, <1>4, <1>5 DEF WorkersInv, AwaitsOwn

\* A launch is called.
LEMMA LaunchKeeps ==
    ASSUME LauncherInv, NEW l \in Launches, Launch(l)
    PROVE  LauncherInv'
<1>1. /\ pc[l] = "idle" /\ SlotsInv
      /\ UNCHANGED <<cancelledRuns, active, alive, cancelling, awaited>>
  BY DEF Launch, LauncherInv
<1>2. SlotsInv' /\ pc'[l] \in {"done", "granted", "waiting"} /\ OthersKept(l)
  <2>1. CASE WaitForCapacity(l)
    BY <1>1, <2>1, WaitForCapacityKeeps
  <2>2. CASE pc' = [pc EXCEPT ![l] = "done"] /\ UNCHANGED <<slotsHeld, waitQueue>>
    <3>1. /\ pc' \in [Launches -> LaunchStates] /\ pc'[l] = "done"
          /\ \A m \in Launches \ {l} : pc'[m] = pc[m]
      BY <1>1, <2>2 DEF SlotsInv, LaunchStates
    <3>2. Holders' = Holders
      BY <1>1, <3>1 DEF Holders
    <3>3. QueueWaits'
      BY <1>1, <2>2, <3>1 DEF SlotsInv, QueueWaits, Distinct
    <3> QED
      BY <1>1, <2>2, <3>1, <3>2, <3>3 DEF SlotsInv, SlotsConserved, OthersKept
  <2> QED
    BY <2>1, <2>2 DEF Launch
<1>3. alive' \in SUBSET Launches
  BY <1>1 DEF LauncherInv, WorkersInv
<1>4. WorkersInv'
  BY <1>1, <1>2, <1>3, WorkersKept
<1> QED
  BY <1>2, <1>4 DEF LauncherInv

\* A woken waiter looks again.
LEMMA RetryKeeps ==
    ASSUME LauncherInv, NEW l \in Launches, Retry(l)
    PROVE  LauncherInv'
<1>1. /\ pc[l] = "woken" /\ SlotsInv /\ WaitForCapacity(l)
      /\ UNCHANGED <<cancelledRuns, active, alive, cancelling, awaited>>
  BY DEF Retry, LauncherInv
<1>2. SlotsInv' /\ pc'[l] \in {"done", "granted", "waiting"} /\ OthersKept(l)
  BY <1>1, WaitForCapacityKeeps
<1>3. alive' \in SUBSET Launches
  BY <1>1 DEF LauncherInv, WorkersInv
<1>4. WorkersInv'
  BY <1>1, <1>2, <1>3, WorkersKept
<1> QED
  BY <1>2, <1>4 DEF LauncherInv

\* A granted launch fails, or finds its run cancelled.
LEMMA SpawnFailsKeeps ==
    ASSUME LauncherInv, NEW l \in Launches, SpawnFails(l)
    PROVE  LauncherInv'
<1>1. /\ pc[l] = "granted" /\ SlotsInv /\ Release(l, "done")
      /\ UNCHANGED <<cancelledRuns, active, alive, cancelling, awaited>>
  BY DEF SpawnFails, LauncherInv
<1>2. SlotsInv' /\ pc'[l] = "done" /\ OthersKept(l)
  BY <1>1, ReleaseKeeps
<1>3. alive' \in SUBSET Launches
  BY <1>1 DEF LauncherInv, WorkersInv
<1>4. WorkersInv'
  BY <1>1, <1>2, <1>3, WorkersKept
<1> QED
  BY <1>2, <1>4 DEF LauncherInv

\* A worker reports, or exits before it has: the launch is finished.
LEMMA FinishKeeps ==
    ASSUME LauncherInv, NEW l \in Launches, pc[l] = "running", Finish(l),
           alive' \in SUBSET Launches,
           UNCHANGED <<cancelledRuns, cancelling, awaited>>
    PROVE  LauncherInv'
<1>1. /\ SlotsInv /\ Release(l, "done")
      /\ active' = {m \in active : KeyOf[m] # KeyOf[l]}
  BY DEF Finish, LauncherInv
<1>2. SlotsInv' /\ pc'[l] = "done" /\ OthersKept(l)
  BY <1>1, ReleaseKeeps
<1>3. /\ active' \in SUBSET active
      /\ \A m \in active \ active' : KeyOf[m] = KeyOf[l]
  BY <1>1
<1>4. WorkersInv'
  BY <1>2, <1>3, WorkersKept
<1> QED
  BY <1>2, <1>4 DEF LauncherInv

\* Steps of a worker and of a cancel that leave the launches alone.
LEMMA LaunchesAlone ==
    ASSUME LauncherInv, UNCHANGED <<pc, slotsHeld, waitQueue>>
    PROVE  SlotsInv'
BY DEF LauncherInv, SlotsInv, QueueWaits, Distinct, Holders, SlotsConserved

\* A worker exits.
LEMMA ExitKeeps ==
    ASSUME LauncherInv, NEW l \in Launches, Exit(l)
    PROVE  LauncherInv'
<1>1. /\ alive' = alive \ {l} /\ alive' \in SUBSET Launches
      /\ UNCHANGED <<cancelledRuns, cancelling, awaited>>
  BY DEF Exit, LauncherInv, WorkersInv
<1>2. CASE pc[l] = "running"
  BY <1>1, <1>2, FinishKeeps DEF Exit
<1>3. CASE pc[l] # "running"
  <2>1. UNCHANGED <<pc, slotsHeld, waitQueue, active>>
    BY <1>3 DEF Exit
  <2>2. SlotsInv'
    BY <2>1, LaunchesAlone
  <2>3. WorkersInv'
    BY <1>1, <2>1 DEF LauncherInv, WorkersInv, ActiveNames, Alone, AwaitsOwn,
                      CancelCoversWorkers
  <2> QED
    BY <2>2, <2>3 DEF LauncherInv
<1> QED
  BY <1>2, <1>3

\* A worker is forked, for a run that is not being cancelled.
LEMMA SpawnKeeps ==
    ASSUME LauncherInv, NEW l \in Launches, Spawn(l)
    PROVE  LauncherInv'
<1>1. /\ pc[l] = "granted" /\ RunOf[l] \notin cancelledRuns
      /\ pc' = [pc EXCEPT ![l] = "running"]
      /\ active' = {m \in active : KeyOf[m] # KeyOf[l]} \cup {l}
      /\ alive' = alive \cup {l}
      /\ UNCHANGED <<slotsHeld, waitQueue, cancelledRuns, cancelling, awaited>>
  BY DEF Spawn
<1>2. SlotsInv /\ WorkersInv
  BY DEF LauncherInv
<1>3. /\ pc' \in [Launches -> LaunchStates] /\ pc'[l] = "running"
      /\ \A m \in Launches \ {l} : pc'[m] = pc[m]
  BY <1>1, <1>2 DEF SlotsInv, LaunchStates
<1>4. SlotsInv'
  <2>1. Holders' = Holders
    BY <1>1, <1>3 DEF Holders
  <2>2. \A i \in 1..Len(waitQueue) : pc'[waitQueue[i]] = "waiting"
    BY <1>1, <1>2, <1>3 DEF SlotsInv, QueueWaits
  <2>3. QueueWaits'
    BY <1>1, <1>2, <2>2 DEF SlotsInv, QueueWaits, Distinct
  <2> QED
    BY <1>1, <1>2, <1>3, <2>1, <2>3 DEF SlotsInv, SlotsConserved
<1>5. ASSUME NEW m \in Launches \ {l}, pc'[m] = "running", Alone(m)'
      PROVE  pc[m] = "running" /\ Alone(m) /\ KeyOf[m] # KeyOf[l]
  BY <1>3, <1>5, StillAlone DEF Alone
<1>6. ActiveNames'
  BY <1>1, <1>2, <1>5 DEF WorkersInv, ActiveNames
<1>7. CancelCoversWorkers'
  <2> SUFFICES ASSUME NEW m \in Launches, pc'[m] = "running",
                      RunOf[m] \in cancelledRuns', Alone(m)'
               PROVE  \E c \in Cancels :
                         cancelling'[c] = "waiting" /\ m \in awaited'[c]
    BY DEF CancelCoversWorkers, Alone
  <2>1. m # l
    BY <1>1
  <2>2. pc[m] = "running" /\ RunOf[m] \in cancelledRuns /\ Alone(m)
    BY <1>1, <1>5, <2>1
  <2> QED
    BY <1>1, <1>2, <2>2 DEF WorkersInv, CancelCoversWorkers, Alone
<1>8. WorkersInv'
  BY <1>1, <1>2, <1>6, <1>7 DEF WorkersInv, AwaitsOwn
<1> QED
  BY <1>4, <1>8 DEF LauncherInv

\* A cancel begins: it awaits every worker of its run that the map names.
LEMMA CancelRunKeeps ==
    ASSUME LauncherInv, NEW c \in Cancels, CancelRun(c)
    PROVE  LauncherInv'
<1>1. PICK r \in Runs : r = CancelOf[c]
  BY LauncherAssumption
<1>2. PICK children : children = {l \in active : RunOf[l] = r}
  OBVIOUS
<1>3. /\ cancelling[c] = "idle"
      /\ pc' = [l \in Launches |->
                  IF pc[l] = "waiting" /\ RunOf[l] = r THEN "done" ELSE pc[l]]
      /\ waitQueue' = Without(waitQueue, r)
      /\ cancelledRuns' = IF children = {} THEN cancelledRuns \ {r}
                          ELSE cancelledRuns \cup {r}
      /\ cancelling' = [cancelling EXCEPT ![c] =
                          IF children = {} THEN "done" ELSE "waiting"]
      /\ awaited' = [awaited EXCEPT ![c] = children]
      /\ UNCHANGED <<slotsHeld, active, alive>>
  BY <1>1, <1>2 DEF CancelRun
<1>4. SlotsInv /\ WorkersInv
  BY DEF LauncherInv
<1>5. /\ pc' \in [Launches -> LaunchStates]
      /\ \A l \in Launches :
            \/ pc'[l] = pc[l]
            \/ pc[l] = "waiting" /\ pc'[l] = "done" /\ RunOf[l] = r
  BY <1>3, <1>4 DEF SlotsInv, LaunchStates
<1>6. SlotsInv'
  <2>1. Holders' = Holders
    BY <1>5 DEF Holders
  <2>2. waitQueue \in Seq(Launches) /\ Distinct(waitQueue)
    BY <1>4 DEF SlotsInv, QueueWaits
  <2>3. PICK w : w = Without(waitQueue, r)
    OBVIOUS
  <2>4. /\ w \in Seq(Launches) /\ Distinct(w)
        /\ \A j \in 1..Len(w) : /\ RunOf[w[j]] # r
                                /\ \E i \in 1..Len(waitQueue) : w[j] = waitQueue[i]
    BY <2>2, <2>3, WithoutKeeps
  <2>5. \A j \in 1..Len(w) : pc'[w[j]] = "waiting"
    <3> SUFFICES ASSUME NEW j \in 1..Len(w)
                 PROVE  pc'[w[j]] = "waiting"
      OBVIOUS
    <3>1. /\ w[j] \in Launches /\ pc[w[j]] = "waiting" /\ RunOf[w[j]] # r
      BY <1>4, <2>4 DEF SlotsInv, QueueWaits
    <3> QED
      BY <1>5, <3>1
  <2>6. QueueWaits'
    BY <1>3, <2>3, <2>4, <2>5 DEF QueueWaits, Distinct
  <2> QED
    BY <1>3, <1>4, <1>5, <2>1, <2>3, <2>4, <2>6 DEF SlotsInv, SlotsConserved
<1>7. \A l \in Launches : /\ pc'[l] = "idle" => pc[l] = "idle"
                          /\ pc'[l] = "running" => pc[l] = "running"
  BY <1>5
<1>8. ActiveNames'
  BY <1>3, <1>4, <1>7, StillAlone DEF WorkersInv, ActiveNames
<1>9. /\ children \in SUBSET Launches
      /\ cancelling \in [Cancels -> {"idle", "waiting", "done"}]
      /\ awaited \in [Cancels -> SUBSET Launches]
  BY <1>2, <1>4 DEF WorkersInv
<1>10. /\ awaited' \in [Cancels -> SUBSET Launches] /\ awaited'[c] = children
       /\ cancelling' \in [Cancels -> {"idle", "waiting", "done"}]
       /\ children # {} => cancelling'[c] = "waiting"
       /\ \A d \in Cancels \ {c} : /\ awaited'[d] = awaited[d]
                                   /\ cancelling'[d] = cancelling[d]
  BY <1>3, <1>9
<1>11. AwaitsOwn'
  BY <1>1, <1>2, <1>4, <1>10 DEF WorkersInv, AwaitsOwn
<1>12. CancelCoversWorkers'
  <2> SUFFICES ASSUME NEW m \in Launches, pc'[m] = "running",
                      RunOf[m] \in cancelledRuns', Alone(m)'
               PROVE  \E d \in Cancels :
                         cancelling'[d] = "waiting" /\ m \in awaited'[d]
    BY DEF CancelCoversWorkers, Alone
  <2>1. pc[m] = "running" /\ Alone(m) /\ m \in active
    BY <1>4, <1>7, StillAlone DEF WorkersInv, ActiveNames
  <2>2. CASE RunOf[m] = r
    <3>1. m \in children
      BY <1>2, <2>1, <2>2
    <3> QED
      BY <1>10, <3>1
  <2>3. CASE RunOf[m] # r
    <3>1. RunOf[m] \in cancelledRuns
      BY <1>3, <2>3
    <3>2. PICK d \in Cancels : cancelling[d] = "waiting" /\ m \in awaited[d]
      BY <1>4, <2>1, <3>1 DEF WorkersInv, CancelCoversWorkers, Alone
    <3>3. d # c
      BY <1>3, <3>2
    <3> QED
      BY <1>10, <3>2, <3>3
  <2> QED
    BY <2>2, <2>3
<1>13. WorkersInv'
  BY <1>3, <1>4, <1>8, <1>10, <1>11, <1>12 DEF WorkersInv
<1> QED
  BY <1>6, <1>13 DEF LauncherInv

\* A cancel returns: the workers of other runs have cancels of their own.
LEMMA CancelReturnsKeeps ==
    ASSUME LauncherInv, NEW c \in Cancels, CancelReturns(c)
    PROVE  LauncherInv'
<1>1. /\ cancelling' = [cancelling EXCEPT ![c] = "done"]
      /\ cancelledRuns' = cancelledRuns \ {CancelOf[c]}
      /\ UNCHANGED <<pc, slotsHeld, waitQueue, active, alive, awaited>>
  BY DEF CancelReturns
<1>2. SlotsInv' /\ WorkersInv
  BY <1>1, LaunchesAlone DEF LauncherInv
<1>3. /\ cancelling' \in [Cancels -> {"idle", "waiting", "done"}]
      /\ \A d \in Cancels \ {c} : cancelling'[d] = cancelling[d]
  BY <1>1, <1>2 DEF WorkersInv
<1>4. CancelCoversWorkers'
  <2> SUFFICES ASSUME NEW m \in Launches, pc'[m] = "running",
                      RunOf[m] \in cancelledRuns', Alone(m)'
               PROVE  \E d \in Cancels :
                         cancelling'[d] = "waiting" /\ m \in awaited'[d]
    BY DEF CancelCoversWorkers, Alone
  <2>1. /\ pc[m] = "running" /\ Alone(m) /\ RunOf[m] \in cancelledRuns
        /\ RunOf[m] # CancelOf[c]
    BY <1>1 DEF Alone
  <2>2. PICK d \in Cancels : cancelling[d] = "waiting" /\ m \in awaited[d]
    BY <1>2, <2>1 DEF WorkersInv, CancelCoversWorkers, Alone
  <2>3. d # c
    BY <1>2, <2>1, <2>2 DEF WorkersInv, AwaitsOwn
  <2> QED
    BY <1>1, <1>3, <2>2, <2>3
<1>5. ActiveNames' /\ AwaitsOwn'
  BY <1>1, <1>2 DEF WorkersInv, ActiveNames, Alone, AwaitsOwn
<1>6. WorkersInv'
  BY <1>1, <1>2, <1>3, <1>4, <1>5 DEF WorkersInv
<1> QED
  BY <1>2, <1>6 DEF LauncherInv

-----------------------------------------------------------------------------
(* The theorems                                                            *)

\* At first nothing is launched and no slot is held.
LEMMA LauncherInvInit == Init => LauncherInv
<1> SUFFICES ASSUME Init
             PROVE  LauncherInv
  OBVIOUS
<1>1. Holders = {}
  BY DEF Init, Holders
<1>2. IsFiniteSet(Holders) /\ Cardinality(Holders) = 0
  BY <1>1, FS_EmptySet
<1>3. SlotsInv
  <2>1. << >> \in Seq(Launches) /\ Len(<< >>) = 0
    OBVIOUS
  <2> QED
    BY <1>2, <2>1, LauncherAssumption DEF Init, SlotsInv, SlotsConserved,
       QueueWaits, Distinct, LaunchStates
<1>4. WorkersInv
  BY DEF Init, WorkersInv, ActiveNames, AwaitsOwn, CancelCoversWorkers
<1> QED
  BY <1>3, <1>4 DEF LauncherInv

\* Every step preserves the invariant.
LEMMA LauncherInvNext == LauncherInv /\ [Next]_vars => LauncherInv'
<1> SUFFICES ASSUME LauncherInv, [Next]_vars
             PROVE  LauncherInv'
  OBVIOUS
<1>1. ASSUME NEW l \in Launches,
             Launch(l) \/ Retry(l) \/ SpawnFails(l) \/ Spawn(l)
      PROVE  LauncherInv'
  BY <1>1, LaunchKeeps, RetryKeeps, SpawnFailsKeeps, SpawnKeeps
<1>2. ASSUME NEW l \in Launches, Report(l)
      PROVE  LauncherInv'
  <2>1. alive' \in SUBSET Launches
    BY <1>2 DEF Report, LauncherInv, WorkersInv
  <2> QED
    BY <1>2, <2>1, FinishKeeps DEF Report
<1>3. ASSUME NEW l \in Launches, Exit(l)
      PROVE  LauncherInv'
  BY <1>3, ExitKeeps
<1>4. ASSUME NEW c \in Cancels, CancelRun(c) \/ CancelReturns(c)
      PROVE  LauncherInv'
  BY <1>4, CancelRunKeeps, CancelReturnsKeeps
<1>5. CASE UNCHANGED vars
  <2>1. SlotsInv'
    BY <1>5, LaunchesAlone DEF vars
  <2>2. WorkersInv'
    BY <1>5 DEF vars, LauncherInv, WorkersInv, ActiveNames, Alone, AwaitsOwn,
                CancelCoversWorkers
  <2> QED
    BY <2>1, <2>2 DEF LauncherInv
<1> QED
  BY <1>1, <1>2, <1>3, <1>4, <1>5 DEF Next

\* The invariant of the launcher holds always.
THEOREM LauncherInvariant == Spec => []LauncherInv
BY LauncherInvInit, LauncherInvNext, PTL DEF Spec

\* Every launch and every cancel stays in a state the code knows.
THEOREM LauncherTypeCorrect == Spec => []TypeOK
<1>1. LauncherInv => TypeOK
  BY DEF LauncherInv, SlotsInv, WorkersInv, TypeOK
<1> QED
  BY <1>1, LauncherInvariant, PTL

\* The counter of the slots is the number of launches that hold one and never
\* exceeds the limit, on every path through launch, exit and cancelRun, for
\* any number of launches, also when they are without end.
THEOREM SlotsAlwaysConserved == Spec => []SlotsConserved
<1>1. LauncherInv => SlotsConserved
  BY DEF LauncherInv, SlotsInv
<1> QED
  BY <1>1, LauncherInvariant, PTL

\* A cancel in progress waits for every worker of its run whose stage was
\* launched once, although launches go on while workers are being killed.
THEOREM CancelAlwaysCoversWorkers == Spec => []CancelCoversWorkers
<1>1. LauncherInv => CancelCoversWorkers
  BY DEF LauncherInv, WorkersInv
<1> QED
  BY <1>1, LauncherInvariant, PTL
=============================================================================
