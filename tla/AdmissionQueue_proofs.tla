----------------------- MODULE AdmissionQueue_proofs -----------------------
(***************************************************************************)
(* The operations of the admission queue keep its structure: lemmas for    *)
(* the proofs about the queue under its clients and about the run manager. *)
(***************************************************************************)
EXTENDS AdmissionQueueDrain, SequenceTheorems, FiniteSetTheorems,
        WellFoundedInduction, TLAPS

\* A pair of naturals in increasing order is in the less-than relation.
LEMMA LessThanPairs ==
    \A x, y \in Nat : x < y => <<x, y>> \in OpToRel(<, Nat)
<1>1. OpToRel(<, Nat) = {ss \in Nat \X Nat : ss[1] < ss[2]}
  BY Zenon DEF OpToRel
<1> QED
  BY <1>1

\* A nonempty set of natural numbers has a least element, so Min, which the
\* queue uses to find the first servable root and the first eligible entry,
\* returns a member of the set that no other member precedes.
LEMMA MinInSet ==
    ASSUME NEW S \in SUBSET Nat, S # {}
    PROVE  Min(S) \in S /\ \A y \in S : Min(S) =< y
<1> DEFINE R == OpToRel(<, Nat)
<1>1. PICK x \in S : \A y \in S : ~ (<<y, x>> \in R)
  BY WFMin, NatLessThanWellFounded
<1>2. \A y \in S : y < x => <<y, x>> \in R
  BY LessThanPairs
<1> HIDE DEF R
<1>3. \A y \in S : x =< y
  <2>1. SUFFICES ASSUME NEW y \in S
                 PROVE  x =< y
    OBVIOUS
  <2>2. ~ (y < x)
    BY <1>1, <1>2
  <2> QED
    BY <2>2
<1> QED
  BY <1>3 DEF Min

\* An index computed modulo the length of the order points into the order.
LEMMA ModBounds ==
    ASSUME NEW a \in Nat, NEW n \in Nat \ {0}
    PROVE  a % n \in 0 .. n - 1
OBVIOUS

\* Removing an entry yields a sequence over the same set, one shorter.
LEMMA RemoveAtSeq ==
    ASSUME NEW S, NEW s \in Seq(S), NEW i \in 1 .. Len(s)
    PROVE  /\ RemoveAt(s, i) \in Seq(S)
           /\ Len(RemoveAt(s, i)) = Len(s) - 1
           /\ \A j \in 1 .. Len(s) - 1 :
                 RemoveAt(s, i)[j] = IF j < i THEN s[j] ELSE s[j + 1]
<1> DEFINE a == SubSeq(s, 1, i - 1)
           b == SubSeq(s, i + 1, Len(s))
<1>1. /\ a \in Seq(S)
      /\ Len(a) = i - 1
      /\ \A j \in 1 .. i - 1 : a[j] = s[j]
  OBVIOUS
<1>2. /\ b \in Seq(S)
      /\ Len(b) = Len(s) - i
      /\ \A j \in 1 .. Len(s) - i : b[j] = s[i + j]
  OBVIOUS
<1>3. RemoveAt(s, i) = a \o b
  BY DEF RemoveAt
<1> HIDE DEF a, b
<1>4. a \o b \in Seq(S) /\ Len(a \o b) = Len(s) - 1
  <2>1. a \o b \in Seq(S) /\ Len(a \o b) = Len(a) + Len(b)
    BY <1>1, <1>2, ConcatProperties
  <2> QED
    BY <1>1, <1>2, <2>1
<1>5. ASSUME NEW j \in 1 .. Len(s) - 1
      PROVE  (a \o b)[j] = IF j < i THEN s[j] ELSE s[j + 1]
  <2>1. CASE j < i
    BY <1>1, <1>2, <2>1
  <2>2. CASE ~ (j < i)
    <3>1. (a \o b)[j] = b[j - Len(a)]
      BY <1>1, <1>2, <2>2
    <3>2. j - (i - 1) \in 1 .. Len(s) - i
      BY <2>2
    <3> QED
      BY <1>1, <1>2, <2>2, <3>1, <3>2
  <2> QED
    BY <2>1, <2>2
<1> QED
  BY <1>3, <1>4, <1>5


\* A root appended to an order that lacks it is listed once.
LEMMA AppendFresh ==
    ASSUME NEW S, NEW s \in Seq(S), NEW e \in S,
           IsInjective(s), e \notin Range(s)
    PROVE  /\ IsInjective(Append(s, e))
           /\ Range(Append(s, e)) = Range(s) \cup {e}
<1> DEFINE t == Append(s, e)
           n == Len(s)
<1>1. /\ n \in Nat
      /\ DOMAIN s = 1 .. n
      /\ DOMAIN t = 1 .. n + 1
      /\ \A i \in 1 .. n : t[i] = s[i]
      /\ t[n + 1] = e
  OBVIOUS
<1>2. \A i \in 1 .. n : s[i] \in Range(s)
  BY <1>1 DEF Range
<1>3. \A i \in 1 .. n : s[i] # e
  BY <1>2
<1>4. \A i, j \in 1 .. n : s[i] = s[j] => i = j
  BY <1>1 DEF IsInjective
<1> HIDE DEF t, n
<1>5. \A i \in 1 .. n + 1 : i \in 1 .. n \/ i = n + 1
  BY <1>1
<1>6. \A i, j \in 1 .. n + 1 : t[i] = t[j] => i = j
  BY <1>1, <1>3, <1>4, <1>5
<1>7. Range(t) = Range(s) \cup {e}
  <2>1. ASSUME NEW x \in Range(t)
        PROVE  x \in Range(s) \cup {e}
    <3>1. PICK i \in 1 .. n + 1 : x = t[i]
      BY <1>1 DEF Range
    <3> QED
      BY <1>1, <1>2, <1>5, <3>1
  <2>2. ASSUME NEW x \in Range(s)
        PROVE  x \in Range(t)
    <3>1. PICK i \in 1 .. n : x = s[i]
      BY <1>1 DEF Range
    <3>2. i \in 1 .. n + 1 /\ t[i] = x
      BY <1>1, <3>1
    <3> QED
      BY <1>1, <3>2 DEF Range
  <2>3. e \in Range(t)
    <3>1. n + 1 \in 1 .. n + 1
      BY <1>1
    <3> QED
      BY <1>1, <3>1 DEF Range
  <2> QED
    BY <2>1, <2>2, <2>3
<1>8. IsInjective(t)
  BY <1>1, <1>6 DEF IsInjective
<1> QED
  BY <1>7, <1>8 DEF t

\* A root taken out of an order that lists it once is no longer listed, and
\* the other roots still are, once each.
LEMMA RemoveAtOnce ==
    ASSUME NEW S, NEW s \in Seq(S), NEW i \in 1 .. Len(s), IsInjective(s)
    PROVE  /\ IsInjective(RemoveAt(s, i))
           /\ Range(RemoveAt(s, i)) = Range(s) \ {s[i]}
<1> DEFINE t == RemoveAt(s, i)
           n == Len(s)
           At(j) == IF j < i THEN j ELSE j + 1
<1>1. n \in Nat /\ DOMAIN s = 1 .. n /\ i \in 1 .. n
  OBVIOUS
<1>2. t \in Seq(S) /\ Len(t) = n - 1 /\ DOMAIN t = 1 .. n - 1
  BY RemoveAtSeq
<1>3. \A j \in 1 .. n - 1 : t[j] = IF j < i THEN s[j] ELSE s[j + 1]
  BY RemoveAtSeq
<1>4. \A a, b \in 1 .. n : s[a] = s[b] => a = b
  BY <1>1 DEF IsInjective
<1> HIDE DEF t, n
<1>5. \A j \in 1 .. n - 1 : t[j] = s[At(j)] /\ At(j) \in 1 .. n /\ At(j) # i
  BY <1>1, <1>3
<1>6. \A a, b \in 1 .. n - 1 : At(a) = At(b) => a = b
  BY <1>1
<1>7. \A a \in (1 .. n) \ {i} : \E j \in 1 .. n - 1 : At(j) = a
  <2>1. SUFFICES ASSUME NEW a \in (1 .. n) \ {i}
                 PROVE  \E j \in 1 .. n - 1 : At(j) = a
    OBVIOUS
  <2>2. CASE a < i
    <3>1. a \in 1 .. n - 1 /\ At(a) = a
      BY <1>1, <2>2
    <3> QED
      BY <3>1
  <2>3. CASE ~ (a < i)
    <3>1. a - 1 \in 1 .. n - 1 /\ At(a - 1) = a
      BY <1>1, <2>3
    <3> QED
      BY <3>1
  <2> QED
    BY <2>2, <2>3
<1> HIDE DEF At
<1>8. IsInjective(t)
  BY <1>2, <1>4, <1>5, <1>6 DEF IsInjective
<1>9. Range(t) = Range(s) \ {s[i]}
  <2>1. ASSUME NEW x \in Range(t)
        PROVE  x \in Range(s) \ {s[i]}
    <3>1. PICK j \in 1 .. n - 1 : x = t[j]
      BY <1>2 DEF Range
    <3>2. x = s[At(j)] /\ At(j) \in 1 .. n /\ At(j) # i
      BY <1>5, <3>1
    <3>3. x \in Range(s)
      BY <1>1, <3>2 DEF Range
    <3> QED
      BY <1>1, <1>4, <3>2, <3>3
  <2>2. ASSUME NEW x \in Range(s) \ {s[i]}
        PROVE  x \in Range(t)
    <3>1. PICK a \in 1 .. n : x = s[a]
      BY <1>1 DEF Range
    <3>2. PICK j \in 1 .. n - 1 : At(j) = a
      BY <1>7, <3>1
    <3>3. x = t[j]
      BY <1>5, <3>1, <3>2
    <3> QED
      BY <1>2, <3>3 DEF Range
  <2> QED
    BY <2>1, <2>2
<1> QED
  BY <1>8, <1>9 DEF t

-----------------------------------------------------------------------------
(* The operations keep a queue well formed                                 *)

Well(q) == q \in Queues /\ WellFormedQueue(q)

\* What well-formedness of a queue means for its parts, and back.
LEMMA WellParts ==
    ASSUME NEW q, Well(q)
    PROVE  /\ q.order \in Seq(Roots)
           /\ q.cursor \in Nat
           /\ q.lists \in [Roots -> Seq(Runs)]
           /\ IsInjective(q.order)
           /\ Range(q.order) = {p \in Roots : q.lists[p] # <<>>}
           /\ q.cursor < Len(q.order) \/ (q.order = <<>> /\ q.cursor = 0)
           /\ \A p \in Roots : \A i \in DOMAIN q.lists[p] :
                 RootOf[q.lists[p][i]] = p
BY DEF Well, Queues, WellFormedQueue

\* A queue that has the parts of the invariant is well formed: the converse
\* of WellParts, used to establish the invariant after an operation.
LEMMA WellFromParts ==
    ASSUME NEW o \in Seq(Roots), NEW c \in Nat, NEW ls \in [Roots -> Seq(Runs)],
           IsInjective(o),
           Range(o) = {p \in Roots : ls[p] # <<>>},
           c < Len(o) \/ (o = <<>> /\ c = 0),
           \A p \in Roots : \A i \in DOMAIN ls[p] : RootOf[ls[p][i]] = p
    PROVE  Well([order |-> o, cursor |-> c, lists |-> ls])
BY DEF Well, Queues, WellFormedQueue

\* A root that gets a nonempty list of its own runs, at the end of the order
\* if it had none, leaves the queue well formed: enqueue and requeueFront.
LEMMA WithListKeepsWell ==
    ASSUME NEW q, Well(q), NEW p \in Roots, NEW l \in Seq(Runs), l # <<>>,
           \A i \in DOMAIN l : RootOf[l[i]] = p
    PROVE  Well(WithList(q, p, l))
<1> DEFINE o  == OrderWith(q, p)
           ls == [q.lists EXCEPT ![p] = l]
<1>1. /\ q.order \in Seq(Roots)
      /\ q.cursor \in Nat
      /\ q.lists \in [Roots -> Seq(Runs)]
      /\ IsInjective(q.order)
      /\ Range(q.order) = {x \in Roots : q.lists[x] # <<>>}
      /\ q.cursor < Len(q.order) \/ (q.order = <<>> /\ q.cursor = 0)
      /\ \A x \in Roots : \A i \in DOMAIN q.lists[x] : RootOf[q.lists[x][i]] = x
  BY WellParts
<1>2. /\ ls \in [Roots -> Seq(Runs)]
      /\ ls[p] = l
      /\ \A x \in Roots \ {p} : ls[x] = q.lists[x]
  BY <1>1
<1>3. \A x \in Roots : \A i \in DOMAIN ls[x] : RootOf[ls[x][i]] = x
  BY <1>1, <1>2
<1>4. {x \in Roots : ls[x] # <<>>} = Range(q.order) \cup {p}
  BY <1>1, <1>2
<1>5. /\ o \in Seq(Roots)
      /\ IsInjective(o)
      /\ Range(o) = Range(q.order) \cup {p}
      /\ q.cursor < Len(o) \/ (o = <<>> /\ q.cursor = 0)
  <2>1. CASE q.lists[p] = <<>>
    <3>1. o = Append(q.order, p) /\ p \notin Range(q.order)
      BY <1>1, <2>1 DEF OrderWith
    <3>2. Append(q.order, p) \in Seq(Roots)
          /\ Len(Append(q.order, p)) = Len(q.order) + 1
      BY <1>1
    <3>3. /\ IsInjective(Append(q.order, p))
          /\ Range(Append(q.order, p)) = Range(q.order) \cup {p}
      BY <1>1, <3>1, AppendFresh
    <3>4. q.cursor < Len(q.order) + 1
      BY <1>1
    <3> QED
      BY <3>1, <3>2, <3>3, <3>4
  <2>2. CASE q.lists[p] # <<>>
    BY <1>1, <2>2 DEF OrderWith
  <2> QED
    BY <2>1, <2>2
<1> HIDE DEF o, ls
<1>6. Well([order |-> o, cursor |-> q.cursor, lists |-> ls])
  BY <1>1, <1>2, <1>3, <1>4, <1>5, WellFromParts
<1> QED
  BY <1>6 DEF WithList, o, ls

\* Class AdmissionQueue, enqueue and requeueFront.
LEMMA EnqueueKeepsWell ==
    ASSUME NEW q, Well(q), NEW r \in Runs
    PROVE  Well(Enqueue(q, r)) /\ Well(RequeueFront(q, r))
<1> DEFINE p == RootOf[r]
           l == q.lists[p]
<1>1. p \in Roots /\ l \in Seq(Runs) /\ \A i \in 1 .. Len(l) : RootOf[l[i]] = p
  BY QueueAssumption, WellParts
<1>2. Well(Enqueue(q, r))
  <2>1. /\ Append(l, r) \in Seq(Runs)
        /\ Append(l, r) # <<>>
        /\ \A i \in DOMAIN Append(l, r) : RootOf[Append(l, r)[i]] = p
    BY <1>1
  <2> QED
    BY <1>1, <2>1, WithListKeepsWell DEF Enqueue
<1>3. Well(RequeueFront(q, r))
  <2>1. /\ <<r>> \o l \in Seq(Runs)
        /\ <<r>> \o l # <<>>
        /\ \A i \in DOMAIN (<<r>> \o l) : RootOf[(<<r>> \o l)[i]] = p
    BY <1>1
  <2> QED
    BY <1>1, <2>1, WithListKeepsWell DEF RequeueFront
<1> QED
  BY <1>2, <1>3

\* A root whose last entry goes leaves the order, and the cursor the code then
\* computes points into what is left: remove and dequeueNext.
LEMMA DropRootKeepsWell ==
    ASSUME NEW q, Well(q), NEW i \in 1 .. Len(q.order), NEW c \in Nat,
           c < Len(q.order) - 1 \/ (Len(q.order) = 1 /\ c = 0)
    PROVE  Well([order  |-> RemoveAt(q.order, i),
                 cursor |-> c,
                 lists  |-> [q.lists EXCEPT ![q.order[i]] = <<>>]])
<1> DEFINE o  == RemoveAt(q.order, i)
           p  == q.order[i]
           ls == [q.lists EXCEPT ![p] = <<>>]
<1>1. /\ q.order \in Seq(Roots)
      /\ q.lists \in [Roots -> Seq(Runs)]
      /\ IsInjective(q.order)
      /\ Range(q.order) = {x \in Roots : q.lists[x] # <<>>}
      /\ \A x \in Roots : \A j \in DOMAIN q.lists[x] : RootOf[q.lists[x][j]] = x
      /\ p \in Roots
  BY WellParts
<1>2. /\ o \in Seq(Roots)
      /\ Len(o) = Len(q.order) - 1
      /\ IsInjective(o)
      /\ Range(o) = Range(q.order) \ {p}
  BY <1>1, RemoveAtSeq, RemoveAtOnce
<1>3. /\ ls \in [Roots -> Seq(Runs)]
      /\ ls[p] = <<>>
      /\ \A x \in Roots \ {p} : ls[x] = q.lists[x]
  BY <1>1
<1>4. Range(o) = {x \in Roots : ls[x] # <<>>}
  BY <1>1, <1>2, <1>3
<1>5. \A x \in Roots : \A j \in DOMAIN ls[x] : RootOf[ls[x][j]] = x
  BY <1>1, <1>3
<1>6. c < Len(o) \/ (o = <<>> /\ c = 0)
  BY <1>1, <1>2
<1> HIDE DEF o, ls
<1>7. Well([order |-> o, cursor |-> c, lists |-> ls])
  BY <1>2, <1>3, <1>4, <1>5, <1>6, WellFromParts
<1> QED
  BY <1>7 DEF o, ls

\* The list of a root without one of its entries is still a list of runs of
\* that root.
LEMMA RestOfList ==
    ASSUME NEW l \in Seq(Runs), NEW p, NEW i \in 1 .. Len(l),
           \A j \in 1 .. Len(l) : RootOf[l[j]] = p
    PROVE  /\ RemoveAt(l, i) \in Seq(Runs)
           /\ \A j \in DOMAIN RemoveAt(l, i) : RootOf[RemoveAt(l, i)[j]] = p
<1> DEFINE t == RemoveAt(l, i)
<1>1. l \in Seq(Runs) /\ \A j \in 1 .. Len(l) : RootOf[l[j]] = p
  OBVIOUS
<1>2. /\ t \in Seq(Runs)
      /\ Len(t) = Len(l) - 1
      /\ \A j \in 1 .. Len(l) - 1 : t[j] = IF j < i THEN l[j] ELSE l[j + 1]
  BY <1>1, RemoveAtSeq
<1> HIDE DEF t
<1>3. DOMAIN t = 1 .. Len(l) - 1
  BY <1>2
<1>4. ASSUME NEW j \in 1 .. Len(l) - 1
      PROVE  RootOf[t[j]] = p
  <2>1. Len(l) \in Nat
    BY <1>1
  <2>2. j \in 1 .. Len(l) /\ j + 1 \in 1 .. Len(l)
    BY <2>1
  <2> QED
    BY <1>1, <1>2, <2>2
<1> QED
  BY <1>2, <1>3, <1>4 DEF t

\* Class AdmissionQueue, remove.
LEMMA RemoveRunKeepsWell ==
    ASSUME NEW q, Well(q), NEW r \in Runs
    PROVE  Well(RemoveRun(q, r))
<1> DEFINE p    == RootOf[r]
           list == q.lists[p]
           at   == Min({i \in DOMAIN list : list[i] = r})
           rest == RemoveAt(list, at)
           i    == CHOOSE j \in DOMAIN q.order : q.order[j] = p
           c    == CursorAfterRemoval(q, i)
<1>1. CASE ~InQueue(q, r)
  BY <1>1 DEF RemoveRun
<1>2. CASE InQueue(q, r)
  <2>1. p \in Roots /\ list \in Seq(Runs) /\ q.order \in Seq(Roots)
        /\ q.cursor \in Nat
    BY QueueAssumption, WellParts
  <2>2. PICK n \in 1 .. Len(list) : list[n] = r
    BY <1>2 DEF InQueue, Contains
  <2>3. at \in 1 .. Len(list)
    <3>1. {j \in DOMAIN list : list[j] = r} \in SUBSET Nat
      BY <2>1
    <3>2. {j \in DOMAIN list : list[j] = r} # {}
      BY <2>1, <2>2
    <3>3. at \in {j \in DOMAIN list : list[j] = r}
      BY <3>1, <3>2, MinInSet
    <3> QED
      BY <2>1, <3>3
  <2> HIDE DEF at
  <2>4. /\ rest \in Seq(Runs)
        /\ \A j \in DOMAIN rest : RootOf[rest[j]] = p
    <3>1. \A j \in 1 .. Len(list) : RootOf[list[j]] = p
      BY <2>1, WellParts
    <3> HIDE DEF list, p
    <3> QED
      BY <2>1, <2>3, <3>1, RestOfList
  <2>5. CASE rest # <<>>
    <3>1. Well(WithList(q, p, rest))
      BY <2>1, <2>4, <2>5, WithListKeepsWell
    <3> QED
      BY <1>2, <2>5, <3>1 DEF RemoveRun, at
  <2>6. CASE rest = <<>>
    <3>1. p \in Range(q.order)
      BY <2>1, <2>2, WellParts
    <3>2. i \in 1 .. Len(q.order) /\ q.order[i] = p
      BY <2>1, <3>1 DEF Range
    <3> HIDE DEF i
    <3>3. Len(q.order) \in Nat /\ q.cursor < Len(q.order)
      BY <2>1, <3>2, WellParts
    <3>4. c \in Nat /\ (c < Len(q.order) - 1 \/ (Len(q.order) = 1 /\ c = 0))
      <4>1. i \in Int /\ 1 =< i /\ i =< Len(q.order) /\ 0 =< q.cursor
        BY <2>1, <3>2, <3>3
      <4> DEFINE left == Len(q.order) - 1
      <4>2. c = IF left = 0 THEN 0
                ELSE IF i - 1 < q.cursor THEN q.cursor - 1
                ELSE IF q.cursor >= left THEN 0
                ELSE q.cursor
        BY DEF CursorAfterRemoval
      <4>3. left \in Nat /\ q.cursor =< left
        <5>1. q.cursor \in Nat /\ Len(q.order) \in Nat /\ q.cursor < Len(q.order)
          BY <2>1, <3>3
        <5> QED
          BY <5>1
      <4> HIDE DEF c, left
      <4>4. c \in Nat /\ (c < left \/ (left = 0 /\ c = 0))
        BY <2>1, <4>1, <4>2, <4>3
      <4> QED
        BY <3>3, <4>4 DEF left
    <3>5. Well([order |-> RemoveAt(q.order, i), cursor |-> c,
                lists |-> [q.lists EXCEPT ![q.order[i]] = <<>>]])
      BY <3>2, <3>4, DropRootKeepsWell
    <3> QED
      BY <1>2, <2>6, <3>2, <3>5 DEF RemoveRun, at, i
  <2> QED
    BY <2>5, <2>6
<1> QED
  BY <1>1, <1>2

\* dequeueNext stops at a place of the order, at the root of a list, and at an
\* entry of that list.
LEMMA DequeuePlaces ==
    ASSUME NEW q, Well(q), NEW roots, NEW callers, CanDequeue(q, roots, callers)
    PROVE  LET slot == SlotAt(q, Min(ServableSteps(q, roots, callers)))
               p    == q.order[slot]
           IN  /\ slot \in 1 .. Len(q.order)
               /\ Len(q.order) # 0
               /\ p \in Roots
               /\ Min(Eligible(q, p, callers)) \in 1 .. Len(q.lists[p])
<1> DEFINE steps == ServableSteps(q, roots, callers)
           step  == Min(steps)
           slot  == SlotAt(q, step)
           p     == q.order[slot]
           can   == Eligible(q, p, callers)
           n     == Len(q.order)
<1>1. /\ q.order \in Seq(Roots)
      /\ n \in Nat
      /\ q.cursor \in Nat
      /\ q.lists \in [Roots -> Seq(Runs)]
  BY WellParts
<1>2. steps \in SUBSET Nat /\ steps # {}
  <2>1. steps # {}
    BY DEF CanDequeue
  <2>2. steps \in SUBSET (0 .. n - 1)
    BY DEF ServableSteps
  <2> QED
    BY <1>1, <2>1, <2>2
<1>3. step \in 0 .. n - 1 /\ can # {}
  <2>1. step \in steps
    BY <1>2, MinInSet
  <2> QED
    BY <2>1 DEF ServableSteps
<1>4. slot \in 1 .. n /\ n # 0 /\ p \in Roots
  <2>1. n \in Nat \ {0} /\ q.cursor + step \in Nat
    BY <1>1, <1>3
  <2>2. (q.cursor + step) % n \in 0 .. n - 1
    BY <2>1, ModBounds
  <2>3. slot \in 1 .. n
    BY <2>1, <2>2 DEF SlotAt
  <2> QED
    BY <1>1, <2>1, <2>3
<1>5. Min(can) \in 1 .. Len(q.lists[p])
  <2>1. can \in SUBSET (1 .. Len(q.lists[p])) /\ can \in SUBSET Nat
    BY <1>1, <1>4 DEF Eligible
  <2> QED
    BY <1>3, <2>1, MinInSet
<1> QED
  BY <1>4, <1>5

\* Class AdmissionQueue, dequeueNext: what it takes is an entry of the queue,
\* and it leaves the queue well formed.
LEMMA DequeueKeepsWell ==
    ASSUME NEW q, Well(q), NEW roots, NEW callers, CanDequeue(q, roots, callers)
    PROVE  /\ DequeueNext(q, roots, callers).run \in Runs
           /\ Well(DequeueNext(q, roots, callers).queue)
<1> DEFINE steps == ServableSteps(q, roots, callers)
           step  == Min(steps)
           slot  == SlotAt(q, step)
           p     == q.order[slot]
           can   == Eligible(q, p, callers)
           pick  == Min(can)
           rest  == RemoveAt(q.lists[p], pick)
           left  == RemoveAt(q.order, slot)
           n     == Len(q.order)
<1>1. /\ q.order \in Seq(Roots)
      /\ n \in Nat
      /\ q.cursor \in Nat
      /\ q.lists \in [Roots -> Seq(Runs)]
      /\ IsInjective(q.order)
      /\ Range(q.order) = {x \in Roots : q.lists[x] # <<>>}
      /\ \A x \in Roots : \A j \in DOMAIN q.lists[x] : RootOf[q.lists[x][j]] = x
  BY WellParts
<1>2. /\ slot \in 1 .. n
      /\ n # 0
      /\ p \in Roots
      /\ pick \in 1 .. Len(q.lists[p])
  BY DequeuePlaces
<1> HIDE DEF pick
<1>3. q.lists[p][pick] \in Runs
  BY <1>1, <1>2
<1>4. /\ rest \in Seq(Runs)
      /\ \A j \in DOMAIN rest : RootOf[rest[j]] = p
  <2> DEFINE l == q.lists[p]
  <2>1. l \in Seq(Runs) /\ \A j \in 1 .. Len(l) : RootOf[l[j]] = p
    BY <1>1, <1>2
  <2> HIDE DEF p
  <2>2. pick \in 1 .. Len(l)
    BY <1>2
  <2> HIDE DEF l
  <2>3. /\ RemoveAt(l, pick) \in Seq(Runs)
        /\ \A j \in DOMAIN RemoveAt(l, pick) : RootOf[RemoveAt(l, pick)[j]] = p
    BY <2>1, <2>2, RestOfList
  <2> QED
    BY <2>3 DEF l
<1>5. CASE rest # <<>>
  <2> DEFINE ls == [q.lists EXCEPT ![p] = rest]
             c  == slot % n
  <2>1. c \in Nat /\ c < n
    <3>1. slot \in Nat /\ n \in Nat \ {0}
      BY <1>1, <1>2
    <3>2. slot % n \in 0 .. n - 1
      BY <3>1, ModBounds
    <3> QED
      BY <1>1, <3>2
  <2>2. /\ ls \in [Roots -> Seq(Runs)]
        /\ ls[p] = rest
        /\ \A x \in Roots \ {p} : ls[x] = q.lists[x]
    BY <1>1, <1>2, <1>4
  <2>3. p \in Range(q.order)
    BY <1>1, <1>2 DEF Range
  <2>4. Range(q.order) = {x \in Roots : ls[x] # <<>>}
    BY <1>1, <1>5, <2>2, <2>3
  <2>5. \A x \in Roots : \A j \in DOMAIN ls[x] : RootOf[ls[x][j]] = x
    BY <1>1, <1>4, <2>2
  <2> HIDE DEF ls, c
  <2>6. Well([order |-> q.order, cursor |-> c, lists |-> ls])
    BY <1>1, <2>1, <2>2, <2>4, <2>5, WellFromParts
  <2>7. DequeueNext(q, roots, callers).queue =
            [order |-> q.order, cursor |-> c, lists |-> ls]
    BY <1>5 DEF DequeueNext, c, ls, pick
  <2> QED
    BY <1>3, <2>6, <2>7 DEF DequeueNext, pick
<1>6. CASE rest = <<>>
  <2> DEFINE c == IF left = <<>> THEN 0 ELSE (slot - 1) % Len(left)
  <2>1. left \in Seq(Roots) /\ Len(left) = n - 1
    BY <1>1, <1>2, RemoveAtSeq
  <2>2. c \in Nat /\ (c < n - 1 \/ (n = 1 /\ c = 0))
    <3>1. CASE left = <<>>
      BY <1>1, <2>1, <3>1
    <3>2. CASE left # <<>>
      <4>1. Len(left) \in Nat \ {0} /\ slot - 1 \in Nat
        <5>1. slot \in 1 .. n
          BY <1>2
        <5> HIDE DEF slot, left
        <5>2. Len(left) \in Nat /\ Len(left) # 0
          BY <2>1, <3>2, EmptySeq
        <5>3. slot - 1 \in Nat
          BY <1>1, <5>1
        <5> QED
          BY <5>2, <5>3
      <4>2. (slot - 1) % Len(left) \in 0 .. Len(left) - 1
        BY <4>1, ModBounds
      <4> QED
        BY <1>1, <2>1, <3>2, <4>2
    <3> QED
      BY <3>1, <3>2
  <2> HIDE DEF c
  <2>3. Well([order |-> left, cursor |-> c,
              lists |-> [q.lists EXCEPT ![p] = <<>>]])
    BY <1>2, <2>2, DropRootKeepsWell
  <2>4. DequeueNext(q, roots, callers).queue =
            [order |-> left, cursor |-> c, lists |-> [q.lists EXCEPT ![p] = <<>>]]
    BY <1>6 DEF DequeueNext, c, pick
  <2> QED
    BY <1>3, <2>3, <2>4 DEF DequeueNext, pick
<1> QED
  BY <1>5, <1>6

\* The queue of a fresh host process.
LEMMA EmptyQueueWell == Well(EmptyQueue)
<1> DEFINE ls == [p \in Roots |-> <<>>]
<1>1. <<>> \in Seq(Roots) /\ <<>> \in Seq(Runs) /\ Len(<<>>) = 0
  OBVIOUS
<1>2. ls \in [Roots -> Seq(Runs)]
  BY <1>1
<1>3. IsInjective(<<>>) /\ Range(<<>>) = {}
  BY <1>1 DEF IsInjective, Range
<1>4. Range(<<>>) = {p \in Roots : ls[p] # <<>>}
  BY <1>3
<1>5. \A p \in Roots : \A i \in DOMAIN ls[p] : RootOf[ls[p][i]] = p
  BY <1>1
<1> HIDE DEF ls
<1>6. Well([order |-> <<>>, cursor |-> 0, lists |-> ls])
  BY <1>1, <1>2, <1>3, <1>4, <1>5, WellFromParts
<1> QED
  BY <1>6 DEF EmptyQueue, ls

-----------------------------------------------------------------------------
(* Which runs an operation leaves in the queue                             *)

\* No run is listed twice.
Distinct(q) == \A p \in Roots : IsInjective(q.lists[p])

\* An entry put at the front of a list that lacks it is listed once.
LEMMA PrependFresh ==
    ASSUME NEW S, NEW s \in Seq(S), NEW e \in S,
           IsInjective(s), e \notin Range(s)
    PROVE  /\ IsInjective(<<e>> \o s)
           /\ Range(<<e>> \o s) = Range(s) \cup {e}
<1> DEFINE t == <<e>> \o s
           n == Len(s)
<1>1. /\ n \in Nat
      /\ DOMAIN s = 1 .. n
      /\ DOMAIN t = 1 .. n + 1
      /\ t[1] = e
      /\ \A i \in 2 .. n + 1 : t[i] = s[i - 1]
  OBVIOUS
<1>2. \A i \in 1 .. n : s[i] \in Range(s)
  BY <1>1 DEF Range
<1>3. \A i, j \in 1 .. n : s[i] = s[j] => i = j
  BY <1>1 DEF IsInjective
<1> HIDE DEF t, n
<1>4. \A i \in 1 .. n + 1 : i = 1 \/ (i \in 2 .. n + 1 /\ i - 1 \in 1 .. n)
  BY <1>1
<1>5. \A i \in 2 .. n + 1 : t[i] # e
  BY <1>1, <1>2, <1>4
<1>6. ASSUME NEW i \in 1 .. n + 1, NEW j \in 1 .. n + 1, t[i] = t[j]
      PROVE  i = j
  <2>1. CASE i = 1 \/ j = 1
    BY <1>1, <1>4, <1>5, <1>6, <2>1
  <2>2. CASE i # 1 /\ j # 1
    <3>1. i - 1 \in 1 .. n /\ j - 1 \in 1 .. n /\ s[i - 1] = s[j - 1]
      BY <1>1, <1>4, <1>6, <2>2
    <3>2. i - 1 = j - 1
      BY <1>3, <3>1
    <3> QED
      BY <3>2
  <2> QED
    BY <2>1, <2>2
<1>7. Range(t) = Range(s) \cup {e}
  <2>1. ASSUME NEW x \in Range(t)
        PROVE  x \in Range(s) \cup {e}
    <3>1. PICK i \in 1 .. n + 1 : x = t[i]
      BY <1>1 DEF Range
    <3> QED
      BY <1>1, <1>2, <1>4, <3>1
  <2>2. ASSUME NEW x \in Range(s)
        PROVE  x \in Range(t)
    <3>1. PICK i \in 1 .. n : x = s[i]
      BY <1>1 DEF Range
    <3>2. i + 1 \in 1 .. n + 1 /\ i + 1 \in 2 .. n + 1 /\ (i + 1) - 1 = i
      BY <1>1
    <3>3. t[i + 1] = x
      BY <1>1, <3>1, <3>2
    <3> QED
      BY <1>1, <3>2, <3>3 DEF Range
  <2>3. e \in Range(t)
    <3>1. 1 \in 1 .. n + 1
      BY <1>1
    <3> QED
      BY <1>1, <3>1 DEF Range
  <2> QED
    BY <2>1, <2>2, <2>3
<1>8. IsInjective(t)
  BY <1>1, <1>6 DEF IsInjective
<1> QED
  BY <1>7, <1>8 DEF t

\* A run waits in the queue when it is an entry of the list of its root.
LEMMA InQueueRange ==
    ASSUME NEW q, q.lists \in [Roots -> Seq(Runs)], NEW x \in Runs
    PROVE  InQueue(q, x) <=> x \in Range(q.lists[RootOf[x]])
<1>1. q.lists[RootOf[x]] \in Seq(Runs)
  BY QueueAssumption
<1> QED
  BY <1>1 DEF InQueue, Contains, Range

\* An operation that replaces the list of one root decides about the runs of
\* that root only.
LEMMA ListReplaced ==
    ASSUME NEW q, Well(q), Distinct(q), NEW p \in Roots,
           NEW l \in Seq(Runs), IsInjective(l),
           NEW n, n.lists = [q.lists EXCEPT ![p] = l]
    PROVE  /\ Distinct(n)
           /\ \A x \in Runs :
                 InQueue(n, x) <=> IF RootOf[x] = p THEN x \in Range(l)
                                   ELSE InQueue(q, x)
<1>1. q.lists \in [Roots -> Seq(Runs)]
  BY WellParts
<1>2. /\ n.lists \in [Roots -> Seq(Runs)]
      /\ n.lists[p] = l
      /\ \A x \in Roots \ {p} : n.lists[x] = q.lists[x]
  BY <1>1
<1>3. Distinct(n)
  BY <1>2 DEF Distinct
<1>4. ASSUME NEW x \in Runs
      PROVE  InQueue(n, x) <=> IF RootOf[x] = p THEN x \in Range(l)
                               ELSE InQueue(q, x)
  <2>1. RootOf[x] \in Roots
    BY QueueAssumption
  <2> QED
    BY <1>1, <1>2, <2>1, InQueueRange
<1> QED
  BY <1>3, <1>4

\* enqueue and requeueFront of a run that is not queued: it is queued once,
\* and every other run stays as it was.
LEMMA EnqueueMembers ==
    ASSUME NEW q, Well(q), Distinct(q), NEW r \in Runs, ~InQueue(q, r)
    PROVE  /\ Distinct(Enqueue(q, r)) /\ Distinct(RequeueFront(q, r))
           /\ \A x \in Runs : InQueue(Enqueue(q, r), x) <=> x = r \/ InQueue(q, x)
           /\ \A x \in Runs :
                 InQueue(RequeueFront(q, r), x) <=> x = r \/ InQueue(q, x)
<1> DEFINE p == RootOf[r]
           l == q.lists[p]
<1>1. p \in Roots /\ l \in Seq(Runs) /\ q.lists \in [Roots -> Seq(Runs)]
  BY QueueAssumption, WellParts
<1>2. IsInjective(l) /\ r \notin Range(l)
  BY <1>1, InQueueRange DEF Distinct
<1>3. \A x \in Runs : RootOf[x] = p => (InQueue(q, x) <=> x \in Range(l))
  BY <1>1, InQueueRange
<1>4. /\ Append(l, r) \in Seq(Runs) /\ IsInjective(Append(l, r))
      /\ Range(Append(l, r)) = Range(l) \cup {r}
  BY <1>1, <1>2, AppendFresh
<1>5. /\ <<r>> \o l \in Seq(Runs) /\ IsInjective(<<r>> \o l)
      /\ Range(<<r>> \o l) = Range(l) \cup {r}
  BY <1>1, <1>2, PrependFresh
<1>6. Enqueue(q, r).lists = [q.lists EXCEPT ![p] = Append(l, r)]
  BY DEF Enqueue, WithList
<1>7. RequeueFront(q, r).lists = [q.lists EXCEPT ![p] = <<r>> \o l]
  BY DEF RequeueFront, WithList
<1> DEFINE e == Enqueue(q, r)
           f == RequeueFront(q, r)
           m == Append(l, r)
           k == <<r>> \o l
<1>8. e.lists = [q.lists EXCEPT ![p] = m] /\ f.lists = [q.lists EXCEPT ![p] = k]
  BY <1>6, <1>7
<1>9. p = RootOf[r]
  OBVIOUS
<1> HIDE DEF e, f, m, k, p, l
<1>10. /\ Distinct(e)
       /\ \A x \in Runs :
             InQueue(e, x) <=> IF RootOf[x] = p THEN x \in Range(m)
                               ELSE InQueue(q, x)
  BY <1>1, <1>4, <1>8, ListReplaced DEF m
<1>11. /\ Distinct(f)
       /\ \A x \in Runs :
             InQueue(f, x) <=> IF RootOf[x] = p THEN x \in Range(k)
                               ELSE InQueue(q, x)
  BY <1>1, <1>5, <1>8, ListReplaced DEF k
<1>12. \A x \in Runs : InQueue(e, x) <=> x = r \/ InQueue(q, x)
  BY <1>3, <1>4, <1>9, <1>10 DEF m
<1>13. \A x \in Runs : InQueue(f, x) <=> x = r \/ InQueue(q, x)
  BY <1>3, <1>5, <1>9, <1>11 DEF k
<1> QED
  BY <1>10, <1>11, <1>12, <1>13 DEF e, f

\* Taking one entry out of the list of its root takes that run, and no other,
\* out of the queue.
LEMMA EntryRemoved ==
    ASSUME NEW q, Well(q), Distinct(q), NEW p \in Roots,
           NEW i \in 1 .. Len(q.lists[p]),
           NEW n, n.lists = [q.lists EXCEPT ![p] = RemoveAt(q.lists[p], i)]
    PROVE  /\ Distinct(n)
           /\ q.lists[p][i] \in Runs
           /\ InQueue(q, q.lists[p][i])
           /\ \A x \in Runs :
                 InQueue(n, x) <=> x # q.lists[p][i] /\ InQueue(q, x)
<1> DEFINE l == q.lists[p]
           rest == RemoveAt(l, i)
           r == l[i]
<1>1. /\ q.lists \in [Roots -> Seq(Runs)]
      /\ l \in Seq(Runs)
      /\ r \in Runs
      /\ RootOf[r] = p
      /\ \A j \in DOMAIN l : RootOf[l[j]] = p
  BY WellParts
<1>2. IsInjective(l)
  BY DEF Distinct
<1>3. i \in 1 .. Len(l) /\ n.lists = [q.lists EXCEPT ![p] = rest]
  OBVIOUS
<1>4. r \in Range(l)
  BY <1>1, <1>3 DEF Range
<1>5. \A x \in Runs : RootOf[x] = p => (InQueue(q, x) <=> x \in Range(l))
  BY <1>1, InQueueRange
<1> HIDE DEF l
<1>6. /\ rest \in Seq(Runs) /\ IsInjective(rest)
      /\ Range(rest) = Range(l) \ {r}
  BY <1>1, <1>2, <1>3, RemoveAtSeq, RemoveAtOnce
<1> HIDE DEF rest, r
<1>7. /\ Distinct(n)
      /\ \A x \in Runs :
            InQueue(n, x) <=> IF RootOf[x] = p THEN x \in Range(rest)
                              ELSE InQueue(q, x)
  BY <1>3, <1>6, ListReplaced
<1>8. InQueue(q, r)
  BY <1>1, <1>4, <1>5
<1>9. \A x \in Runs : InQueue(n, x) <=> x # r /\ InQueue(q, x)
  BY <1>1, <1>5, <1>6, <1>7
<1> QED
  BY <1>1, <1>7, <1>8, <1>9 DEF l, r

\* remove: the run is no longer queued, every other run stays as it was.
LEMMA RemoveRunMembers ==
    ASSUME NEW q, Well(q), Distinct(q), NEW r \in Runs
    PROVE  /\ Distinct(RemoveRun(q, r))
           /\ \A x \in Runs :
                 InQueue(RemoveRun(q, r), x) <=> x # r /\ InQueue(q, x)
<1> DEFINE p    == RootOf[r]
           list == q.lists[p]
           at   == Min({i \in DOMAIN list : list[i] = r})
           rest == RemoveAt(list, at)
<1>1. CASE ~InQueue(q, r)
  BY <1>1 DEF RemoveRun
<1>2. CASE InQueue(q, r)
  <2>1. p \in Roots /\ list \in Seq(Runs)
    BY QueueAssumption, WellParts
  <2>2. PICK n \in 1 .. Len(list) : list[n] = r
    BY <1>2 DEF InQueue, Contains
  <2>3. at \in 1 .. Len(list) /\ list[at] = r
    <3>1. {j \in DOMAIN list : list[j] = r} \in SUBSET Nat
      BY <2>1
    <3>2. {j \in DOMAIN list : list[j] = r} # {}
      BY <2>1, <2>2
    <3>3. at \in {j \in DOMAIN list : list[j] = r}
      BY <3>1, <3>2, MinInSet
    <3> QED
      BY <2>1, <3>3
  <2> HIDE DEF at
  <2>4. RemoveRun(q, r).lists = [q.lists EXCEPT ![p] = rest]
    <3>1. CASE rest # <<>>
      BY <1>2, <3>1 DEF RemoveRun, WithList, at
    <3>2. CASE rest = <<>>
      BY <1>2, <3>2 DEF RemoveRun, at
    <3> QED
      BY <3>1, <3>2
  <2>5. at \in 1 .. Len(q.lists[p])
    BY <2>3
  <2> DEFINE m == RemoveRun(q, r)
  <2>6. m.lists = [q.lists EXCEPT ![p] = RemoveAt(q.lists[p], at)]
    BY <2>4
  <2> HIDE DEF m, p
  <2>7. /\ Distinct(m)
        /\ \A x \in Runs : InQueue(m, x) <=> x # list[at] /\ InQueue(q, x)
    BY <2>1, <2>5, <2>6, EntryRemoved
  <2> QED
    BY <2>3, <2>7 DEF m
<1> QED
  BY <1>1, <1>2

\* dequeueNext: what it takes was queued and no longer is, every other run
\* stays as it was.
LEMMA DequeueMembers ==
    ASSUME NEW q, Well(q), Distinct(q), NEW roots, NEW callers,
           CanDequeue(q, roots, callers)
    PROVE  LET next == DequeueNext(q, roots, callers)
           IN  /\ next.run \in Runs
               /\ InQueue(q, next.run)
               /\ Distinct(next.queue)
               /\ \A x \in Runs :
                     InQueue(next.queue, x) <=> x # next.run /\ InQueue(q, x)
<1> DEFINE steps == ServableSteps(q, roots, callers)
           step  == Min(steps)
           slot  == SlotAt(q, step)
           p     == q.order[slot]
           can   == Eligible(q, p, callers)
           pick  == Min(can)
           rest  == RemoveAt(q.lists[p], pick)
           n     == Len(q.order)
<1>1. /\ q.order \in Seq(Roots)
      /\ n \in Nat
      /\ q.cursor \in Nat
      /\ q.lists \in [Roots -> Seq(Runs)]
  BY WellParts
<1>2. /\ slot \in 1 .. n
      /\ n # 0
      /\ p \in Roots
      /\ pick \in 1 .. Len(q.lists[p])
  BY DequeuePlaces
<1> DEFINE next == DequeueNext(q, roots, callers)
           m    == next.queue
<1> HIDE DEF pick
<1>3. next.run = q.lists[p][pick]
  BY DEF DequeueNext, pick
<1>4. m.lists = [q.lists EXCEPT ![p] = RemoveAt(q.lists[p], pick)]
  <2>1. CASE rest # <<>>
    BY <2>1 DEF DequeueNext, pick
  <2>2. CASE rest = <<>>
    BY <2>2 DEF DequeueNext, pick
  <2> QED
    BY <2>1, <2>2
<1> HIDE DEF next, m, p
<1>5. /\ Distinct(m)
      /\ q.lists[p][pick] \in Runs
      /\ InQueue(q, q.lists[p][pick])
      /\ \A x \in Runs :
            InQueue(m, x) <=> x # q.lists[p][pick] /\ InQueue(q, x)
  BY <1>2, <1>4, EntryRemoved
<1> QED
  BY <1>3, <1>5 DEF next, m

\* The queue of a fresh host process lists no run.
LEMMA EmptyQueueMembers ==
    Distinct(EmptyQueue) /\ \A x \in Runs : ~InQueue(EmptyQueue, x)
<1>1. \A p \in Roots : EmptyQueue.lists[p] = <<>>
  BY DEF EmptyQueue
<1>2. IsInjective(<<>>) /\ \A x : ~Contains(<<>>, x)
  BY DEF IsInjective, Contains
<1>3. \A x \in Runs : RootOf[x] \in Roots
  BY QueueAssumption
<1> QED
  BY <1>1, <1>2, <1>3 DEF Distinct, InQueue

\* A run stands at one place of a list without repetitions, or at none.
LEMMA CopiesCounted ==
    ASSUME NEW l \in Seq(Runs), IsInjective(l), NEW r
    PROVE  Cardinality({i \in DOMAIN l : l[i] = r})
               = IF Contains(l, r) THEN 1 ELSE 0
<1> DEFINE at == {i \in DOMAIN l : l[i] = r}
<1>1. CASE Contains(l, r)
  <2>1. PICK i \in DOMAIN l : l[i] = r
    BY <1>1 DEF Contains
  <2>2. at = {i}
    BY <2>1 DEF IsInjective
  <2>3. Cardinality({i}) = 1
    BY FS_Singleton
  <2> QED
    BY <1>1, <2>2, <2>3
<1>2. CASE ~Contains(l, r)
  <2>1. at = {}
    BY <1>2 DEF Contains
  <2> QED
    BY <1>2, <2>1, FS_EmptySet
<1> QED
  BY <1>1, <1>2

-----------------------------------------------------------------------------
(* The queue under its clients: AdmissionQueueDrain                        *)

\* Inductive: what the drain holds is a run, so that putting it back keeps
\* the lists of the right type.
HeldOK == taken \in Runs \cup {NoRun}

QueueInv == Well(admissionQueue) /\ HeldOK

\* The empty queue of a new run manager is well formed and nothing is held.
LEMMA QueueInvInit == DrainInit => QueueInv
BY EmptyQueueWell DEF DrainInit, QueueInv, HeldOK

\* Every operation of the clients keeps the queue well formed: one case per
\* action, each by the lemma on the queue operation it performs.
LEMMA QueueInvNext == QueueInv /\ [DrainNext]_drainVars => QueueInv'
<1> SUFFICES ASSUME QueueInv, [DrainNext]_drainVars
             PROVE  Well(admissionQueue') /\ taken' \in Runs \cup {NoRun}
  BY DEF QueueInv, HeldOK, Well, Queues, WellFormedQueue
<1> USE DEF QueueInv, HeldOK
<1>1. ASSUME NEW r \in Runs, Arrive(r)
      PROVE  Well(admissionQueue') /\ taken' \in Runs \cup {NoRun}
  BY <1>1, EnqueueKeepsWell DEF Arrive
<1>2. ASSUME NEW r \in Runs, CancelQueued(r)
      PROVE  Well(admissionQueue') /\ taken' \in Runs \cup {NoRun}
  BY <1>2, RemoveRunKeepsWell DEF CancelQueued
<1>3. CASE TakeNext
  BY <1>3, DequeueKeepsWell DEF TakeNext
<1>4. CASE SettleEntry
  BY <1>4 DEF SettleEntry
<1>5. CASE PutBack
  BY <1>5, EnqueueKeepsWell DEF PutBack
<1>6. CASE RootBusy
  BY <1>5, <1>6 DEF RootBusy
<1>7. CASE CallerBusy
  BY <1>5, <1>7 DEF CallerBusy
<1>8. CASE CapacityBusy
  BY <1>5, <1>8 DEF CapacityBusy
<1>9. CASE EndPass
  BY <1>9 DEF EndPass
<1>10. CASE UNCHANGED drainVars
  BY <1>10 DEF drainVars
<1> QED
  BY <1>1, <1>2, <1>3, <1>4, <1>6, <1>7, <1>8, <1>9, <1>10 DEF DrainNext

\* Under every order of enqueue, remove, dequeueNext and requeueFront the
\* queue stays well formed: no root is listed twice or without entries, every
\* entry is listed under its own root, and the cursor points into the order.
THEOREM QueueAlwaysWellFormed == DrainSpec => []QueueWellFormed
<1>1. QueueInv => QueueWellFormed
  BY DEF QueueInv, Well, QueueWellFormed
<1> QED
  BY <1>1, QueueInvInit, QueueInvNext, PTL DEF DrainSpec

-----------------------------------------------------------------------------
(* No entry is duplicated or lost                                          *)

\* Inductive: no list has a run twice, what the drain holds is not listed, and
\* the runs that are listed or held are the ones that arrived and did not leave.
OnceInv ==
    /\ Distinct(admissionQueue)
    /\ \A r \in Runs : taken = r => ~InQueue(admissionQueue, r)
    /\ \A r \in Runs : r \in arrivals <=> InQueue(admissionQueue, r) \/ taken = r

\* Nothing has arrived in a new run manager.
LEMMA OnceInvInit == DrainInit => OnceInv
BY EmptyQueueMembers, QueueAssumption DEF DrainInit, OnceInv

\* Every operation of the clients keeps each arrival in one place.
LEMMA OnceInvNext == QueueInv /\ OnceInv /\ [DrainNext]_drainVars => OnceInv'
<1> SUFFICES ASSUME QueueInv, OnceInv, [DrainNext]_drainVars
             PROVE  /\ Distinct(admissionQueue')
                    /\ \A x \in Runs : taken' = x => ~InQueue(admissionQueue', x)
                    /\ \A x \in Runs :
                          x \in arrivals' <=> InQueue(admissionQueue', x) \/ taken' = x
  BY DEF OnceInv, Distinct, InQueue
<1> USE DEF QueueInv, HeldOK, OnceInv
<1>1. ASSUME NEW r \in Runs, Arrive(r)
      PROVE  /\ Distinct(admissionQueue')
             /\ \A x \in Runs : taken' = x => ~InQueue(admissionQueue', x)
             /\ \A x \in Runs :
                   x \in arrivals' <=> InQueue(admissionQueue', x) \/ taken' = x
  <2>1. /\ Distinct(admissionQueue')
        /\ \A x \in Runs : InQueue(admissionQueue', x) <=> x = r \/ InQueue(admissionQueue, x)
    BY <1>1, EnqueueMembers DEF Arrive
  <2> QED
    BY <1>1, <2>1 DEF Arrive
<1>2. ASSUME NEW r \in Runs, CancelQueued(r)
      PROVE  /\ Distinct(admissionQueue')
             /\ \A x \in Runs : taken' = x => ~InQueue(admissionQueue', x)
             /\ \A x \in Runs :
                   x \in arrivals' <=> InQueue(admissionQueue', x) \/ taken' = x
  <2>1. /\ Distinct(admissionQueue')
        /\ \A x \in Runs : InQueue(admissionQueue', x) <=> x # r /\ InQueue(admissionQueue, x)
    BY <1>2, RemoveRunMembers DEF CancelQueued
  <2>2. taken # r
    BY <1>2 DEF CancelQueued
  <2> QED
    BY <1>2, <2>1, <2>2 DEF CancelQueued
<1>3. CASE TakeNext
  <2> DEFINE next == DequeueNext(admissionQueue, blockedRoots, blockedCallers)
  <2>1. /\ next.run \in Runs
        /\ InQueue(admissionQueue, next.run)
        /\ Distinct(next.queue)
        /\ \A x \in Runs :
              InQueue(next.queue, x) <=> x # next.run /\ InQueue(admissionQueue, x)
    BY <1>3, DequeueMembers DEF TakeNext
  <2>2. taken' = next.run /\ admissionQueue' = next.queue /\ arrivals' = arrivals
    BY <1>3 DEF TakeNext
  <2>3. \A x \in Runs : taken # x
    BY <1>3, QueueAssumption DEF TakeNext
  <2> HIDE DEF next
  <2> QED
    BY <2>1, <2>2, <2>3
<1>4. CASE SettleEntry
  <2>1. \A x \in Runs : taken' # x
    BY <1>4, QueueAssumption DEF SettleEntry
  <2> QED
    BY <1>4, <2>1 DEF SettleEntry
<1>5. CASE PutBack
  <2>1. taken \in Runs /\ \A x \in Runs : taken' # x
    BY <1>5, QueueAssumption DEF PutBack
  <2>2. /\ Distinct(admissionQueue')
        /\ \A x \in Runs : InQueue(admissionQueue', x) <=> x = taken \/ InQueue(admissionQueue, x)
    BY <1>5, <2>1, EnqueueMembers DEF PutBack
  <2> QED
    BY <1>5, <2>1, <2>2 DEF PutBack
<1>6. CASE RootBusy
  BY <1>5, <1>6 DEF RootBusy
<1>7. CASE CallerBusy
  BY <1>5, <1>7 DEF CallerBusy
<1>8. CASE CapacityBusy
  BY <1>5, <1>8 DEF CapacityBusy
<1>9. CASE EndPass
  BY <1>9 DEF EndPass
<1>10. CASE UNCHANGED drainVars
  BY <1>10 DEF drainVars
<1> QED
  BY <1>1, <1>2, <1>3, <1>4, <1>6, <1>7, <1>8, <1>9, <1>10 DEF DrainNext

\* No put-back path duplicates or loses an entry, for any number of runs,
\* roots and callers: a run that arrived and neither started nor was cancelled
\* is listed exactly once or held by the drain, and no other run is.
THEOREM EachArrivalAlwaysOnce == DrainSpec => []EachArrivalOnce
<1>1. QueueInv /\ OnceInv => EachArrivalOnce
  <2> SUFFICES ASSUME QueueInv, OnceInv, NEW r \in Runs
               PROVE  Cardinality({i \in DOMAIN admissionQueue.lists[RootOf[r]] :
                                      admissionQueue.lists[RootOf[r]][i] = r})
                          + (IF taken = r THEN 1 ELSE 0)
                      = IF r \in arrivals THEN 1 ELSE 0
    BY Zenon DEF EachArrivalOnce, Cardinality
  <2> DEFINE l == admissionQueue.lists[RootOf[r]]
  <2>1. l \in Seq(Runs) /\ IsInjective(l)
    BY QueueAssumption, WellParts DEF QueueInv, OnceInv, Distinct
  <2>2. InQueue(admissionQueue, r) = Contains(l, r)
    BY DEF InQueue
  <2> HIDE DEF l
  <2>3. Cardinality({i \in DOMAIN l : l[i] = r})
            = IF InQueue(admissionQueue, r) THEN 1 ELSE 0
    BY <2>1, <2>2, CopiesCounted
  <2>4. r \in arrivals <=> InQueue(admissionQueue, r) \/ taken = r
    BY DEF OnceInv
  <2>5. taken = r => ~InQueue(admissionQueue, r)
    BY DEF OnceInv
  <2> QED
    BY <2>3, <2>4, <2>5 DEF l
<1> QED
  BY <1>1, QueueInvInit, QueueInvNext, OnceInvInit, OnceInvNext, PTL DEF DrainSpec
=============================================================================
