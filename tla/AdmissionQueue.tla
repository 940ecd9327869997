--------------------------- MODULE AdmissionQueue ---------------------------
(***************************************************************************)
(* The data structure of the admission queue of src/runtime/runManager.ts  *)
(* (class AdmissionQueue): one list of queued runs per project root, and a *)
(* round-robin cursor over the roots that have a list.                     *)
(*                                                                         *)
(* A queue is a record                                                     *)
(*   order  - rrOrder, the roots in round-robin order                      *)
(*   cursor - rrIndex, the 0-based index of the root to serve next         *)
(*   lists  - byRoot; a root that the code's map lacks has an empty list   *)
(*                                                                         *)
(* An entry is represented by its run: the caller of an entry is CallerOf  *)
(* of the run, and createdAt is not read by the queue.                     *)
(***************************************************************************)
EXTENDS Integers, Sequences, SequencesExt, FiniteSetsExt

CONSTANTS
    Runs,       \* run ids
    Roots,      \* normalized project roots
    Callers,    \* ids of authenticated callers, in lower case
    NoCaller,   \* an entry without a caller id
    NoRun,      \* "undefined": no entry
    RootOf,     \* the project root of each run
    CallerOf    \* the caller of each run, or NoCaller

ASSUME QueueAssumption ==
    /\ NoRun \notin Runs
    /\ NoCaller \notin Callers
    /\ RootOf \in [Runs -> Roots]
    /\ CallerOf \in [Runs -> Callers \cup {NoCaller}]

Queues == [order : Seq(Roots), cursor : Nat, lists : [Roots -> Seq(Runs)]]

EmptyQueue == [order |-> <<>>, cursor |-> 0, lists |-> [p \in Roots |-> <<>>]]

QueueSize(q) == SumFunctionOnSet([p \in Roots |-> Len(q.lists[p])], Roots)

InQueue(q, r) == Contains(q.lists[RootOf[r]], r)

QueuedRuns(q) == {r \in Runs : InQueue(q, r)}

\* A root without a list joins the end of the round-robin order.
OrderWith(q, p) == IF q.lists[p] = <<>> THEN Append(q.order, p) ELSE q.order

WithList(q, p, list) ==
    [order  |-> OrderWith(q, p),
     cursor |-> q.cursor,
     lists  |-> [q.lists EXCEPT ![p] = list]]

Enqueue(q, r) ==
    LET p == RootOf[r]
    IN  WithList(q, p, Append(q.lists[p], r))

RequeueFront(q, r) ==
    LET p == RootOf[r]
    IN  WithList(q, p, <<r>> \o q.lists[p])

\* Mutant: the cursor is left where it was.
MutantCursorKept(q, i) == q.cursor

\* The cursor after the root at the 1-based position i left the order by
\* remove(): it keeps pointing at the same root, or wraps around.
CursorAfterRemoval(q, i) ==
    LET n == Len(q.order) - 1
    IN  IF n = 0 THEN 0
        ELSE IF i - 1 < q.cursor THEN q.cursor - 1
        ELSE IF q.cursor >= n THEN 0
        ELSE q.cursor

RemoveRun(q, r) ==
    LET p    == RootOf[r]
        list == q.lists[p]
        rest == RemoveAt(list, Min({i \in DOMAIN list : list[i] = r}))
        i    == CHOOSE j \in DOMAIN q.order : q.order[j] = p
    IN  IF ~InQueue(q, r) THEN q
        ELSE IF rest # <<>> THEN WithList(q, p, rest)
        ELSE [order  |-> RemoveAt(q.order, i),
              cursor |-> CursorAfterRemoval(q, i),
              lists  |-> [q.lists EXCEPT ![p] = <<>>]]

-----------------------------------------------------------------------------
(* dequeueNext(skipRoots, skipCallers)                                     *)

\* The 1-based positions in root p's list that dequeueNext may pick.
Eligible(q, p, skipCallers) ==
    {i \in DOMAIN q.lists[p] : CallerOf[q.lists[p][i]] \notin skipCallers}

\* Mutant: the search always begins at the first root.
MutantSlotFromFirst(q, step) == (step % Len(q.order)) + 1

\* The position in the order that is `step` places after the cursor.
SlotAt(q, step) == ((q.cursor + step) % Len(q.order)) + 1

\* The round-robin steps at which dequeueNext finds an entry.
ServableSteps(q, skipRoots, skipCallers) ==
    {s \in 0 .. Len(q.order) - 1 :
        LET p == q.order[SlotAt(q, s)]
        IN  p \notin skipRoots /\ Eligible(q, p, skipCallers) # {}}

CanDequeue(q, skipRoots, skipCallers) ==
    ServableSteps(q, skipRoots, skipCallers) # {}

\* The entry taken and the queue left behind, when CanDequeue.
DequeueNext(q, skipRoots, skipCallers) ==
    LET slot == SlotAt(q, Min(ServableSteps(q, skipRoots, skipCallers)))
        p    == q.order[slot]
        pick == Min(Eligible(q, p, skipCallers))
        rest == RemoveAt(q.lists[p], pick)
        left == RemoveAt(q.order, slot)
    IN  [run   |-> q.lists[p][pick],
         queue |-> IF rest # <<>>
                   THEN [order  |-> q.order,
                         cursor |-> slot % Len(q.order),
                         lists  |-> [q.lists EXCEPT ![p] = rest]]
                   ELSE [order  |-> left,
                         cursor |-> IF left = <<>> THEN 0
                                    ELSE (slot - 1) % Len(left),
                         lists  |-> [q.lists EXCEPT ![p] = <<>>]]]

-----------------------------------------------------------------------------
(* positionOf(runId): walk the heads of the lists from the cursor on.      *)

Walk(q) ==
    LET n == Len(q.order)
        walk[k \in 0 .. QueueSize(q)] ==
            IF k = 0
            THEN [rr |-> q.cursor % n, taken |-> [p \in Roots |-> 0],
                  at |-> NoRun]
            ELSE LET w       == walk[k - 1]
                     slot(s) == ((w.rr + s) % n) + 1
                     root(s) == q.order[slot(s)]
                     step    == Min({s \in 0 .. n - 1 :
                                   w.taken[root(s)] < Len(q.lists[root(s)])})
                     p       == root(step)
                 IN  [rr    |-> slot(step) % n,
                      taken |-> [w.taken EXCEPT ![p] = @ + 1],
                      at    |-> q.lists[p][w.taken[p] + 1]]
    IN  walk

\* Mutant: the position within the list of the run's own root.
MutantPositionInList(q, r) ==
    IF InQueue(q, r)
    THEN Min({i \in DOMAIN q.lists[RootOf[r]] : q.lists[RootOf[r]][i] = r})
    ELSE 0

\* 0 stands for undefined.
PositionOf(q, r) ==
    IF InQueue(q, r)
    THEN Min({k \in 1 .. QueueSize(q) : Walk(q)[k].at = r})
    ELSE 0

-----------------------------------------------------------------------------
(* What the structure must keep true of itself.                            *)

\* The order lists every root that has entries exactly once, and the
\* cursor points into it.
WellFormedQueue(q) ==
    /\ IsInjective(q.order)
    /\ Range(q.order) = {p \in Roots : q.lists[p] # <<>>}
    /\ q.cursor < Len(q.order) \/ (q.order = <<>> /\ q.cursor = 0)
    /\ \A p \in Roots : \A i \in DOMAIN q.lists[p] : RootOf[q.lists[p][i]] = p

\* The order in which an undisturbed drain would take the entries.
ServiceOrder(q) ==
    LET left[k \in 0 .. QueueSize(q)] ==
            IF k = 0 THEN [run |-> NoRun, queue |-> q]
            ELSE DequeueNext(left[k - 1].queue, {}, {})
    IN  [k \in 1 .. QueueSize(q) |-> left[k].run]
=============================================================================
