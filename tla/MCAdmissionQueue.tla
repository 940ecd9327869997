-------------------------- MODULE MCAdmissionQueue --------------------------
(***************************************************************************)
(* Three project roots; the first has a run of each of two callers, so     *)
(* that an entry can be picked from the middle of its list, and roots      *)
(* leave and rejoin the round-robin order while others stay.               *)
(***************************************************************************)
EXTENDS AdmissionQueueDrain

CONSTANTS r1, r2, r3, r4, pA, pB, pC, c1, c2

MCRuns == {r1, r2, r3, r4}
MCRoots == {pA, pB, pC}
MCCallers == {c1, c2}
MCRootOf == (r1 :> pA) @@ (r2 :> pA) @@ (r3 :> pB) @@ (r4 :> pC)
MCCallerOf == (r1 :> c1) @@ (r2 :> c2) @@ (r3 :> c1) @@ (r4 :> NoCaller)
=============================================================================
