--------------------------- MODULE MCRunAdmission ---------------------------
(***************************************************************************)
(* Runs that conflict in every way the admission knows: r1 and r2 share a  *)
(* checkout, r1 and r3 a project, r1, r3 and r4 a caller.                  *)
(***************************************************************************)
EXTENDS RunAdmission

CONSTANTS r1, r2, r3, r4, pA, pB, pC, c1, k1

MCRoots == {pA, pB, pC}
MCCallers == {c1}
MCCheckouts == {k1}
MCRootOf == [r \in Runs |-> IF r \in {r1, r3} THEN pA ELSE IF r = r2 THEN pB ELSE pC]
MCCallerOf == [r \in Runs |-> IF r = r2 THEN NoCaller ELSE c1]
MCCheckoutOf == [r \in Runs |-> IF r \in {r1, r2} THEN k1 ELSE NoCheckout]
MCCallerQuota == (c1 :> 1)
=============================================================================
