--------------------------- MODULE MCStageLauncher ---------------------------
(***************************************************************************)
(* Two runs that compete for the slots; two launches of one stage (as two  *)
(* loops of the scheduler make them) and two overlapping cancels.          *)
(***************************************************************************)
EXTENDS StageLauncher

CONSTANTS l1, l2, l3, l4, l5, ra, rb, c1, c2

MCRunOf == [l \in Launches |-> IF l \in {l1, l2, l3} THEN ra ELSE rb]
MCKeyOf == [l \in Launches |-> CASE l = l1 -> 1 [] l = l2 -> 2 [] l = l3 -> 2
                                 [] l = l4 -> 3 [] l = l5 -> 4]
MCCancelOf == [c \in Cancels |-> ra]
=============================================================================
