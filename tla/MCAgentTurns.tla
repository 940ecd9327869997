---------------------------- MODULE MCAgentTurns ----------------------------
(***************************************************************************)
(* The turn that opens a session, a later one, and calls that need an      *)
(* approval, with the same arguments or with others.  The gate looks at    *)
(* the arguments only, so one tool is enough where no property names it.   *)
(***************************************************************************)
EXTENDS AgentTurns

CONSTANTS t1, t2, g1, g2, p1, p2
=============================================================================
