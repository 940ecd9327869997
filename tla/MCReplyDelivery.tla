-------------------------- MODULE MCReplyDelivery --------------------------
(***************************************************************************)
(* Two replies and two sweeps whose lists overlap.                         *)
(***************************************************************************)
EXTENDS ReplyDelivery

CONSTANTS r1, r2, s1, s2
=============================================================================
