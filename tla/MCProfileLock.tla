--------------------------- MODULE MCProfileLock ---------------------------
(***************************************************************************)
(* Three runs of one host that use one profile.  ra may be cancelled, end  *)
(* before its browsers are closed or without a release, and be retried; rb *)
(* and rc take the lock in between.                                        *)
(***************************************************************************)
EXTENDS ProfileLock

CONSTANTS ra, rb, rc, xa, host

MCOneProcess == [a \in Actors |-> host]
MCRunOf == [a \in Actors |-> IF a = xa THEN ra ELSE a]
=============================================================================
