--------------------------- MODULE MCRetrySession ---------------------------
(* Two stages; the second request is for the stage of the first one or for *)
(* the other stage.                                                        *)
EXTENDS RetrySession, TLC

CONSTANTS sA, sB, c1, c2

MCStagesOf == (c1 :> {sA}) @@ (c2 :> {sA, sB})
=============================================================================
