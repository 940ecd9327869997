--------------------------- MODULE MCChannelSends ---------------------------
(***************************************************************************)
(* A call and its retry, a call with the same key and another message, and *)
(* two with keys of their own, for a ledger of two records.                *)
(***************************************************************************)
EXTENDS ChannelSends, TLC

CONSTANTS a1, a2, a3, b1, c1, ka, kb, kc, ha, hb

MCKeyOf == [c \in Callers |-> CASE c \in {a1, a2, a3} -> ka [] c = b1 -> kb
                                [] c = c1 -> kc]
MCHashOf == [c \in Callers |-> IF c = a3 THEN hb ELSE ha]

\* The call and its retry may change places, and so may the two other calls
\* together with their keys.
MCSwapRetry == a1 :> a2 @@ a2 :> a1
MCSwapOther == b1 :> c1 @@ c1 :> b1 @@ kb :> kc @@ kc :> kb
MCSymmetry == {MCSwapRetry, MCSwapOther, MCSwapRetry @@ MCSwapOther}
=============================================================================
