--------------------------- MODULE MCIdempotency ---------------------------
(* c1 and c2 are a call and its overlapping retry; c3 reuses their key for *)
(* another payload; c4 is an independent call.                             *)
EXTENDS Idempotency, TLC

CONSTANTS c1, c2, c3, c4, k1, k2, p1, p2

MCCallers == {c1, c2, c3, c4}
MCKeys == {k1, k2}
MCPayloads == {p1, p2}
MCKeyOf == c1 :> k1 @@ c2 :> k1 @@ c3 :> k1 @@ c4 :> k2
MCPayloadOf == c1 :> p1 @@ c2 :> p1 @@ c3 :> p2 @@ c4 :> p1
===========================================================================
