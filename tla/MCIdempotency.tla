--------------------------- MODULE MCIdempotency ---------------------------
(* Small instances of Idempotency for TLC.                                 *)
EXTENDS IdempotencyProofs, TLC

CONSTANT Other   \* dispatches that reuse the key with another body

MCFp == [d \in Dispatches |-> IF d \in Other THEN "f2" ELSE "f1"]

Symmetry == Permutations(Dispatches \ Other)
=============================================================================
