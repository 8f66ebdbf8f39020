--------------------------- MODULE MCIdempotency ---------------------------
EXTENDS Idempotency, TLC

(* Attempts are interchangeable: they are used only as indices.            *)
Symmetry == Permutations(Attempts)
=============================================================================
