------------------------ MODULE MCIdempotentClient ------------------------
(* Instances of IdempotentClient for TLC.  Attempts and keys are           *)
(* interchangeable where no liveness property is checked.                  *)
EXTENDS IdempotentClient, TLC

Symmetry == Permutations(Attempts) \cup Permutations(Keys)
=============================================================================
