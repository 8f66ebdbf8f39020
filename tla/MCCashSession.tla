--------------------------- MODULE MCCashSession ---------------------------
(* Instances of CashSession for TLC.                                       *)
EXTENDS CashSession, TLC

Symmetry ==
  Permutations(Registers) \cup Permutations(Shifts) \cup Permutations(Receipts)
    \cup Permutations(Orders) \cup Permutations(Requests)
============================================================================
