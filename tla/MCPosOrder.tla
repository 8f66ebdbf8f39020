----------------------------- MODULE MCPosOrder -----------------------------
(* Instances of PosOrder for TLC.                                          *)
EXTENDS PosOrder, TLC

(* Terminals, orders and units are interchangeable.                        *)
Symmetry == Permutations(Terminals) \cup Permutations(Orders) \cup Permutations(Units)
=============================================================================
