---------------------------- MODULE MCSplitBills ----------------------------
(* Instances of SplitBills for TLC.                                        *)
EXTENDS SplitBills, TLC

(* Rows and bills are interchangeable.                                     *)
Symmetry == Permutations(Items) \cup Permutations(Bills)
=============================================================================
