--------------------------- MODULE MCStockPosting ---------------------------
(* Instances of StockPosting for TLC.                                      *)
EXTENDS StockPosting, TLC

(* Workers are interchangeable, and so are the lines of a sale.            *)
Symmetry == Permutations(Workers) \cup Permutations(Lines)
=============================================================================
