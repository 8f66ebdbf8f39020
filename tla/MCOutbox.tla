------------------------------ MODULE MCOutbox ------------------------------
(* Instances of Outbox for TLC.                                            *)
EXTENDS Outbox, TLC

CONSTANTS e1, e2, e3

(* As many poisoned events as a batch of two holds.                        *)
TwoArePoison == {<<e2, 2>>, <<e3, 1>>}

(* Replicas are interchangeable.                                           *)
Symmetry == Permutations(Workers)
=============================================================================
