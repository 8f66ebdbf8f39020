---------------------------- MODULE MCPosInvoice ----------------------------
(* Instances of PosInvoice for TLC.                                        *)
EXTENDS PosInvoice, TLC

CONSTANTS Named, Others

(* The other invoices are on the walk-in customer.                         *)
MCCustomer == [i \in Invoices |-> IF i \in Others THEN WalkIn ELSE Named]
MCTotal == [i \in Invoices |-> IF i \in Others THEN 1 ELSE 2]
MCLimit == [p \in Partners |-> IF p = Named THEN 3 ELSE 1]

Symmetry == Permutations(Invoices \ Others) \cup Permutations(Sessions)
=============================================================================
