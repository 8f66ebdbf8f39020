----------------------------- MODULE SplitBills -----------------------------
(***************************************************************************)
(* One tab of a table, shared out over split bills that are paid one by    *)
(* one, while other terminals void, save, cancel, reopen or bill the order *)
(* behind the tab.                                                         *)
(*                                                                         *)
(* The operations on bills hold the row of the table and only read the     *)
(* order, so the order may change between their first look at it (ReadTab) *)
(* and the second, with which recomputeBill prices the bill (the action of *)
(* the operation).  Paying a bill holds both rows, and what the terminals  *)
(* do to the order holds its row: each is one action.  Two requests write  *)
(* the order long after they looked at it, without that row: the back      *)
(* office its rows (FindEditable, Rewrite), the kitchen its status         *)
(* (FindConfirmed, Advance).                                               *)
(***************************************************************************)
EXTENDS Integers, FiniteSets, Functions

CONSTANTS
  Items,        \* rows of the order, by id: a cancelled row never returns
  Bills,        \* the split bills there may be at one time
  MaxQuantity,  \* bound on OrderItem.quantity, in portions that are not divided
  NoOperation

VARIABLES
  order,     \* the source order; "billed" has an invoice, "closed" was paid by split bills
  linked,    \* its PosTableOrder is open, which makes it the tab of the table
  live,      \* its rows that are not cancelled
  quantity,  \* of each row; a live row may be parked at 0
  punched,   \* the most of each row that was ever on the order
  priced,    \* some request has priced the order as it is now, to bill it whole
  bill,      \* each split bill: "none", "open" or "settled"
  on,        \* the SplitBillItems: how much of each row a bill carries
  reading,   \* the tab as the operation that holds the table has read it
  editing,   \* for a back office that found the order editable: the rows it found
  kitchen,   \* what a send to the kitchen has made of the order's status
  belated    \* the rows that the back office has put on a closed order

orderVars == <<order, linked, live, quantity, punched, priced>>
billVars == <<bill, on>>
staleVars == <<editing, kitchen, belated>>
vars == <<orderVars, billVars, reading, staleVars>>

Quantities == [Items -> 0..MaxQuantity]
Nothing == [i \in Items |-> 0]
Tabs == [open: BOOLEAN, live: SUBSET Items, quantity: Quantities]

ASSUME SplitBillsAssumption ==
  IsFiniteSet(Bills) /\ MaxQuantity \in Nat /\ NoOperation \notin Tabs

TypeOK ==
  /\ order \in {"open", "billed", "closed", "cancelled"}
  /\ linked \in BOOLEAN
  /\ live \subseteq Items
  /\ quantity \in Quantities
  /\ punched \in Quantities
  /\ priced \in BOOLEAN
  /\ bill \in [Bills -> {"none", "open", "settled"}]
  /\ on \in [Bills -> [Items -> Nat]]
  /\ reading \in Tabs \cup {NoOperation}
  /\ editing \subseteq SUBSET Items
  /\ kitchen \in {"unsent", "sending", "sent"}
  /\ belated \subseteq Items

Init ==
  /\ order = "open" /\ linked = TRUE
  /\ live \in SUBSET Items \ {{}}
  /\ quantity \in {q \in Quantities : \A i \in Items : q[i] > 0 <=> i \in live}
  /\ punched = quantity
  /\ priced = FALSE
  /\ bill = [b \in Bills |-> "none"]
  /\ on = [b \in Bills |-> Nothing]
  /\ reading = NoOperation
  /\ editing = {} /\ kitchen = "unsent" /\ belated = {}

TabHeld == linked /\ order # "cancelled"  \* mutant: the invoice of the order is not asked for
(* loadOpenTab                                                             *)
TabOpen == linked /\ order = "open"

AssignedUnpaid(i) ==  \* mutant: over the open bills only
  SumFunctionOnSet([b \in Bills |-> IF bill[b] = "open" THEN on[b][i] ELSE 0], Bills)
(* assignedByItem: over all bills, the settled ones included.              *)
Assigned(i) == SumFunctionOnSet([b \in Bills |-> on[b][i]], Bills)

(* resolvedBillLines, by which every change of a bill and its payment is   *)
(* priced from the tab as it is then: no line of a row that is gone or has *)
(* less than the line takes.                                               *)
Resolves(lines) ==
  \A i \in Items : lines[i] > 0 => TabOpen /\ i \in live /\ lines[i] <= quantity[i]

Plus(f, g) == [i \in Items |-> f[i] + g[i]]
Minus(f, g) == [i \in Items |-> f[i] - g[i]]
Within(f, g) == \A i \in Items : f[i] <= g[i]

----------------------------------------------------------------------------
(* Operations on bills: withTableLock around all of them.                  *)
TableUnlocked == TRUE  \* mutant: no lock
TableFree == reading = NoOperation

ReadTab ==
  /\ TableFree
  /\ reading' = [open |-> TabOpen, live |-> IF TabOpen THEN live ELSE {}, quantity |-> quantity]
  /\ UNCHANGED <<orderVars, billVars, staleVars>>

Done == reading # NoOperation /\ reading' = NoOperation /\ UNCHANGED <<orderVars, staleVars>>

Refuse == Done /\ UNCHANGED billVars

AddBills ==
  /\ Done
  /\ reading.live # {}
  /\ \E new \in SUBSET {b \in Bills : bill[b] = "none"} \ {{}} :
       bill' = [b \in Bills |-> IF b \in new THEN "open" ELSE bill[b]]
  /\ UNCHANGED on

(* Every bill gets the rounded share of each row, the last one what is     *)
(* left of it.                                                             *)
SplitEqually ==
  /\ Done
  /\ reading.live # {}
  /\ \A b \in Bills : bill[b] = "none"
  /\ \E new \in SUBSET Bills, last \in Bills :
       LET total == [i \in Items |-> IF i \in reading.live THEN reading.quantity[i] ELSE 0]
           share == [i \in Items |-> total[i] \div Cardinality(new)]
           rest == [i \in Items |-> total[i] - share[i] * (Cardinality(new) - 1)]
       IN /\ Cardinality(new) >= 2 /\ last \in new
          /\ Resolves(share) /\ Resolves(rest)
          /\ bill' = [b \in Bills |-> IF b \in new THEN "open" ELSE "none"]
          /\ on' = [b \in Bills |-> CASE b = last -> rest
                                      [] b \in new \ {last} -> share
                                      [] OTHER -> Nothing]

Assign(b, batch) ==
  /\ Done
  /\ bill[b] = "open" /\ reading.open
  /\ \A i \in Items : batch[i] > 0 =>
       i \in reading.live /\ batch[i] <= reading.quantity[i] - Assigned(i)
  /\ on' = [on EXCEPT ![b] = Plus(@, batch)]
  /\ Resolves(on'[b])
  /\ UNCHANGED bill

Unassign(b, batch) ==
  /\ Done
  /\ bill[b] = "open" /\ reading.open
  /\ Within(batch, on[b])
  /\ on' = [on EXCEPT ![b] = Minus(@, batch)]
  /\ Resolves(on'[b])
  /\ UNCHANGED bill

Move(from, to, batch) ==
  /\ Done
  /\ from # to
  /\ bill[from] = "open" /\ bill[to] = "open"
  /\ Within(batch, on[from])
  /\ on' = [on EXCEPT ![from] = Minus(@, batch), ![to] = Plus(@, batch)]
  /\ Resolves(on'[from]) /\ Resolves(on'[to])
  /\ UNCHANGED bill

Merge(target, source) ==
  /\ Done
  /\ target # source
  /\ bill[target] = "open" /\ bill[source] = "open"
  /\ on' = [on EXCEPT ![target] = Plus(@, on[source]), ![source] = Nothing]
  /\ bill' = [bill EXCEPT ![source] = "none"]
  /\ Resolves(on'[target])

DeleteBill(b) ==
  /\ Done
  /\ bill[b] = "open"
  /\ bill' = [bill EXCEPT ![b] = "none"]
  /\ on' = [on EXCEPT ![b] = Nothing]

CancelSplit ==
  /\ Done
  /\ reading.open
  /\ bill' = [b \in Bills |-> IF bill[b] = "open" THEN "none" ELSE bill[b]]
  /\ on' = [b \in Bills |-> IF bill[b] = "open" THEN Nothing ELSE on[b]]

BillOperation ==
  \/ Refuse \/ AddBills \/ SplitEqually \/ CancelSplit
  \/ \E b \in Bills : DeleteBill(b)
  \/ \E b \in Bills, batch \in Quantities : Assign(b, batch) \/ Unassign(b, batch)
  \/ \E b, c \in Bills : Merge(b, c) \/ \E batch \in Quantities : Move(b, c, batch)

(* settleBill: the bill is paid with an order and an invoice of its own.   *)
(* The last one closes the source order and its seat at the table.         *)
Settle(b) ==
  /\ TableFree
  /\ bill[b] = "open"
  /\ TabOpen
  /\ \A i \in live : Assigned(i) <= quantity[i]
  /\ Resolves(on[b])
  /\ \E i \in Items : on[b][i] > 0
  /\ bill' = [bill EXCEPT ![b] = "settled"]
  /\ IF /\ \A c \in Bills : bill'[c] # "open"
        /\ \A i \in live : Assigned(i) = quantity[i]
     THEN order' = "closed" /\ linked' = FALSE /\ priced' = FALSE
     ELSE UNCHANGED <<order, linked, priced>>
  /\ UNCHANGED <<live, quantity, punched, on, reading, staleVars>>

----------------------------------------------------------------------------
(* The order, as the terminals change it.  None of them looks at the       *)
(* bills.  Each raises the version, which makes what was priced before     *)
(* worthless.                                                              *)
Write(rows, quantities) ==
  /\ live' = rows
  /\ quantity' = quantities
  /\ punched' = [i \in Items |-> IF quantities[i] > punched[i] THEN quantities[i] ELSE punched[i]]
  /\ priced' = FALSE
  /\ UNCHANGED <<order, linked, billVars, reading, kitchen>>

(* saveItems, and addItems, whose cart is what is there and more.  What    *)
(* the kitchen has is not told apart: a save may drop any row.             *)
SaveItems ==
  /\ order = "open"
  /\ \E rows \in SUBSET {i \in Items : i \in live \/ punched[i] = 0} :
     \E quantities \in {q \in Quantities : \A i \in Items : q[i] > 0 => i \in rows} :
       Write(rows, quantities)
  /\ UNCHANGED <<editing, belated>>

VoidItem(i, asked) ==
  /\ order = "open"
  /\ i \in live
  /\ asked = quantity[i] \/ asked \in 1..quantity[i]
  /\ Write(IF asked = quantity[i] THEN live \ {i} ELSE live,
           [quantity EXCEPT ![i] = @ - asked])
  /\ UNCHANGED <<editing, belated>>

Cancel ==
  /\ order = "open"
  /\ order' = "cancelled" /\ linked' = FALSE /\ priced' = FALSE
  /\ UNCHANGED <<live, quantity, punched, billVars, reading, staleVars>>

(* The order comes back, its seat at the table does not.                   *)
Reopen ==
  /\ order = "cancelled"
  /\ order' = "open" /\ priced' = FALSE
  /\ kitchen' = IF kitchen = "sent" THEN "unsent" ELSE kitchen
  /\ UNCHANGED <<linked, live, quantity, punched, billVars, reading, editing, belated>>

(* generateInvoice: read and priced first, committed under the lock if the *)
(* version is still the same.  A closed order can be priced as well, but   *)
(* no workflow completes it.                                               *)
Price ==
  /\ order = "open"
  /\ live # {} /\ \A i \in live : quantity[i] > 0
  /\ priced' = TRUE
  /\ UNCHANGED <<order, linked, live, quantity, punched, billVars, reading, staleVars>>

BillWhole ==
  /\ priced /\ order = "open"
  /\ order' = "billed" /\ priced' = FALSE
  /\ UNCHANGED <<linked, live, quantity, punched, billVars, reading, staleVars>>

----------------------------------------------------------------------------
(* saveItems and addItems of the back office (OrdersService) look at the   *)
(* order without its row, and then delete every row and write new ones,    *)
(* with ids of their own, whatever the order is by now.  A row that came   *)
(* in after the deletion stays.  The lines of the bills keep the old ids.  *)
FindEditable ==
  /\ editing = {}  \* bound: one at a time
  /\ order = "open"
  /\ editing' = {live}
  /\ UNCHANGED <<orderVars, billVars, reading, kitchen, belated>>

Rewrite ==
  \E found \in editing :
    /\ \E new \in SUBSET {i \in Items : punched[i] = 0}, late \in SUBSET (live \ found) :
       \E quantities \in Quantities :
         /\ \A i \in Items : quantities[i] > 0 => i \in new \cup late
         /\ \A i \in late : quantities[i] = quantity[i]
         /\ Write(new \cup late, quantities)
         /\ belated' = IF order = "closed" THEN belated \cup new ELSE belated
    /\ editing' = {}

(* fireKitchen reads the order and, after the tickets are committed, takes *)
(* it from "confirmed" to "in_progress" by its id, whatever it is by now.  *)
FindConfirmed ==
  /\ order = "open" /\ kitchen = "unsent"
  /\ kitchen' = "sending"
  /\ UNCHANGED <<orderVars, billVars, reading, editing, belated>>

Advance ==
  /\ kitchen = "sending"
  /\ kitchen' = "sent"
  /\ order' = IF order = "billed" THEN "billed" ELSE "open"
  /\ UNCHANGED <<linked, live, quantity, punched, priced, billVars, reading, editing, belated>>

(* The request is refused, or its process dies.                            *)
LookedInVain ==
  /\ \/ editing # {} /\ editing' = {} /\ UNCHANGED kitchen
     \/ kitchen = "sending" /\ kitchen' = "unsent" /\ UNCHANGED editing
  /\ UNCHANGED <<orderVars, billVars, reading, belated>>

Next ==
  \/ ReadTab \/ BillOperation
  \/ \E b \in Bills : Settle(b)
  \/ SaveItems
  \/ \E i \in Items, asked \in 0..MaxQuantity : VoidItem(i, asked)
  \/ Cancel \/ Reopen \/ Price \/ BillWhole
  \/ FindEditable \/ Rewrite \/ FindConfirmed \/ Advance \/ LookedInVain

Spec == Init /\ [][Next]_vars

----------------------------------------------------------------------------
Settled(b) == bill[b] = "settled"

(* However the bills are edited while rows are voided, changed and added,  *)
(* the guests are never charged, over all paid bills, for more of a row    *)
(* than was ever ordered (PosSplitService, "the splits partition the       *)
(* source quantities exactly").  It is about rows: what the back office    *)
(* writes anew is a row that nobody has paid for yet.                      *)
PaidWithinPunched ==
  \A i \in Items :
    SumFunctionOnSet([b \in Bills |-> IF Settled(b) THEN on[b][i] ELSE 0], Bills) <= punched[i]

(* A source order that settleBill has closed owes nothing as long as it is *)
(* closed: no bill of it is open, not even one that was being added or     *)
(* assigned to while the last one was paid, and the paid bills carry every *)
(* row that is on it, whole.  The exception is what the back office writes *)
(* afterwards: it refuses an edit of a closed order ("Order is closed",    *)
(* orders.service.ts:540), but asks before it has the row.                 *)
ClosedIsPaid ==
  order = "closed" =>
    /\ \A b \in Bills : bill[b] # "open"
    /\ \A i \in live \ belated : Assigned(i) = quantity[i]

(* What guests have paid for is settled for good: no operation takes lines *)
(* from a paid bill or adds to it, folds it into another or deletes it,    *)
(* and once the whole order has its invoice, or is closed, no split bill   *)
(* of it is paid as well.                                                  *)
PaidIsFinal ==
  [][/\ \A b \in Bills : Settled(b) => Settled(b)' /\ on'[b] = on[b]
     /\ order \in {"billed", "closed"} => \A b \in Bills : Settled(b)' => Settled(b)]_vars
=============================================================================
