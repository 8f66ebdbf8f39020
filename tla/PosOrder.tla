------------------------------ MODULE PosOrder ------------------------------
(***************************************************************************)
(* Orders of the point of sale, from the first item to the settled bill,   *)
(* with several terminals at work on the same order: the cart that each    *)
(* save replaces, rounds that are appended, voids, cancelling, reopening,  *)
(* merging, the kitchen, and the bill.  The orders carry no table          *)
(* (counter, takeaway, delivery), so the floor has no part in it.          *)
(*                                                                         *)
(* A transaction that locks the row of its order and writes only that      *)
(* order is one action; what a request reads before, or writes after, is   *)
(* an action of its own.  The back office edits the same orders without    *)
(* that lock: it looks at the order in one action and writes its items in  *)
(* another.                                                                *)
(***************************************************************************)
EXTENDS Naturals

CONSTANTS
  Terminals,   \* requests that can be in progress at once
  Orders,
  Units,       \* what the guests ask for, one portion each, told apart by signature
  NoOrder,
  MaxVersion   \* bound on Order.version

ASSUME PosOrderAssumption == NoOrder \notin Orders /\ MaxVersion \in Nat

VARIABLES
  status,    \* of each order; "none" before it is created
  version,
  rows,      \* its OrderItems that are not cancelled
  sent,      \* the rows the kitchen has: kitchenPrintedQty = quantity
  billed,    \* orders with an invoiceId
  bill,      \* the InvoiceItems of each
  settled,   \* billed orders with nothing left to pay
  cooked,    \* how often each unit has been put on a kitchen ticket
  punched,   \* units that are, or were, on an order
  copied,    \* units with a second row that the kitchen knows nothing of, from a
             \* merge, or from the back office after they were cooked
  rewritten, \* billed orders whose items the back office has written since
  pc, work,  \* what each terminal is doing, and with which order
  seen       \* what it has read

itemVars == <<rows, punched>>
billVars == <<billed, bill, settled, rewritten>>
kitchenVars == <<sent, cooked, copied>>
termVars == <<pc, work, seen>>
vars == <<status, version, itemVars, kitchenVars, billVars, termVars>>

Statuses == {"none", "confirmed", "in_progress", "completed", "closed", "cancelled"}
Steps == {"idle", "reading", "open", "rewrite", "fire", "tickets", "advance", "billing", "bill"}
Nothing == [status |-> "none", version |-> 0, units |-> {}]

(* The transitions that the workflow of an order declares.                 *)
Transitions ==
  [create |-> {<<"none", "confirmed">>},
   start_fulfillment |-> {<<"confirmed", "in_progress">>},
   complete |-> {<<"confirmed", "completed">>, <<"in_progress", "completed">>},
   close |-> {<<"completed", "closed">>, <<"confirmed", "closed">>, <<"in_progress", "closed">>},
   cancel |-> {<<"confirmed", "cancelled">>, <<"in_progress", "cancelled">>},
   supersede |-> {<<"confirmed", "cancelled">>, <<"in_progress", "cancelled">>},
   reopen |-> {<<"cancelled", "confirmed">>}]

TypeOK ==
  /\ status \in [Orders -> Statuses]
  /\ version \in [Orders -> Nat]
  /\ rows \in [Orders -> SUBSET Units]
  /\ sent \subseteq Orders \X Units
  /\ billed \subseteq Orders
  /\ bill \in [Orders -> SUBSET Units]
  /\ settled \subseteq Orders
  /\ rewritten \subseteq Orders
  /\ cooked \in [Units -> Nat]
  /\ punched \subseteq Units
  /\ copied \subseteq Units
  /\ pc \in [Terminals -> Steps]
  /\ work \in [Terminals -> Orders \cup {NoOrder}]
  /\ seen \in [Terminals -> [status: Statuses, version: Nat, units: SUBSET Units]]

Init ==
  /\ status = [o \in Orders |-> "none"]
  /\ version = [o \in Orders |-> 0]
  /\ rows = [o \in Orders |-> {}]
  /\ sent = {}
  /\ billed = {} /\ settled = {} /\ rewritten = {}
  /\ bill = [o \in Orders |-> {}]
  /\ cooked = [u \in Units |-> 0]
  /\ punched = {} /\ copied = {}
  /\ pc = [t \in Terminals |-> "idle"]
  /\ work = [t \in Terminals |-> NoOrder]
  /\ seen = [t \in Terminals |-> Nothing]

Begin(t, p, o, what) ==
  /\ pc[t] = "idle"
  /\ pc' = [pc EXCEPT ![t] = p]
  /\ work' = [work EXCEPT ![t] = o]
  /\ seen' = [seen EXCEPT ![t] = what]

Proceed(t, p, q, what) ==
  /\ pc[t] = p
  /\ pc' = [pc EXCEPT ![t] = q]
  /\ seen' = [seen EXCEPT ![t] = what]
  /\ UNCHANGED work

Finish(t, p) ==
  /\ pc[t] = p
  /\ pc' = [pc EXCEPT ![t] = "idle"]
  /\ work' = [work EXCEPT ![t] = NoOrder]
  /\ seen' = [seen EXCEPT ![t] = Nothing]

(* The workflow engine looks the transition up from the status it is given *)
(* and writes the new one by id, whatever the row holds.                   *)
Transition(o, from, action) ==
  \E edge \in Transitions[action] :
    /\ edge[1] = from
    /\ status' = [status EXCEPT ![o] = edge[2]]

Bump(changed) ==
  /\ \A o \in changed : version[o] < MaxVersion
  /\ version' = [o \in Orders |-> IF o \in changed THEN version[o] + 1 ELSE version[o]]

Editable(o) == o \notin billed /\ status[o] \notin {"none", "cancelled", "closed"}

(* writeItems: the rows become the cart.  What it matches keeps its row,   *)
(* the rest is new, and what it drops must not have reached the kitchen.   *)
WriteItems(o, cart) ==
  /\ \A u \in rows[o] \ cart : <<o, u>> \notin sent
  /\ rows' = [rows EXCEPT ![o] = cart]
  /\ punched' = punched \cup cart

----------------------------------------------------------------------------
(* The cart.                                                               *)
Create(o) ==
  /\ status[o] = "none"
  /\ Transition(o, "none", "create")
  /\ \E lines \in SUBSET (Units \ punched) :
       IF lines = {}
       THEN UNCHANGED <<itemVars, version>>
       ELSE WriteItems(o, lines) /\ Bump({o})
  /\ UNCHANGED <<kitchenVars, billVars, termVars>>

(* getOrder: the row of the order, then its items.                         *)
OpenOrder(t, o) ==
  /\ status[o] # "none"
  /\ Begin(t, "reading", o, [Nothing EXCEPT !.version = version[o]])
  /\ UNCHANGED <<status, version, itemVars, kitchenVars, billVars>>

OpenItems(t) ==
  /\ Proceed(t, "reading", "open", [seen[t] EXCEPT !.units = rows[work[t]]])
  /\ UNCHANGED <<status, version, itemVars, kitchenVars, billVars>>

(* saveItems, and the automatic send to the kitchen that follows it.       *)
Save(t) ==
  LET o == work[t] IN
  /\ Proceed(t, "open", "fire", Nothing)
  /\ Editable(o)
  /\ seen[t].version = version[o]
  /\ \E cart \in SUBSET (seen[t].units \cup (Units \ punched)) : WriteItems(o, cart)
  /\ Bump({o})
  /\ UNCHANGED <<status, kitchenVars, billVars>>

(* addItems: a round, without a version, then the kitchen.                 *)
AddItems(t, o) ==
  /\ Editable(o)
  /\ Begin(t, "fire", o, Nothing)
  /\ \E lines \in SUBSET (Units \ punched) \ {{}} : WriteItems(o, rows[o] \cup lines)
  /\ Bump({o})
  /\ UNCHANGED <<status, kitchenVars, billVars>>

VoidQuietly(o, u) ==  \* mutant: the totals, and the version, are not refreshed
  /\ Editable(o)
  /\ u \in rows[o]
  /\ rows' = [rows EXCEPT ![o] = @ \ {u}]
  /\ sent' = sent \ {<<o, u>>}
  /\ UNCHANGED <<status, version, punched, cooked, copied, billVars, termVars>>

(* voidItem: a reason and, when the kitchen has it, a manager.             *)
VoidItem(o, u) ==
  /\ Editable(o)
  /\ u \in rows[o]
  /\ rows' = [rows EXCEPT ![o] = @ \ {u}]
  /\ sent' = sent \ {<<o, u>>}
  /\ Bump({o})
  /\ UNCHANGED <<status, punched, cooked, copied, billVars, termVars>>

(* cancelOrder leaves the rows as they are.                                *)
Cancel(o) ==
  /\ o \notin billed
  /\ Transition(o, status[o], "cancel")
  /\ Bump({o})
  /\ UNCHANGED <<itemVars, kitchenVars, billVars, termVars>>

Reopen(o) ==
  /\ o \notin billed
  /\ Transition(o, status[o], "reopen")
  /\ Bump({o})
  /\ UNCHANGED <<itemVars, kitchenVars, billVars, termVars>>

(* mergeOrders writes the items of the source to the target, as new rows,  *)
(* and leaves the source, cancelled, with its own.                         *)
Merge(target, source) ==
  /\ target # source
  /\ Editable(target) /\ Editable(source)
  /\ rows[target] \cap rows[source] = {}  \* bound: a unit is on an order once
  /\ WriteItems(target, rows[target] \cup rows[source])
  /\ Transition(source, status[source], "supersede")
  /\ copied' = copied \cup rows[source]
  /\ Bump({target, source})
  /\ UNCHANGED <<sent, cooked, billVars, termVars>>

----------------------------------------------------------------------------
(* saveItems and addItems of the back office (OrdersService).  The order   *)
(* is checked without its lock, and its version only if the page sends it. *)
RewriteRead(t) ==
  /\ Proceed(t, "open", "rewrite", [Nothing EXCEPT !.units = seen[t].units \cup rows[work[t]]])
  /\ Editable(work[t])
  /\ UNCHANGED <<status, version, itemVars, kitchenVars, billVars>>

(* Every row is deleted and written anew, from the lines of the page or,   *)
(* for addItems, from the rows read and a round, whatever the order is by  *)
(* now and whatever the kitchen has.  A row that came in after the         *)
(* deletion stays.                                                         *)
RewriteCommit(t) ==
  LET o == work[t] IN
  /\ Finish(t, "rewrite")
  /\ \E cart \in SUBSET (seen[t].units \cup rows[o] \cup (Units \ punched)) :
     \E late \in SUBSET (rows[o] \ (seen[t].units \cup cart)) :
       /\ rows' = [rows EXCEPT ![o] = late \cup cart]
       /\ punched' = punched \cup cart
       /\ sent' = {s \in sent : s[1] = o => s[2] \in late}
       /\ copied' = copied \cup {u \in cart : cooked[u] > 0}
  /\ rewritten' = rewritten \cup ({o} \cap billed)
  /\ Bump({o})
  /\ UNCHANGED <<status, cooked, billed, bill, settled>>

----------------------------------------------------------------------------
(* The kitchen.                                                            *)
StartFire(t, o) ==
  /\ status[o] # "none"
  /\ Begin(t, "fire", o, Nothing)
  /\ UNCHANGED <<status, version, itemVars, kitchenVars, billVars>>

FireRead(t) ==
  /\ Proceed(t, "fire", "tickets", [Nothing EXCEPT !.status = status[work[t]]])
  /\ UNCHANGED <<status, version, itemVars, kitchenVars, billVars>>

AfterTickets(t, some) ==
  IF some # {} /\ seen[t].status = "confirmed"
  THEN Proceed(t, "tickets", "advance", seen[t])
  ELSE Finish(t, "tickets")

Unsent(o) == {u \in rows[o] : <<o, u>> \notin sent}

FireUnmarked(t) ==  \* mutant: the tickets without the printed quantities
  /\ pc[t] = "tickets"
  /\ \E some \in SUBSET Unsent(work[t]) :
       /\ AfterTickets(t, some)
       /\ cooked' = [u \in Units |-> IF u \in some THEN cooked[u] + 1 ELSE cooked[u]]
  /\ UNCHANGED <<status, version, itemVars, sent, copied, billVars>>

(* Under the lock of the order: the lines not printed yet, or those of     *)
(* them that are routed to a station, or belong to the course.             *)
FireTickets(t) ==
  /\ pc[t] = "tickets"
  /\ \E some \in SUBSET Unsent(work[t]) :
       /\ AfterTickets(t, some)
       /\ sent' = sent \cup ({work[t]} \X some)
       /\ cooked' = [u \in Units |-> IF u \in some THEN cooked[u] + 1 ELSE cooked[u]]
  /\ UNCHANGED <<status, version, itemVars, copied, billVars>>

AdvanceToLegacy(t) ==  \* mutant: the status of an old terminal
  /\ Finish(t, "advance")
  /\ status' = [status EXCEPT ![work[t]] = "preparing"]
  /\ UNCHANGED <<version, itemVars, kitchenVars, billVars>>

(* After the commit, with the order as it was read at the start.           *)
FireAdvance(t) ==
  /\ Finish(t, "advance")
  /\ Transition(work[t], seen[t].status, "start_fulfillment")
  /\ UNCHANGED <<version, itemVars, kitchenVars, billVars>>

----------------------------------------------------------------------------
(* The bill: the order and then its items are read without a lock.         *)
BillRead(t, o) ==
  /\ status[o] \notin {"none", "cancelled"} /\ o \notin billed
  /\ Begin(t, "billing", o, [Nothing EXCEPT !.status = status[o], !.version = version[o]])
  /\ UNCHANGED <<status, version, itemVars, kitchenVars, billVars>>

BillItems(t) ==
  /\ Proceed(t, "billing", "bill", [seen[t] EXCEPT !.units = rows[work[t]]])
  /\ rows[work[t]] # {}
  /\ UNCHANGED <<status, version, itemVars, kitchenVars, billVars>>

BillCommitUnchecked(t) ==  \* mutant: only invoiceId is looked at again
  LET o == work[t] IN
  /\ Finish(t, "bill")
  /\ o \notin billed
  /\ Transition(o, seen[t].status, "complete")
  /\ billed' = billed \cup {o}
  /\ bill' = [bill EXCEPT ![o] = seen[t].units]
  /\ UNCHANGED <<version, itemVars, kitchenVars, settled, rewritten>>

(* In the transaction the invoice and the version are looked at again.     *)
BillCommit(t) ==
  LET o == work[t] IN
  /\ Finish(t, "bill")
  /\ o \notin billed
  /\ seen[t].version = version[o]
  /\ Transition(o, seen[t].status, "complete")
  /\ billed' = billed \cup {o}
  /\ bill' = [bill EXCEPT ![o] = seen[t].units]
  /\ UNCHANGED <<version, itemVars, kitchenVars, settled, rewritten>>

(* The payment that leaves nothing to pay closes the order.                *)
Settle(o) ==
  /\ o \in billed \ settled
  /\ settled' = settled \cup {o}
  /\ Transition(o, status[o], "close")
  /\ UNCHANGED <<version, itemVars, kitchenVars, billed, bill, rewritten, termVars>>

(* A refusal, a terminal that is put aside, a process that dies; a failing *)
(* automatic send is only logged.                                          *)
GiveUp(t) ==
  /\ pc[t] # "idle"
  /\ Finish(t, pc[t])
  /\ UNCHANGED <<status, version, itemVars, kitchenVars, billVars>>

Next ==
  \/ \E o \in Orders : Create(o) \/ Cancel(o) \/ Reopen(o) \/ Settle(o)
  \/ \E o \in Orders, u \in Units : VoidItem(o, u)
  \/ \E target, source \in Orders : Merge(target, source)
  \/ \E t \in Terminals, o \in Orders :
       OpenOrder(t, o) \/ AddItems(t, o) \/ StartFire(t, o) \/ BillRead(t, o)
  \/ \E t \in Terminals :
       \/ OpenItems(t) \/ Save(t) \/ RewriteRead(t) \/ RewriteCommit(t)
       \/ FireRead(t) \/ FireTickets(t) \/ FireAdvance(t)
       \/ BillItems(t) \/ BillCommit(t)
       \/ GiveUp(t)

Spec == Init /\ [][Next]_vars

----------------------------------------------------------------------------
(* A bill has the items of its order, those it had when it was made and    *)
(* those it has now, whoever saved, voided or merged meanwhile: the items  *)
(* are read before the lock and only the version is compared under it      *)
(* (pos-invoice.service.ts:348-350).  The exception is an order that the   *)
(* back office found without a bill and wrote when it had one              *)
(* (orders.service.ts:264).                                                *)
BillMatchesOrder ==
  \A o \in billed : bill[o] # {} /\ (o \notin rewritten => bill[o] = rows[o])

(* A terminal whose version is current shows the items of the order, so a  *)
(* save that replaces them all takes nothing off that its cashier has not  *)
(* seen (pos-orders.service.ts:1477-1482).                                 *)
ScreenIsCurrent ==
  \A t \in Terminals :
    pc[t] = "open" /\ seen[t].version = version[work[t]] => seen[t].units = rows[work[t]]

(* "dispatch is exactly-once" (pos-orders.service.ts:719-723): a unit is   *)
(* on one kitchen ticket at most, however many terminals send its order    *)
(* and however the cart is replaced.  The exceptions are the units that    *)
(* got a second row without the mark of the kitchen: those that a merge    *)
(* moved, and cooked ones that the back office wrote anew                  *)
(* (orders.service.ts:475).                                                *)
CookedOnce == \A u \in Units \ copied : cooked[u] <= 1
=============================================================================
