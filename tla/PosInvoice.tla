------------------------------ MODULE PosInvoice ------------------------------
(***************************************************************************)
(* Invoices of the point of sale from the bill to the last shilling:       *)
(* payments at the till, receipts booked in the back office, sales on the  *)
(* customer's account, refunds and write-offs (PosInvoiceService,          *)
(* refundInvoice, PaymentService.record).                                  *)
(*                                                                         *)
(* Each of these is one transaction that locks the row of the invoice,     *)
(* reads it (Lock), decides, and at the end writes what it has computed    *)
(* from what it read (the action of the operation).  A sale on account     *)
(* also locks the row of the customer, whose other invoices it adds up.    *)
(* The ledger moves by the amounts posted, the invoice by the values       *)
(* written, and nothing but the lock makes the two agree.                  *)
(*                                                                         *)
(* An invoice stands for its order too: there is one per order.            *)
(***************************************************************************)
EXTENDS Integers, FiniteSets, Functions

CONSTANTS
  Invoices,
  Partners,
  WalkIn,          \* the partner every sale without a customer is booked on
  Customer,        \* Invoice.partnerId
  Total,           \* Invoice.totalAmount, in units above all tolerances
  Limit,           \* creditLimit of a partner, 0 when none has been set
  AllowUnlimited,  \* settings.credit.allowUnlimited: no limit set is no limit
  Sessions,        \* requests the server can be processing at the same time
  Idle

Operations == {"receive", "collect", "account", "writeOff", "refund"}
Requests == [op : Operations, invoice : Invoices, amount : Nat,
             residual : Nat, paid : Nat, refunded : Nat]

ASSUME PosInvoiceAssumption ==
  /\ Customer \in [Invoices -> Partners]
  /\ Total \in [Invoices -> Nat \ {0}]
  /\ Limit \in [Partners -> Nat]
  /\ AllowUnlimited \in BOOLEAN
  /\ Idle \notin Requests

VARIABLES
  order,       \* "open", "billed" (status completed) or "closed"
  status,      \* of the invoice: "none", "posted", "paid" or "refunded"
  settlement,  \* settlementStatus
  onCredit,    \* the invoices whose paymentMode is credit
  residual,    \* amountResidual
  paid,        \* amountPaid
  refunded,    \* amountRefunded
  returned,    \* refundedAmount, over the allocations to the invoice
  receivable,  \* posted to the receivable account on the invoice's behalf
  badDebt,     \* posted to the bad-debt account
  txn          \* what each session is doing, with the invoice as it has read it

moneyVars == <<residual, paid, refunded, returned, receivable, badDebt>>
vars == <<order, status, settlement, onCredit, moneyVars, txn>>

TypeOK ==
  /\ order \in [Invoices -> {"open", "billed", "closed"}]
  /\ status \in [Invoices -> {"none", "posted", "paid", "refunded"}]
  /\ settlement \in [Invoices -> {"unsettled", "partially_settled", "settled", "written_off"}]
  /\ onCredit \subseteq Invoices
  /\ residual \in [Invoices -> Nat]
  /\ paid \in [Invoices -> Nat]
  /\ refunded \in [Invoices -> Nat]
  /\ returned \in [Invoices -> Nat]
  /\ receivable \in [Invoices -> Int]
  /\ badDebt \in [Invoices -> Nat]
  /\ txn \in [Sessions -> Requests \cup {Idle}]

Init ==
  /\ order = [i \in Invoices |-> "open"]
  /\ status = [i \in Invoices |-> "none"]
  /\ settlement = [i \in Invoices |-> "unsettled"]
  /\ onCredit = {}
  /\ residual = [i \in Invoices |-> 0]
  /\ paid = [i \in Invoices |-> 0]
  /\ refunded = [i \in Invoices |-> 0]
  /\ returned = [i \in Invoices |-> 0]
  /\ receivable = [i \in Invoices |-> 0]
  /\ badDebt = [i \in Invoices |-> 0]
  /\ txn = [s \in Sessions |-> Idle]

----------------------------------------------------------------------------
(* generateInvoice: priced, posted and bound to its order in one           *)
(* transaction.  The payment mode the request intends is stored as it is,  *)
(* credit included.                                                        *)
Bill(i, intended) ==
  /\ order[i] = "open"
  /\ order' = [order EXCEPT ![i] = "billed"]
  /\ status' = [status EXCEPT ![i] = "posted"]
  /\ onCredit' = IF intended = "credit" THEN onCredit \cup {i} ELSE onCredit
  /\ residual' = [residual EXCEPT ![i] = Total[i]]
  /\ receivable' = [receivable EXCEPT ![i] = @ + Total[i]]
  /\ UNCHANGED <<settlement, paid, refunded, returned, badDebt, txn>>

----------------------------------------------------------------------------
(* The row locks.                                                          *)
Busy == {s \in Sessions : txn[s] # Idle}
RowAlwaysFree(i) == TRUE  \* mutant: the invoice is not locked
RowFree(i) == \A s \in Busy : txn[s].invoice # i
PartnerAlwaysFree(p) == TRUE  \* mutant: the customer is not locked
PartnerFree(p) == \A s \in Busy : txn[s].op = "account" => Customer[txn[s].invoice] # p

(* resolveCreditStatus                                                     *)
Outstanding(p) ==
  SumFunctionOnSet(residual,
    {i \in onCredit : Customer[i] = p /\ settlement[i] \in {"unsettled", "partially_settled"}})

(* assertCreditAllowed.  A hold on the customer refuses some requests more.*)
CreditAllowed(p, amount) ==
  IF Limit[p] = 0 THEN AllowUnlimited ELSE Outstanding(p) + amount <= Limit[p]

(* normalizeTenders, and record for an allocation: never more than is due. *)
Accepts(op, i, amount) ==
  CASE op \in {"receive", "collect"} ->
         status[i] # "refunded" /\ amount \in 1..residual[i]
    [] op = "account" ->
         /\ status[i] # "refunded" /\ i \notin onCredit /\ residual[i] > 0
         /\ Customer[i] # WalkIn
         /\ PartnerFree(Customer[i])
         /\ amount = residual[i] /\ CreditAllowed(Customer[i], amount)
    [] op = "writeOff" -> residual[i] > 0 /\ amount = residual[i]
    [] op = "refund" ->
         /\ status[i] # "refunded" /\ settlement[i] # "written_off"
         /\ amount \in 1..(Total[i] - refunded[i])
         /\ amount <= residual[i] + (paid[i] - returned[i])

(* The transaction has its locks, has read the invoice and has not refused.*)
Lock(s, op, i, amount) ==
  /\ txn[s] = Idle
  /\ status[i] # "none"
  /\ RowFree(i)
  /\ Accepts(op, i, amount)
  /\ txn' = [txn EXCEPT ![s] = [op |-> op, invoice |-> i, amount |-> amount,
               residual |-> residual[i], paid |-> paid[i], refunded |-> refunded[i]]]
  /\ UNCHANGED <<order, status, settlement, onCredit, moneyVars>>

(* Anything that fails in between, such as too little cash in the drawer,  *)
(* a closed shift or a lost connection, undoes all of it.                  *)
Rollback(s) ==
  /\ txn[s] # Idle
  /\ txn' = [txn EXCEPT ![s] = Idle]
  /\ UNCHANGED <<order, status, settlement, onCredit, moneyVars>>

Commits(s, op) ==
  /\ txn[s] # Idle /\ txn[s].op = op
  /\ txn' = [txn EXCEPT ![s] = Idle]

(* closeOrderForInvoice                                                    *)
CloseOrder(i) == order' = [order EXCEPT ![i] = "closed"]

----------------------------------------------------------------------------
(* PaymentService.record: the receipt, its posting, its allocation.        *)
Book(s) ==
  LET x == txn[s] IN
  /\ residual' = [residual EXCEPT ![x.invoice] = x.residual - x.amount]
  /\ paid' = [paid EXCEPT ![x.invoice] = x.paid + x.amount]
  /\ receivable' = [receivable EXCEPT ![x.invoice] = @ - x.amount]
  /\ status' = IF x.residual = x.amount THEN [status EXCEPT ![x.invoice] = "paid"] ELSE status
  /\ UNCHANGED <<refunded, returned, badDebt>>

ReceiveAndClose(s) ==  \* mutant: a part payment closes the order too
  /\ Commits(s, "receive")
  /\ Book(s)
  /\ CloseOrder(txn[s].invoice)
  /\ settlement' = [settlement EXCEPT ![txn[s].invoice] = "settled"]
  /\ UNCHANGED onCredit

(* receivePayment                                                          *)
Receive(s) ==
  /\ Commits(s, "receive")
  /\ Book(s)
  /\ IF txn[s].amount = txn[s].residual
     THEN /\ CloseOrder(txn[s].invoice)
          /\ settlement' = [settlement EXCEPT ![txn[s].invoice] = "settled"]
     ELSE /\ settlement' = [settlement EXCEPT ![txn[s].invoice] = "partially_settled"]
          /\ UNCHANGED order
  /\ UNCHANGED onCredit

(* POST /payments with an allocation to the invoice: the till hears of it  *)
(* only through the residual.                                              *)
Collect(s) ==
  /\ Commits(s, "collect")
  /\ Book(s)
  /\ UNCHANGED <<order, settlement, onCredit>>

(* settleCredit                                                            *)
PutOnAccount(s) ==
  /\ Commits(s, "account")
  /\ onCredit' = onCredit \cup {txn[s].invoice}
  /\ settlement' = [settlement EXCEPT ![txn[s].invoice] = "unsettled"]
  /\ CloseOrder(txn[s].invoice)
  /\ UNCHANGED <<status, moneyVars>>

WriteOff(s) ==
  LET x == txn[s] IN
  /\ Commits(s, "writeOff")
  /\ residual' = [residual EXCEPT ![x.invoice] = 0]
  /\ receivable' = [receivable EXCEPT ![x.invoice] = @ - x.residual]
  /\ badDebt' = [badDebt EXCEPT ![x.invoice] = @ + x.residual]
  /\ settlement' = [settlement EXCEPT ![x.invoice] = "written_off"]
  /\ CloseOrder(x.invoice)
  /\ UNCHANGED <<status, onCredit, paid, refunded, returned>>

(* refundInvoice: what is still owed is forgiven first, and only the rest  *)
(* is paid back, out of the tenders collected.                             *)
Forgiven(x) == IF x.residual < x.amount THEN x.residual ELSE x.amount

Refund(s) ==
  LET x == txn[s]
      payout == x.amount - Forgiven(x)
  IN
  /\ Commits(s, "refund")
  /\ residual' = [residual EXCEPT ![x.invoice] = x.residual - Forgiven(x)]
  /\ refunded' = [refunded EXCEPT ![x.invoice] = x.refunded + x.amount]
  /\ returned' = [returned EXCEPT ![x.invoice] = @ + payout]
  /\ receivable' = [receivable EXCEPT ![x.invoice] = @ - x.amount + payout]
  /\ IF x.refunded + x.amount = Total[x.invoice]
     THEN /\ status' = [status EXCEPT ![x.invoice] = "refunded"]
          /\ settlement' = [settlement EXCEPT ![x.invoice] = "settled"]
          /\ CloseOrder(x.invoice)
     ELSE UNCHANGED <<status, settlement, order>>
  /\ UNCHANGED <<onCredit, paid, badDebt>>

----------------------------------------------------------------------------
Next ==
  \/ \E i \in Invoices, m \in {"tender", "credit"} : Bill(i, m)
  \/ \E s \in Sessions, op \in Operations, i \in Invoices :
       \E a \in 1..Total[i] : Lock(s, op, i, a)
  \/ \E s \in Sessions :
       Receive(s) \/ Collect(s) \/ PutOnAccount(s) \/ WriteOff(s) \/ Refund(s) \/ Rollback(s)

Spec == Init /\ [][Next]_vars
----------------------------------------------------------------------------
(* The books agree on every invoice, however payments, refunds and write-  *)
(* offs of it overlap: what the receivable account has been debited and    *)
(* not credited is what the invoice shows as due, and all of its total is  *)
(* due, kept, refunded or lost.  ("Financial reversal and goods            *)
(* disposition are separate, auditable decisions", refund-operation.ts:16; *)
(* the row lock is what receivePayment relies on for "no double-charge, no *)
(* negative residual", pos-invoice.service.ts:530.)                        *)
BooksAgree ==
  \A i \in Invoices : status[i] # "none" =>
    /\ receivable[i] = residual[i]
    /\ Total[i] = residual[i] + (paid[i] - returned[i]) + refunded[i] + badDebt[i]

OnAccount(p) == {i \in onCredit : Customer[i] = p /\ order[i] = "closed"}

(* What a customer owes on account for sales that are closed stays within  *)
(* the limit, even when two terminals put two sales on it at once:         *)
(* "otherwise two terminals could both pass a check-then-act limit test    *)
(* and jointly blow the limit" (pos-invoice.service.ts:661-663).           *)
CreditWithinLimit ==
  \A p \in Partners :
    Limit[p] > 0 \/ ~AllowUnlimited => SumFunctionOnSet(residual, OnAccount(p)) <= Limit[p]

(* No order leaves the floor unpaid: once it is closed nothing is due on   *)
(* its invoice, unless the customer's account carries it, whatever part    *)
(* payments, part refunds and write-offs came before.                      *)
ClosedIsCovered ==
  \A i \in Invoices : order[i] = "closed" => residual[i] = 0 \/ i \in onCredit

(* A refund in full and a write-off end an invoice: no later payment,      *)
(* refund or write-off, not even one that was already waiting for the row, *)
(* changes its money any more.                                             *)
EndedStaysEnded ==
  [][\A i \in Invoices :
       status[i] = "refunded" \/ settlement[i] = "written_off" =>
         /\ residual'[i] = residual[i] /\ receivable'[i] = receivable[i]
         /\ returned'[i] = returned[i] /\ badDebt'[i] = badDebt[i]]_vars
=============================================================================
