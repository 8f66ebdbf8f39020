---------------------------- MODULE CashSession ----------------------------
(***************************************************************************)
(* Cash shifts: a register's drawer, its account in the general ledger,    *)
(* the shifts that hold it one after the other, what goes in and out, the  *)
(* count at the close, and the orders a close must not leave behind.       *)
(*                                                                         *)
(* A transaction that takes the row lock of its shift first and reads      *)
(* nothing before is one action.  Opening, closing, handing over and       *)
(* banking after the close read the books under their locks and write      *)
(* later: two actions, with the locks held between them.                   *)
(***************************************************************************)
EXTENDS Integers

CONSTANTS
  Registers,   \* each with a drawer account of its own
  Shifts,
  Receipts,    \* customer receipts in cash outside the point of sale
  Orders,
  Requests,    \* transactions that can be in progress at once
  Nothing,
  MaxCash      \* bound on every amount, count and balance

ASSUME CashSessionAssumption ==
  /\ Nothing \notin Registers \cup Shifts
  /\ MaxCash \in Nat \ {0}

VARIABLES
  status,      \* of each shift; "none" before it is opened
  at,          \* its register
  float,       \* openingFloat
  net,         \* the sum of its CashMovements, signed
  counted,     \* closingCounted
  expected,    \* closingExpected
  variance,    \* varianceStatus; pending_review and rejected are unresolved
  ledger,      \* of each register: the posted balance of its drawer account
  direct,      \* the part of it that was posted past the shifts
  banked,      \* taken to the bank since the last shift closed
  last,        \* the latest shift of each register
  receipt,     \* of each receipt: its shift and amount, and whether it is void
  order,       \* of each order: none, open, billed, settled or cancelled
  live,        \* orders with an item that is not cancelled
  billedIn,    \* the cashSessionId of an order's bill
  pc, on, drawer, read   \* of each request: its step, shift, register, balances read

shiftVars == <<status, at, float, net, counted, expected, variance>>
bookVars == <<ledger, direct, banked, last>>
orderVars == <<order, live, billedIn>>
requestVars == <<pc, on, drawer, read>>
vars == <<shiftVars, bookVars, receipt, orderVars, requestVars>>

Amounts == 1..MaxCash
Balances == -MaxCash..MaxCash
Counts == 0..MaxCash
NoBalance == [ledger |-> 0, direct |-> 0]
Unpaid == [state |-> "none", shift |-> Nothing, amount |-> 0]

TypeOK ==
  /\ status \in [Shifts -> {"none", "open", "closed", "reconciled"}]
  /\ at \in [Shifts -> Registers \cup {Nothing}]
  /\ float \in [Shifts -> Int] /\ net \in [Shifts -> Int]
  /\ counted \in [Shifts -> Int] /\ expected \in [Shifts -> Int]
  /\ variance \in [Shifts -> {"none", "unresolved", "approved"}]
  /\ ledger \in [Registers -> Int] /\ direct \in [Registers -> Int]
  /\ banked \in [Registers -> Int]
  /\ last \in [Registers -> Shifts \cup {Nothing}]
  /\ receipt \in [Receipts -> [state: {"none", "posted", "cancelled"},
                               shift: Shifts \cup {Nothing}, amount: Int]]
  /\ order \in [Orders -> {"none", "open", "billed", "settled", "cancelled"}]
  /\ live \subseteq Orders
  /\ billedIn \in [Orders -> Shifts \cup {Nothing}]
  /\ pc \in [Requests -> {"idle", "opening", "closing", "handing", "moving", "banking"}]
  /\ on \in [Requests -> Shifts \cup {Nothing}]
  /\ drawer \in [Requests -> Registers \cup {Nothing}]
  /\ read \in [Requests -> [ledger: Int, direct: Int]]

Init ==
  /\ status = [s \in Shifts |-> "none"]
  /\ at = [s \in Shifts |-> Nothing]
  /\ float = [s \in Shifts |-> 0] /\ net = [s \in Shifts |-> 0]
  /\ counted = [s \in Shifts |-> 0] /\ expected = [s \in Shifts |-> 0]
  /\ variance = [s \in Shifts |-> "none"]
  /\ ledger = [r \in Registers |-> 0] /\ direct = [r \in Registers |-> 0]
  /\ banked = [r \in Registers |-> 0]
  /\ last = [r \in Registers |-> Nothing]
  /\ receipt = [p \in Receipts |-> Unpaid]
  /\ order = [o \in Orders |-> "none"]
  /\ live = {}
  /\ billedIn = [o \in Orders |-> Nothing]
  /\ pc = [t \in Requests |-> "idle"]
  /\ on = [t \in Requests |-> Nothing]
  /\ drawer = [t \in Requests |-> Nothing]
  /\ read = [t \in Requests |-> NoBalance]

----------------------------------------------------------------------------
(* Who holds which lock follows from the step a request is at.             *)
ShiftFree(s) == \A t \in Requests : on[t] = s => pc[t] \notin {"closing", "handing", "banking"}
RegisterFree(r) == \A t \in Requests : drawer[t] = r => pc[t] \notin {"opening", "handing"}
AccountUnlocked(r) == TRUE  \* mutant: the drawer account is not locked
AccountFree(r) == \A t \in Requests : drawer[t] = r => pc[t] \notin {"opening", "banking"}
FloorFree == \A t \in Requests : pc[t] \notin {"closing", "handing"}

OpenOn(r) == {s \in Shifts : status[s] = "open" /\ at[s] = r}

(* lockOpenSession: the lock, then the status is read again.               *)
Usable(s) == status[s] = "open" /\ ShiftFree(s)

(* computeExpected.                                                        *)
Expected(s) == float[s] + net[s]

(* accountLedgerBalance: the postings of the shifts and the other ones.    *)
Balance(r) == [ledger |-> ledger[r], direct |-> direct[r]]

Held(o) == order[o] = "open" /\ o \in live

Begin(t, step, s, r, balances) ==
  /\ pc[t] = "idle"
  /\ pc' = [pc EXCEPT ![t] = step]
  /\ on' = [on EXCEPT ![t] = s]
  /\ drawer' = [drawer EXCEPT ![t] = r]
  /\ read' = [read EXCEPT ![t] = balances]

Finish(t, step) ==
  /\ pc[t] = step
  /\ pc' = [pc EXCEPT ![t] = "idle"]
  /\ on' = [on EXCEPT ![t] = Nothing]
  /\ drawer' = [drawer EXCEPT ![t] = Nothing]
  /\ read' = [read EXCEPT ![t] = NoBalance]

(* A drawer movement of a shift and its journal, in one transaction.       *)
Move(s, amount) ==
  /\ net' = [net EXCEPT ![s] = @ + amount]
  /\ ledger' = [ledger EXCEPT ![at[s]] = @ + amount]
  /\ ledger[at[s]] + amount \in Balances /\ Expected(s) + amount \in Balances

(* Any request whose transaction fails rolls back and drops its locks.     *)
GiveUp(t) ==
  /\ pc[t] # "idle"
  /\ Finish(t, pc[t])
  /\ UNCHANGED <<shiftVars, bookVars, receipt, orderVars>>

----------------------------------------------------------------------------
(* Opening: the register is locked, then the drawer account, then its      *)
(* balance is read; the difference to the count is posted.                 *)
OpenReadAnyway(t, r) ==  \* mutant: nobody asks whether the register has a shift
  /\ RegisterFree(r) /\ AccountFree(r)
  /\ Begin(t, "opening", Nothing, r, Balance(r))
  /\ UNCHANGED <<shiftVars, bookVars, receipt, orderVars>>

OpenRead(t, r) ==
  /\ RegisterFree(r) /\ OpenOn(r) = {} /\ AccountFree(r)
  /\ Begin(t, "opening", Nothing, r, Balance(r))
  /\ UNCHANGED <<shiftVars, bookVars, receipt, orderVars>>

Start(s, r, cash) ==
  /\ at' = [at EXCEPT ![s] = r]
  /\ float' = [float EXCEPT ![s] = cash]
  /\ last' = [last EXCEPT ![r] = s]

OpenCommit(t, s, count) ==
  /\ status[s] = "none"
  /\ Finish(t, "opening")
  /\ LET r == drawer[t] IN
       /\ status' = [status EXCEPT ![s] = "open"]
       /\ Start(s, r, count)
       /\ ledger' = [ledger EXCEPT ![r] = @ + (count - read[t].ledger)]
       /\ ledger'[r] \in Balances
       /\ direct' = [direct EXCEPT ![r] = @ - read[t].direct]
       /\ banked' = [banked EXCEPT ![r] = 0]
  /\ UNCHANGED <<net, counted, expected, variance, receipt, orderVars>>

----------------------------------------------------------------------------
(* Closing.  validateClosing locks the floor; no order may be held, no     *)
(* bill of the shift unpaid, and the ledger must agree with the movements. *)
Clear(s) ==
  /\ FloorFree
  /\ \A o \in Orders : ~Held(o)
  /\ \A o \in Orders : order[o] = "billed" => billedIn[o] # s
  /\ ledger[at[s]] = Expected(s)

CloseCheck(t, s) ==
  /\ Usable(s) /\ Clear(s)
  /\ Begin(t, "closing", s, at[s], NoBalance)
  /\ UNCHANGED <<shiftVars, bookVars, receipt, orderVars>>

HandoverCheck(t, s) ==
  /\ RegisterFree(at[s]) /\ Usable(s) /\ Clear(s)
  /\ Begin(t, "handing", s, at[s], NoBalance)
  /\ UNCHANGED <<shiftVars, bookVars, receipt, orderVars>>

(* finishClosing: totals and count are frozen, the difference is posted.   *)
Seal(s, count, total, verdict) ==
  /\ counted' = [counted EXCEPT ![s] = count]
  /\ expected' = [expected EXCEPT ![s] = total]
  /\ variance' = [variance EXCEPT ![s] = verdict]

Verdicts(difference) == IF difference = 0 THEN {"none"} ELSE {"unresolved", "approved"}

(* applyClosingCashAdjustment (autoAdjustCash): the difference becomes a   *)
(* movement of the shift.                                                  *)
AdjustLate(s, count, difference) ==  \* mutant: the totals from before are frozen
  /\ difference # 0
  /\ net' = [net EXCEPT ![s] = @ + difference]
  /\ Seal(s, count, Expected(s), "none")

Adjust(s, count, difference) ==
  /\ difference # 0
  /\ net' = [net EXCEPT ![s] = @ + difference]
  /\ Seal(s, count, float[s] + net'[s], "none")

CloseCommit(t, count) ==
  /\ Finish(t, "closing")
  /\ LET s == on[t]
         difference == count - Expected(s) IN
       /\ status' = [status EXCEPT ![s] = "closed"]
       /\ ledger' = [ledger EXCEPT ![at[s]] = @ + difference]
       /\ ledger'[at[s]] \in Balances
       /\ \/ /\ \E verdict \in Verdicts(difference) : Seal(s, count, Expected(s), verdict)
             /\ UNCHANGED net
          \/ Adjust(s, count, difference)
  /\ UNCHANGED <<at, float, direct, banked, last, receipt, orderVars>>

HandoverCommit(t, incoming, count) ==
  /\ status[incoming] = "none"
  /\ Finish(t, "handing")
  /\ LET s == on[t]
         difference == count - Expected(s) IN
       /\ status' = [status EXCEPT ![s] = "closed", ![incoming] = "open"]
       /\ ledger' = [ledger EXCEPT ![at[s]] = @ + difference]
       /\ ledger'[at[s]] \in Balances
       /\ Seal(s, count, Expected(s), IF difference = 0 THEN "none" ELSE "approved")
       /\ Start(incoming, at[s], count)
  /\ UNCHANGED <<net, direct, banked, receipt, orderVars>>

(* updateVariance and reconcile, each under the lock of the shift.         *)
ReviewVariance(s, verdict) ==
  /\ status[s] = "closed" /\ ShiftFree(s)
  /\ counted[s] # expected[s]
  /\ variance' = [variance EXCEPT ![s] = verdict]
  /\ UNCHANGED <<status, at, float, net, counted, expected, bookVars, receipt, orderVars, requestVars>>

Reconcile(s) ==
  /\ status[s] = "closed" /\ ShiftFree(s)
  /\ counted[s] = expected[s] \/ variance[s] = "approved"
  /\ \A o \in Orders : billedIn[o] = s => order[o] # "billed"
  /\ status' = [status EXCEPT ![s] = "reconciled"]
  /\ UNCHANGED <<at, float, net, counted, expected, variance, bookVars, receipt, orderVars, requestVars>>

----------------------------------------------------------------------------
(* recordMovement reads the shift, locks it, and then asks again whether   *)
(* it is open.                                                             *)
MoveRead(t, s) ==
  /\ status[s] = "open"
  /\ Begin(t, "moving", s, Nothing, NoBalance)
  /\ UNCHANGED <<shiftVars, bookVars, receipt, orderVars>>

MoveCommitStale(t, amount) ==  \* mutant: the status that was read first decides
  /\ Finish(t, "moving")
  /\ ShiftFree(on[t])
  /\ amount < 0 => -amount <= Expected(on[t])
  /\ Move(on[t], amount)
  /\ UNCHANGED <<status, at, float, counted, expected, variance,
                 direct, banked, last, receipt, orderVars>>

MoveCommit(t, amount) ==
  /\ Finish(t, "moving")
  /\ Usable(on[t])
  /\ amount < 0 => -amount <= Expected(on[t])
  /\ Move(on[t], amount)
  /\ UNCHANGED <<status, at, float, counted, expected, variance,
                 direct, banked, last, receipt, orderVars>>

(* Refunds, supplier payments, purchase orders paid in cash and deposits   *)
(* from an open shift: no more than the drawer should hold.                *)
PayOutUnchecked(s, amount) ==  \* mutant: nobody asks what the drawer holds
  /\ Usable(s)
  /\ Move(s, -amount)
  /\ UNCHANGED <<status, at, float, counted, expected, variance,
                 direct, banked, last, receipt, orderVars, requestVars>>

PayOut(s, amount) ==
  /\ Usable(s)
  /\ amount <= Expected(s)
  /\ Move(s, -amount)
  /\ UNCHANGED <<status, at, float, counted, expected, variance,
                 direct, banked, last, receipt, orderVars, requestVars>>

(* A customer receipt outside the point of sale, in cash.                  *)
Receive(p, s, amount) ==
  /\ receipt[p].state = "none"
  /\ Usable(s)
  /\ receipt' = [receipt EXCEPT ![p] = [state |-> "posted", shift |-> s, amount |-> amount]]
  /\ Move(s, amount)
  /\ UNCHANGED <<status, at, float, counted, expected, variance,
                 direct, banked, last, orderVars, requestVars>>

(* Voiding it: in its own shift while that is open, else as a correction   *)
(* in an open shift of the same drawer.                                    *)
VoidReceipt(p, s) ==
  LET original == receipt[p].shift IN
  /\ receipt[p].state = "posted"
  /\ ShiftFree(original) /\ Usable(s)
  /\ IF status[original] = "open" THEN s = original ELSE at[s] = at[original]
  /\ receipt[p].amount <= Expected(s)
  /\ receipt' = [receipt EXCEPT ![p].state = "cancelled"]
  /\ net' = [net EXCEPT ![s] = @ - receipt[p].amount]
  /\ ledger' = [ledger EXCEPT ![at[original]] = @ - receipt[p].amount]
  /\ ledger'[at[original]] \in Balances
  /\ UNCHANGED <<status, at, float, counted, expected, variance,
                 direct, banked, last, orderVars, requestVars>>

(* A payment that names the drawer account and no shift.                   *)
DirectPayment(r, amount) ==
  /\ ledger[r] + amount \in Balances /\ direct[r] + amount \in Balances
  /\ ledger' = [ledger EXCEPT ![r] = @ + amount]
  /\ direct' = [direct EXCEPT ![r] = @ + amount]
  /\ UNCHANGED <<banked, last, shiftVars, receipt, orderVars, requestVars>>

(* Banking a closed shift: its row is locked, then the drawer account; no  *)
(* shift may be open, and the deposit may not exceed the balance.          *)
BankRead(t, s) ==
  /\ status[s] = "closed" /\ ShiftFree(s)
  /\ AccountFree(at[s]) /\ OpenOn(at[s]) = {}
  /\ Begin(t, "banking", s, at[s], Balance(at[s]))
  /\ UNCHANGED <<shiftVars, bookVars, receipt, orderVars>>

BankCommit(t, amount) ==
  /\ Finish(t, "banking")
  /\ amount <= read[t].ledger
  /\ LET r == drawer[t] IN
       /\ ledger' = [ledger EXCEPT ![r] = @ - amount]
       /\ banked' = [banked EXCEPT ![r] = @ + amount]
       /\ ledger'[r] \in Balances /\ banked'[r] \in Balances
  /\ UNCHANGED <<direct, last, shiftVars, receipt, orderVars>>

----------------------------------------------------------------------------
(* Orders.  The back office edits, cancels and reopens any order without   *)
(* asking for its shift, so the till, which asks, does nothing here that   *)
(* the back office cannot.                                                 *)

(* Items come off an order at any time and go on it under the floor lock.  *)
WithItems(o) == IF FloorFree THEN {live \ {o}, live \cup {o}} ELSE {live \ {o}}

CreateOrder(o) ==
  /\ order[o] = "none"
  /\ order' = [order EXCEPT ![o] = "open"]
  /\ live' \in WithItems(o)
  /\ UNCHANGED <<billedIn, shiftVars, bookVars, receipt, requestVars>>

SaveItems(o) ==
  /\ order[o] = "open"
  /\ live' \in WithItems(o)
  /\ UNCHANGED <<order, billedIn, shiftVars, bookVars, receipt, requestVars>>

CancelOrder(o) ==
  /\ order[o] = "open"
  /\ order' = [order EXCEPT ![o] = "cancelled"]
  /\ UNCHANGED <<live, billedIn, shiftVars, bookVars, receipt, requestVars>>

ReopenOrder(o) ==
  /\ order[o] = "cancelled"
  /\ order' = [order EXCEPT ![o] = "open"]
  /\ UNCHANGED <<live, billedIn, shiftVars, bookVars, receipt, requestVars>>

BillUnlocked(o, s) ==  \* mutant: the shift is read without its lock
  /\ Held(o)
  /\ s # Nothing => status[s] = "open"
  /\ order' = [order EXCEPT ![o] = "billed"]
  /\ billedIn' = [billedIn EXCEPT ![o] = s]
  /\ UNCHANGED <<live, shiftVars, bookVars, receipt, requestVars>>

Bill(o, s) ==
  /\ Held(o)
  /\ s # Nothing => Usable(s)
  /\ order' = [order EXCEPT ![o] = "billed"]
  /\ billedIn' = [billedIn EXCEPT ![o] = s]
  /\ UNCHANGED <<live, shiftVars, bookVars, receipt, requestVars>>

Settle(o, s, amount) ==
  /\ order[o] = "billed"
  /\ Usable(s)
  /\ order' = [order EXCEPT ![o] = "settled"]
  /\ Move(s, amount)
  /\ UNCHANGED <<live, billedIn, status, at, float, counted, expected, variance,
                 direct, banked, last, receipt, requestVars>>

----------------------------------------------------------------------------
ShiftStep(t) ==
  \/ GiveUp(t)
  \/ \E r \in Registers : OpenRead(t, r)
  \/ \E s \in Shifts : CloseCheck(t, s) \/ HandoverCheck(t, s) \/ MoveRead(t, s) \/ BankRead(t, s)
  \/ \E count \in Counts :
       \/ CloseCommit(t, count)
       \/ \E s \in Shifts : OpenCommit(t, s, count) \/ HandoverCommit(t, s, count)
  \/ \E amount \in Balances \ {0} : MoveCommit(t, amount)
  \/ \E amount \in Amounts : BankCommit(t, amount)

DrawerStep ==
  \/ \E s \in Shifts :
       \/ Reconcile(s)
       \/ \E verdict \in {"unresolved", "approved"} : ReviewVariance(s, verdict)
       \/ \E p \in Receipts : VoidReceipt(p, s)
       \/ \E amount \in Amounts : PayOut(s, amount) \/ \E p \in Receipts : Receive(p, s, amount)
  \/ \E r \in Registers, amount \in Balances \ {0} : DirectPayment(r, amount)

OrderStep(o) ==
  \/ CreateOrder(o) \/ SaveItems(o) \/ CancelOrder(o) \/ ReopenOrder(o)
  \/ \E s \in Shifts \cup {Nothing} : Bill(o, s)
  \/ \E s \in Shifts, amount \in Amounts : Settle(o, s, amount)

Next == (\E t \in Requests : ShiftStep(t)) \/ DrawerStep \/ (\E o \in Orders : OrderStep(o))

Spec == Init /\ [][Next]_vars

----------------------------------------------------------------------------
(* Properties.                                                             *)

(* However opens, handovers and closes interleave, a register never has    *)
(* two shifts open: the cash in its drawer answers to one cashier.         *)
OneShiftPerDrawer ==
  \A s1, s2 \in Shifts :
    status[s1] = "open" /\ status[s2] = "open" /\ at[s1] = at[s2] => s1 = s2

(* The balance of a drawer account is explained to the last coin: by the   *)
(* float and movements of the shift that is open, or by the last count and *)
(* what was banked since, and by what was posted past the shifts.  Opens,  *)
(* closes, handovers, corrections and deposits post the exact difference   *)
(* although each reads the balance before it writes.                       *)
BooksExplained ==
  \A r \in Registers : \A s \in Shifts :
    last[r] = s =>
      ledger[r] = direct[r] + (IF status[s] = "open" THEN Expected(s) ELSE counted[s] - banked[r])

(* A closed shift never changes again: no late movement, refund, void or   *)
(* second close touches its totals, and its status only goes forward.      *)
ClosedStaysFrozen ==
  [][\A s \in Shifts : status[s] \in {"closed", "reconciled"} =>
       /\ <<at[s], float[s], net[s], counted[s], expected[s]>>'
            = <<at[s], float[s], net[s], counted[s], expected[s]>>
       /\ status'[s] \in {status[s], "reconciled"}
       /\ status[s] = "reconciled" => variance'[s] = variance[s]]_vars

(* What the Z report froze is what the shift recorded: the expected cash   *)
(* is the float and every movement, also after the automatic adjustment.   *)
FrozenTotalsAdd ==
  \A s \in Shifts : status[s] \in {"closed", "reconciled"} => expected[s] = Expected(s)

(* No shift pays out cash it does not have, whatever payments, refunds,    *)
(* corrections of earlier shifts and deposits run at the same time.        *)
NoOverdraw == \A s \in Shifts : Expected(s) >= 0

(* A shift is never closed over a bill of its own that is still unpaid,    *)
(* and none is added to it afterwards.                                     *)
NoUnpaidBillBehind ==
  \A o \in Orders : order[o] = "billed" /\ billedIn[o] # Nothing => status[billedIn[o]] = "open"
============================================================================
