------------------------ MODULE CashSession_proofs ------------------------
(***************************************************************************)
(* Theorems about CashSession, for any number of registers, shifts,        *)
(* receipts, orders and requests, and any amounts.                         *)
(*                                                                         *)
(* The invariants of the books need what the locks are for: while a        *)
(* request has a shift's lock nothing else closes it, and while it has the *)
(* lock of a drawer account no shift opens there and only payments that    *)
(* belong to no shift move the balance it has read.                        *)
(***************************************************************************)
EXTENDS CashSession, TLAPS

(* Every shift that was ever opened has a drawer, and an open one is the   *)
(* latest of its drawer, from which nothing has been banked past it.       *)
Custody ==
  /\ \A s \in Shifts : status[s] # "none" => at[s] \in Registers /\ last[at[s]] # Nothing
  /\ \A s \in Shifts : status[s] = "open" => last[at[s]] = s /\ banked[at[s]] = 0
  /\ \A s \in Shifts : status[s] = "none" => float[s] = 0 /\ net[s] = 0
  /\ \A r \in Registers : last[r] # Nothing => at[last[r]] = r /\ status[last[r]] # "none"

(* A drawer no shift has opened yet.                                       *)
Untouched == \A r \in Registers : last[r] = Nothing => ledger[r] = direct[r]

(* What a request may rely on.                                             *)
Request(t) ==
  /\ pc[t] = "opening" =>
       /\ drawer[t] \in Registers
       /\ \A s \in Shifts : status[s] = "open" => at[s] # drawer[t]
       /\ ledger[drawer[t]] - read[t].ledger = direct[drawer[t]] - read[t].direct
  /\ pc[t] = "banking" =>
       /\ drawer[t] \in Registers
       /\ \A s \in Shifts : status[s] = "open" => at[s] # drawer[t]
       /\ last[drawer[t]] # Nothing
  /\ pc[t] \in {"closing", "handing"} =>
       /\ on[t] \in Shifts
       /\ status[on[t]] = "open"
       /\ \A o \in Orders : order[o] = "billed" => billedIn[o] # on[t]
  /\ pc[t] = "moving" => on[t] \in Shifts

Exclusive ==
  /\ \A t1, t2 \in Requests :
       pc[t1] \in {"opening", "banking"} /\ pc[t2] \in {"opening", "banking"}
         /\ drawer[t1] = drawer[t2] => t1 = t2
  /\ \A t1, t2 \in Requests :
       pc[t1] \in {"closing", "handing"} /\ pc[t2] \in {"closing", "handing"}
         /\ on[t1] = on[t2] => t1 = t2

Paid ==
  \A p \in Receipts : receipt[p].state = "posted" =>
    /\ receipt[p].shift \in Shifts
    /\ status[receipt[p].shift] # "none"

Requested == Exclusive /\ \A t \in Requests : Request(t)
Books == Custody /\ Untouched /\ BooksExplained /\ FrozenTotalsAdd /\ NoOverdraw

IInv == TypeOK /\ Books /\ Requested /\ Paid /\ NoUnpaidBillBehind

----------------------------------------------------------------------------
LEMMA Initially == Init => IInv
<1> SUFFICES ASSUME Init  PROVE IInv
  OBVIOUS
<1> USE CashSessionAssumption
<1>1. TypeOK
  BY DEF Init, TypeOK, NoBalance, Unpaid
<1>2. Books
  BY DEF Init, Books, Custody, Untouched, BooksExplained, FrozenTotalsAdd, NoOverdraw, Expected
<1>3. Requested
  BY DEF Init, Requested, Exclusive, Request
<1>4. Paid /\ NoUnpaidBillBehind
  BY DEF Init, Paid, NoUnpaidBillBehind, Unpaid
<1> QED  BY <1>1, <1>2, <1>3, <1>4 DEF IInv

(* A request that ends.                                                    *)
LEMMA FinishTypes ==
  ASSUME TypeOK, NEW t \in Requests, NEW step, Finish(t, step)
  PROVE  /\ pc' \in [Requests -> {"idle", "opening", "closing", "handing", "moving", "banking"}]
         /\ on' \in [Requests -> Shifts \cup {Nothing}]
         /\ drawer' \in [Requests -> Registers \cup {Nothing}]
         /\ read' \in [Requests -> [ledger: Int, direct: Int]]
         /\ pc[t] = step /\ pc'[t] = "idle"
         /\ \A other \in Requests \ {t} : /\ pc'[other] = pc[other]
                                          /\ on'[other] = on[other]
                                          /\ drawer'[other] = drawer[other]
                                          /\ read'[other] = read[other]
  BY DEF TypeOK, Finish, NoBalance

LEMMA BeginTypes ==
  ASSUME TypeOK, NEW t \in Requests,
         NEW step \in {"opening", "closing", "handing", "moving", "banking"},
         NEW s \in Shifts \cup {Nothing}, NEW r \in Registers \cup {Nothing},
         NEW balances \in [ledger: Int, direct: Int], Begin(t, step, s, r, balances)
  PROVE  /\ pc' \in [Requests -> {"idle", "opening", "closing", "handing", "moving", "banking"}]
         /\ on' \in [Requests -> Shifts \cup {Nothing}]
         /\ drawer' \in [Requests -> Registers \cup {Nothing}]
         /\ read' \in [Requests -> [ledger: Int, direct: Int]]
         /\ pc[t] = "idle"
         /\ pc'[t] = step /\ on'[t] = s /\ drawer'[t] = r /\ read'[t] = balances
         /\ \A other \in Requests \ {t} : /\ pc'[other] = pc[other]
                                          /\ on'[other] = on[other]
                                          /\ drawer'[other] = drawer[other]
                                          /\ read'[other] = read[other]
  BY DEF TypeOK, Begin

(* Steps that leave shifts, books and bills alone keep what follows from   *)
(* them alone.                                                             *)
LEMMA SameBooks ==
  ASSUME IInv, UNCHANGED <<shiftVars, bookVars, receipt, orderVars>>
  PROVE  Books' /\ Paid' /\ NoUnpaidBillBehind'
<1>1. Books'
  BY DEF IInv, Books, Custody, Untouched, BooksExplained, FrozenTotalsAdd, NoOverdraw, Expected,
         shiftVars, bookVars
<1>2. Paid'
  BY DEF IInv, Paid, shiftVars
<1>3. NoUnpaidBillBehind'
  BY DEF IInv, NoUnpaidBillBehind, shiftVars, orderVars
<1> QED  BY <1>1, <1>2, <1>3

LEMMA BeginKeeps ==
  ASSUME IInv, UNCHANGED <<shiftVars, bookVars, receipt, orderVars>>,
         NEW t \in Requests,
         NEW step \in {"opening", "closing", "handing", "moving", "banking"},
         NEW s \in Shifts \cup {Nothing}, NEW r \in Registers \cup {Nothing},
         NEW balances \in [ledger: Int, direct: Int], Begin(t, step, s, r, balances),
         Request(t)',
         step \in {"opening", "banking"} => AccountFree(r),
         step \in {"closing", "handing"} => ShiftFree(s)
  PROVE  IInv'
<1> USE DEF IInv
<1>0. /\ pc' \in [Requests -> {"idle", "opening", "closing", "handing", "moving", "banking"}]
      /\ on' \in [Requests -> Shifts \cup {Nothing}]
      /\ drawer' \in [Requests -> Registers \cup {Nothing}]
      /\ read' \in [Requests -> [ledger: Int, direct: Int]]
      /\ pc'[t] = step /\ on'[t] = s /\ drawer'[t] = r /\ read'[t] = balances
      /\ \A other \in Requests \ {t} : /\ pc'[other] = pc[other]
                                       /\ on'[other] = on[other]
                                       /\ drawer'[other] = drawer[other]
                                       /\ read'[other] = read[other]
  <2>1. TypeOK
    OBVIOUS
  <2> QED  BY <2>1, BeginTypes
<1>1. TypeOK'
  BY <1>0 DEF TypeOK, shiftVars, bookVars, orderVars
<1>2. \A other \in Requests \ {t} : Request(other)'
  BY <1>0 DEF Requested, Request, shiftVars, bookVars, orderVars
<1>3. Exclusive'
  <2>1. ASSUME NEW t1 \in Requests, NEW t2 \in Requests,
               pc'[t1] \in {"opening", "banking"}, pc'[t2] \in {"opening", "banking"},
               drawer'[t1] = drawer'[t2]
        PROVE  t1 = t2
    BY <1>0, <2>1 DEF Requested, Exclusive, AccountFree
  <2>2. ASSUME NEW t1 \in Requests, NEW t2 \in Requests,
               pc'[t1] \in {"closing", "handing"}, pc'[t2] \in {"closing", "handing"},
               on'[t1] = on'[t2]
        PROVE  t1 = t2
    BY <1>0, <2>2 DEF Requested, Exclusive, ShiftFree
  <2> QED  BY <2>1, <2>2 DEF Exclusive
<1> QED  BY <1>1, <1>2, <1>3, SameBooks DEF Requested

(* A request that ends, when the others keep what they rely on.            *)
LEMMA FinishExclusive ==
  ASSUME TypeOK, Requested, NEW t \in Requests, NEW step, Finish(t, step)
  PROVE  Exclusive' /\ Request(t)'
<1>1. /\ pc'[t] = "idle"
      /\ \A other \in Requests \ {t} : /\ pc'[other] = pc[other]
                                       /\ on'[other] = on[other]
                                       /\ drawer'[other] = drawer[other]
  BY FinishTypes
<1>2. Exclusive'
  BY <1>1 DEF Requested, Exclusive
<1>3. Request(t)'
  BY <1>1 DEF Request
<1> QED  BY <1>2, <1>3

LEMMA GiveUpKeeps ==
  ASSUME IInv, NEW t \in Requests, GiveUp(t)
  PROVE  IInv'
<1> USE DEF IInv
<1>1. Finish(t, pc[t]) /\ UNCHANGED <<shiftVars, bookVars, receipt, orderVars>>
  BY DEF GiveUp
<1>2. TypeOK'
  BY <1>1, FinishTypes DEF TypeOK, shiftVars, bookVars, orderVars
<1>3. \A other \in Requests \ {t} : Request(other)'
  BY <1>1, FinishTypes DEF Requested, Request, shiftVars, bookVars, orderVars
<1> QED  BY <1>1, <1>2, <1>3, SameBooks, FinishExclusive DEF Requested

----------------------------------------------------------------------------
(* The reads.                                                              *)
LEMMA OpenReadKeeps ==
  ASSUME IInv, NEW t \in Requests, NEW r \in Registers, OpenRead(t, r)
  PROVE  IInv'
<1>1. Begin(t, "opening", Nothing, r, Balance(r)) /\ UNCHANGED <<shiftVars, bookVars, receipt, orderVars>>
  BY DEF OpenRead
<1>2. Balance(r) \in [ledger: Int, direct: Int]
  BY DEF IInv, TypeOK, Balance
<1>3. \A s \in Shifts : status[s] = "open" => at[s] # r
  BY DEF OpenRead, OpenOn
<1>4. pc'[t] = "opening" /\ drawer'[t] = r /\ read'[t] = Balance(r)
  BY <1>1, <1>2, BeginTypes DEF IInv
<1>5. Request(t)'
  BY <1>1, <1>3, <1>4 DEF Request, Balance, shiftVars, bookVars, IInv, TypeOK
<1> QED  BY <1>1, <1>2, <1>5, BeginKeeps DEF OpenRead

LEMMA CheckKeeps ==
  ASSUME IInv, NEW t \in Requests, NEW s \in Shifts, CloseCheck(t, s) \/ HandoverCheck(t, s)
  PROVE  IInv'
<1>1. PICK step \in {"closing", "handing"} : Begin(t, step, s, at[s], NoBalance)
  BY DEF CloseCheck, HandoverCheck
<1>2. UNCHANGED <<shiftVars, bookVars, receipt, orderVars>> /\ Usable(s) /\ Clear(s)
  BY DEF CloseCheck, HandoverCheck
<1>3. NoBalance \in [ledger: Int, direct: Int] /\ at[s] \in Registers \cup {Nothing}
  BY DEF NoBalance, IInv, TypeOK
<1>4. pc'[t] = step /\ on'[t] = s
  BY <1>1, <1>3, BeginTypes DEF IInv
<1>5. Request(t)'
  BY <1>2, <1>4 DEF Request, Usable, Clear, shiftVars, orderVars
<1> QED  BY <1>1, <1>2, <1>3, <1>5, BeginKeeps DEF Usable

LEMMA MoveReadKeeps ==
  ASSUME IInv, NEW t \in Requests, NEW s \in Shifts, MoveRead(t, s)
  PROVE  IInv'
<1>1. Begin(t, "moving", s, Nothing, NoBalance) /\ UNCHANGED <<shiftVars, bookVars, receipt, orderVars>>
  BY DEF MoveRead
<1>2. NoBalance \in [ledger: Int, direct: Int]
  BY DEF NoBalance
<1>3. pc'[t] = "moving" /\ on'[t] = s
  BY <1>1, <1>2, BeginTypes DEF IInv
<1>4. Request(t)'
  BY <1>3 DEF Request
<1> QED  BY <1>1, <1>2, <1>4, BeginKeeps

LEMMA BankReadKeeps ==
  ASSUME IInv, NEW t \in Requests, NEW s \in Shifts, BankRead(t, s)
  PROVE  IInv'
<1>1. /\ Begin(t, "banking", s, at[s], Balance(at[s]))
      /\ UNCHANGED <<shiftVars, bookVars, receipt, orderVars>>
      /\ status[s] = "closed"
  BY DEF BankRead
<1>2. at[s] \in Registers /\ last[at[s]] # Nothing
  BY <1>1 DEF IInv, Books, Custody
<1>3. Balance(at[s]) \in [ledger: Int, direct: Int]
  BY <1>2 DEF IInv, TypeOK, Balance
<1>4. \A other \in Shifts : status[other] = "open" => at[other] # at[s]
  BY DEF BankRead, OpenOn
<1>5. pc'[t] = "banking" /\ drawer'[t] = at[s]
  BY <1>1, <1>2, <1>3, BeginTypes DEF IInv
<1>6. Request(t)'
  BY <1>1, <1>2, <1>4, <1>5 DEF Request, shiftVars, bookVars
<1> QED  BY <1>1, <1>2, <1>3, <1>6, BeginKeeps DEF BankRead

----------------------------------------------------------------------------
(* What a request may rely on stays as it is.                              *)
LEMMA RequestStays ==
  ASSUME IInv, NEW t \in Requests,
         pc'[t] = pc[t], on'[t] = on[t], drawer'[t] = drawer[t], read'[t] = read[t],
         pc[t] \in {"opening", "banking"} =>
           \A s \in Shifts : status'[s] = "open" => at'[s] # drawer[t],
         pc[t] = "opening" =>
           ledger'[drawer[t]] - direct'[drawer[t]] = ledger[drawer[t]] - direct[drawer[t]],
         pc[t] = "banking" => last'[drawer[t]] # Nothing,
         pc[t] \in {"closing", "handing"} =>
           /\ status'[on[t]] = "open"
           /\ \A o \in Orders : order'[o] = "billed" => billedIn'[o] # on[t],
         ledger' \in [Registers -> Int], direct' \in [Registers -> Int]
  PROVE  Request(t)'
<1>1. Request(t)
  BY DEF IInv, Requested
<1>2. ASSUME pc[t] = "opening"
      PROVE  ledger'[drawer[t]] - read[t].ledger = direct'[drawer[t]] - read[t].direct
  <2>1. /\ drawer[t] \in Registers
        /\ ledger[drawer[t]] - read[t].ledger = direct[drawer[t]] - read[t].direct
    BY <1>1, <1>2 DEF Request
  <2>2. /\ ledger[drawer[t]] \in Int /\ direct[drawer[t]] \in Int
        /\ ledger'[drawer[t]] \in Int /\ direct'[drawer[t]] \in Int
        /\ read[t].ledger \in Int /\ read[t].direct \in Int
    BY <2>1 DEF IInv, TypeOK
  <2> QED  BY <1>2, <2>1, <2>2
<1> QED  BY <1>1, <1>2 DEF Request

(* Steps of a shift outside any request.                                   *)
LEMMA OthersStay ==
  ASSUME IInv, UNCHANGED <<status, at, last, direct, order, billedIn, requestVars>>,
         ledger' \in [Registers -> Int],
         \A t \in Requests : pc[t] = "opening" => ledger'[drawer[t]] = ledger[drawer[t]]
  PROVE  Requested'
<1>1. Exclusive'
  BY DEF IInv, Requested, Exclusive, requestVars
<1>2. ASSUME NEW t \in Requests  PROVE Request(t)'
  <2>1. Request(t)
    BY DEF IInv, Requested
  <2>2. direct' \in [Registers -> Int]
    BY DEF IInv, TypeOK
  <2>3. pc'[t] = pc[t] /\ on'[t] = on[t] /\ drawer'[t] = drawer[t] /\ read'[t] = read[t]
    BY DEF requestVars
  <2> QED  BY <2>1, <2>2, <2>3, RequestStays DEF Request
<1> QED  BY <1>1, <1>2 DEF Requested

(* A movement of an open shift keeps the books.                            *)
LEMMA MoveKeepsBooks ==
  ASSUME IInv, NEW s \in Shifts, NEW amount \in Int,
         status[s] = "open", Expected(s) + amount >= 0,
         net' = [net EXCEPT ![s] = @ + amount],
         ledger' = [ledger EXCEPT ![at[s]] = @ + amount],
         UNCHANGED <<status, at, float, counted, expected, direct, banked, last>>
  PROVE  /\ net' \in [Shifts -> Int] /\ ledger' \in [Registers -> Int]
         /\ Books'
         /\ \A t \in Requests : pc[t] = "opening" => ledger'[drawer[t]] = ledger[drawer[t]]
<1> USE DEF IInv
<1>1. TypeOK /\ at[s] \in Registers /\ last[at[s]] = s
  BY DEF Books, Custody
<1>2. net' \in [Shifts -> Int] /\ ledger' \in [Registers -> Int]
  BY <1>1 DEF TypeOK
<1>3. /\ net'[s] = net[s] + amount
      /\ \A other \in Shifts \ {s} : net'[other] = net[other]
      /\ ledger'[at[s]] = ledger[at[s]] + amount
      /\ \A r \in Registers \ {at[s]} : ledger'[r] = ledger[r]
  BY <1>1 DEF TypeOK
<1>4. Custody'
  BY <1>3 DEF Books, Custody
<1>5. Untouched'
  BY <1>1, <1>3, CashSessionAssumption DEF Books, Untouched
<1>6. BooksExplained'
  <2> SUFFICES ASSUME NEW r \in Registers, NEW other \in Shifts, last'[r] = other
               PROVE  ledger'[r] = direct'[r] + (IF status'[other] = "open"
                                                 THEN Expected(other)'
                                                 ELSE counted'[other] - banked'[r])
    BY DEF BooksExplained
  <2>1. CASE r = at[s]
    <3>1. other = s
      BY <1>1, <2>1
    <3>2. ledger[r] = direct[r] + (float[s] + net[s])
      BY <1>1, <2>1 DEF Books, BooksExplained, Expected
    <3>3. ledger[r] \in Int /\ direct[r] \in Int /\ float[s] \in Int /\ net[s] \in Int
      BY <1>1 DEF TypeOK
    <3>4. ledger'[r] = direct[r] + (float[s] + (net[s] + amount))
      BY <1>3, <2>1, <3>2, <3>3
    <3> QED  BY <1>3, <3>1, <3>4 DEF Expected
  <2>2. CASE r # at[s]
    <3>1. other # s
      BY <1>1, <2>2 DEF Books, Custody
    <3> QED  BY <1>3, <2>2, <3>1 DEF Books, BooksExplained, Expected
  <2> QED  BY <2>1, <2>2
<1>7. FrozenTotalsAdd'
  BY <1>3 DEF Books, FrozenTotalsAdd, Expected
<1>8. NoOverdraw'
  <2>1. float[s] + (net[s] + amount) >= 0
    BY <1>1 DEF TypeOK, Expected
  <2> QED  BY <1>3, <2>1 DEF Books, NoOverdraw, Expected
<1>9. ASSUME NEW t \in Requests, pc[t] = "opening"
      PROVE  ledger'[drawer[t]] = ledger[drawer[t]]
  BY <1>3, <1>9 DEF Requested, Request
<1> QED  BY <1>2, <1>4, <1>5, <1>6, <1>7, <1>8, <1>9 DEF Books

----------------------------------------------------------------------------
(* Steps that move cash of an open shift.                                  *)
LEMMA PayOutKeeps ==
  ASSUME IInv, NEW s \in Shifts, NEW amount \in Amounts, PayOut(s, amount)
  PROVE  IInv'
<1>1. amount \in Int /\ -amount \in Int /\ Expected(s) \in Int
  BY CashSessionAssumption DEF Amounts, IInv, TypeOK, Expected
<1>2. status[s] = "open" /\ Expected(s) + (-amount) >= 0
  BY <1>1 DEF PayOut, Usable
<1>3. /\ net' \in [Shifts -> Int] /\ ledger' \in [Registers -> Int]
      /\ Books'
      /\ \A t \in Requests : pc[t] = "opening" => ledger'[drawer[t]] = ledger[drawer[t]]
  BY <1>1, <1>2, MoveKeepsBooks DEF PayOut, Move
<1>4. TypeOK'
  BY <1>3 DEF IInv, TypeOK, PayOut, orderVars, requestVars
<1>5. Requested'
  BY <1>3, OthersStay DEF PayOut, orderVars
<1>6. Paid' /\ NoUnpaidBillBehind'
  BY DEF IInv, Paid, NoUnpaidBillBehind, PayOut, orderVars
<1> QED  BY <1>3, <1>4, <1>5, <1>6 DEF IInv

LEMMA ReceiveKeeps ==
  ASSUME IInv, NEW p \in Receipts, NEW s \in Shifts, NEW amount \in Amounts, Receive(p, s, amount)
  PROVE  IInv'
<1>1. amount \in Int /\ amount >= 0 /\ Expected(s) \in Int /\ Expected(s) >= 0
  BY CashSessionAssumption DEF Amounts, IInv, TypeOK, Expected, Books, NoOverdraw
<1>2. status[s] = "open" /\ Expected(s) + amount >= 0
  BY <1>1 DEF Receive, Usable
<1>3. /\ net' \in [Shifts -> Int] /\ ledger' \in [Registers -> Int]
      /\ Books'
      /\ \A t \in Requests : pc[t] = "opening" => ledger'[drawer[t]] = ledger[drawer[t]]
  BY <1>1, <1>2, MoveKeepsBooks DEF Receive, Move
<1>4. TypeOK'
  BY <1>1, <1>3 DEF IInv, TypeOK, Receive, orderVars, requestVars
<1>5. Requested'
  BY <1>3, OthersStay DEF Receive, orderVars
<1>6. Paid' /\ NoUnpaidBillBehind'
  BY <1>2 DEF IInv, TypeOK, Paid, NoUnpaidBillBehind, Receive, orderVars
<1> QED  BY <1>3, <1>4, <1>5, <1>6 DEF IInv

(* A correction lands on the drawer the receipt came from.                 *)
LEMMA VoidKeeps ==
  ASSUME IInv, NEW p \in Receipts, NEW s \in Shifts, VoidReceipt(p, s)
  PROVE  IInv'
<1> DEFINE original == receipt[p].shift
           amount == receipt[p].amount
<1>1. amount \in Int /\ -amount \in Int /\ Expected(s) \in Int
  BY DEF IInv, TypeOK, Expected
<1>2. status[s] = "open" /\ Expected(s) + (-amount) >= 0
  BY <1>1 DEF VoidReceipt, Usable
<1>3. at[original] = at[s]
  BY DEF VoidReceipt
<1>4. /\ net' = [net EXCEPT ![s] = @ + (-amount)]
      /\ ledger' = [ledger EXCEPT ![at[s]] = @ + (-amount)]
  <2>1. at[s] \in Registers
    BY <1>2 DEF IInv, Books, Custody
  <2>2. net[s] \in Int /\ ledger[at[s]] \in Int
    BY <2>1 DEF IInv, TypeOK
  <2>3. net[s] - amount = net[s] + (-amount) /\ ledger[at[s]] - amount = ledger[at[s]] + (-amount)
    BY <1>1, <2>2
  <2> QED  BY <1>3, <2>3 DEF VoidReceipt
<1>5. /\ net' \in [Shifts -> Int] /\ ledger' \in [Registers -> Int]
      /\ Books'
      /\ \A t \in Requests : pc[t] = "opening" => ledger'[drawer[t]] = ledger[drawer[t]]
  BY <1>1, <1>2, <1>4, MoveKeepsBooks DEF VoidReceipt
<1>6. TypeOK'
  BY <1>5 DEF IInv, TypeOK, VoidReceipt, orderVars, requestVars
<1>7. Requested'
  BY <1>5, OthersStay DEF VoidReceipt, orderVars
<1>8. Paid' /\ NoUnpaidBillBehind'
  BY DEF IInv, TypeOK, Paid, NoUnpaidBillBehind, VoidReceipt, orderVars
<1> QED  BY <1>5, <1>6, <1>7, <1>8 DEF IInv

LEMMA MoveCommitKeeps ==
  ASSUME IInv, NEW t \in Requests, NEW amount \in Int, MoveCommit(t, amount)
  PROVE  IInv'
<1> DEFINE s == on[t]
<1>1. Finish(t, "moving") /\ TypeOK
  BY DEF MoveCommit, IInv
<1>2. /\ pc' \in [Requests -> {"idle", "opening", "closing", "handing", "moving", "banking"}]
      /\ on' \in [Requests -> Shifts \cup {Nothing}]
      /\ drawer' \in [Requests -> Registers \cup {Nothing}]
      /\ read' \in [Requests -> [ledger: Int, direct: Int]]
      /\ pc[t] = "moving" /\ pc'[t] = "idle"
      /\ \A other \in Requests \ {t} : /\ pc'[other] = pc[other]
                                       /\ on'[other] = on[other]
                                       /\ drawer'[other] = drawer[other]
                                       /\ read'[other] = read[other]
  BY <1>1, FinishTypes
<1>3. s \in Shifts /\ status[s] = "open"
  BY <1>2 DEF IInv, Requested, Request, MoveCommit, Usable
<1>4. Expected(s) \in Int /\ Expected(s) >= 0
  BY <1>1, <1>3 DEF TypeOK, Expected, IInv, Books, NoOverdraw
<1>5. Expected(s) + amount >= 0
  <2>1. amount < 0 => -amount <= Expected(s)
    BY DEF MoveCommit
  <2> QED  BY <1>4, <2>1
<1>6. /\ net' \in [Shifts -> Int] /\ ledger' \in [Registers -> Int]
      /\ Books'
      /\ \A other \in Requests : pc[other] = "opening" => ledger'[drawer[other]] = ledger[drawer[other]]
  BY <1>3, <1>5, MoveKeepsBooks DEF MoveCommit, Move
<1>7. TypeOK'
  BY <1>1, <1>2, <1>6 DEF TypeOK, MoveCommit, orderVars
<1>8. ASSUME NEW other \in Requests \ {t}  PROVE Request(other)'
  <2>1. Request(other) /\ direct' \in [Registers -> Int]
    BY <1>1 DEF IInv, Requested, TypeOK, MoveCommit
  <2>2. UNCHANGED <<status, at, direct, last, order, billedIn>>
    BY DEF MoveCommit, orderVars
  <2> QED  BY <1>2, <1>6, <2>1, <2>2, RequestStays DEF Request
<1>9. Exclusive' /\ Request(t)'
  BY <1>1, FinishExclusive DEF IInv
<1>10. Paid' /\ NoUnpaidBillBehind'
  BY DEF IInv, Paid, NoUnpaidBillBehind, MoveCommit, orderVars
<1> QED  BY <1>6, <1>7, <1>8, <1>9, <1>10 DEF IInv, Requested

LEMMA DirectPaymentKeeps ==
  ASSUME IInv, NEW r \in Registers, NEW amount \in Int, DirectPayment(r, amount)
  PROVE  IInv'
<1>1. TypeOK /\ Books /\ Requested
  BY DEF IInv
<1>2. /\ ledger' \in [Registers -> Int] /\ direct' \in [Registers -> Int]
      /\ ledger'[r] = ledger[r] + amount /\ direct'[r] = direct[r] + amount
      /\ \A other \in Registers \ {r} : ledger'[other] = ledger[other] /\ direct'[other] = direct[other]
  BY <1>1 DEF TypeOK, DirectPayment
<1>3. UNCHANGED <<status, at, float, net, counted, expected, variance, banked, last, receipt,
                  order, live, billedIn, pc, on, drawer, read>>
  BY DEF DirectPayment, shiftVars, orderVars, requestVars
<1>4. TypeOK'
  BY <1>1, <1>2, <1>3 DEF TypeOK
<1>5. \A other \in Registers : /\ ledger[other] \in Int /\ direct[other] \in Int
                               /\ ledger'[other] - direct'[other] = ledger[other] - direct[other]
                               /\ ledger'[other] \in Int /\ direct'[other] \in Int
  BY <1>1, <1>2 DEF TypeOK
<1>6. Custody' /\ FrozenTotalsAdd' /\ NoOverdraw'
  BY <1>1, <1>3 DEF Books, Custody, FrozenTotalsAdd, NoOverdraw, Expected
<1>7. Untouched'
  BY <1>1, <1>3, <1>5 DEF Books, Untouched
<1>8. BooksExplained'
  <2> SUFFICES ASSUME NEW d \in Registers, NEW s \in Shifts, last'[d] = s
               PROVE  ledger'[d] = direct'[d] + (IF status'[s] = "open"
                                                 THEN Expected(s)'
                                                 ELSE counted'[s] - banked'[d])
    BY DEF BooksExplained
  <2>1. ledger[d] = direct[d] + (IF status[s] = "open" THEN float[s] + net[s] ELSE counted[s] - banked[d])
    BY <1>1, <1>3 DEF Books, BooksExplained, Expected
  <2>2. (IF status[s] = "open" THEN float[s] + net[s] ELSE counted[s] - banked[d]) \in Int
    BY <1>1 DEF TypeOK
  <2>3. ledger'[d] = direct'[d] + (IF status[s] = "open" THEN float[s] + net[s] ELSE counted[s] - banked[d])
    BY <1>5, <2>1, <2>2
  <2> QED  BY <1>3, <2>3 DEF Expected
<1>9. ASSUME NEW t \in Requests  PROVE Request(t)'
  <2>1. Request(t)
    BY <1>1 DEF Requested
  <2> QED  BY <1>2, <1>3, <1>5, <2>1, RequestStays DEF Request
<1>10. Exclusive'
  BY <1>1, <1>3 DEF Requested, Exclusive
<1>11. Paid' /\ NoUnpaidBillBehind'
  BY <1>3 DEF IInv, Paid, NoUnpaidBillBehind
<1> QED  BY <1>4, <1>6, <1>7, <1>8, <1>9, <1>10, <1>11 DEF IInv, Books, Requested

----------------------------------------------------------------------------
(* Review and reconciliation of a closed shift.                            *)
LEMMA ReviewKeeps ==
  ASSUME IInv, NEW s \in Shifts,
         Reconcile(s) \/ (\E verdict \in {"unresolved", "approved"} : ReviewVariance(s, verdict))
  PROVE  IInv'
<1>1. /\ status[s] = "closed" /\ ShiftFree(s)
      /\ status' \in [Shifts -> {"none", "open", "closed", "reconciled"}]
      /\ status'[s] \in {"closed", "reconciled"}
      /\ \A other \in Shifts \ {s} : status'[other] = status[other]
      /\ variance' \in [Shifts -> {"none", "unresolved", "approved"}]
  <2>1. CASE Reconcile(s)
    BY <2>1 DEF Reconcile, IInv, TypeOK
  <2>2. ASSUME NEW verdict \in {"unresolved", "approved"}, ReviewVariance(s, verdict)
        PROVE  /\ status[s] = "closed" /\ ShiftFree(s)
               /\ status' = status /\ variance' \in [Shifts -> {"none", "unresolved", "approved"}]
    BY <2>2 DEF ReviewVariance, IInv, TypeOK
  <2> QED  BY <2>1, <2>2 DEF IInv, TypeOK
<1>2. UNCHANGED <<at, float, net, counted, expected, ledger, direct, banked, last, receipt,
                  order, live, billedIn, pc, on, drawer, read>>
  BY DEF Reconcile, ReviewVariance, bookVars, orderVars, requestVars
<1>3. TypeOK'
  BY <1>1, <1>2 DEF IInv, TypeOK
<1>4. Books'
  BY <1>1, <1>2 DEF IInv, TypeOK, Books, Custody, Untouched, BooksExplained, FrozenTotalsAdd, NoOverdraw, Expected
<1>5. Requested'
  BY <1>1, <1>2 DEF IInv, Requested, Exclusive, Request
<1>6. Paid' /\ NoUnpaidBillBehind'
  BY <1>1, <1>2 DEF IInv, TypeOK, Paid, NoUnpaidBillBehind
<1> QED  BY <1>3, <1>4, <1>5, <1>6 DEF IInv

----------------------------------------------------------------------------
(* Orders.                                                                 *)
LEMMA ItemsKeep ==
  ASSUME IInv, NEW o \in Orders,
         CreateOrder(o) \/ SaveItems(o) \/ CancelOrder(o) \/ ReopenOrder(o)
  PROVE  IInv'
<1>1. /\ UNCHANGED <<shiftVars, bookVars, receipt, requestVars, billedIn>>
      /\ order' \in [Orders -> {"none", "open", "billed", "settled", "cancelled"}]
      /\ live' \subseteq Orders
      /\ \A other \in Orders : order'[other] = "billed" => order[other] = "billed"
  BY DEF CreateOrder, SaveItems, CancelOrder, ReopenOrder, WithItems, IInv, TypeOK
<1>2. TypeOK'
  BY <1>1 DEF IInv, TypeOK, shiftVars, bookVars, requestVars
<1>3. Books' /\ Paid'
  BY <1>1 DEF IInv, Books, Custody, Untouched, BooksExplained, FrozenTotalsAdd, NoOverdraw, Expected,
              Paid, shiftVars, bookVars
<1>4. Requested'
  BY <1>1 DEF IInv, Requested, Exclusive, Request, shiftVars, bookVars, requestVars
<1>5. NoUnpaidBillBehind'
  BY <1>1 DEF IInv, NoUnpaidBillBehind, shiftVars
<1> QED  BY <1>2, <1>3, <1>4, <1>5 DEF IInv

(* A bill is written under the lock of its shift, so no close that has     *)
(* looked at the bills is running.                                         *)
LEMMA BillKeeps ==
  ASSUME IInv, NEW o \in Orders, NEW s \in Shifts \cup {Nothing}, Bill(o, s)
  PROVE  IInv'
<1>1. UNCHANGED <<live, shiftVars, bookVars, receipt, requestVars>>
  BY DEF Bill
<1>2. /\ order' \in [Orders -> {"none", "open", "billed", "settled", "cancelled"}]
      /\ billedIn' \in [Orders -> Shifts \cup {Nothing}]
      /\ billedIn'[o] = s
      /\ \A other \in Orders \ {o} : order'[other] = order[other] /\ billedIn'[other] = billedIn[other]
  BY DEF Bill, IInv, TypeOK
<1>3. TypeOK'
  BY <1>1, <1>2 DEF IInv, TypeOK, shiftVars, bookVars, requestVars
<1>4. Books' /\ Paid'
  BY <1>1 DEF IInv, Books, Custody, Untouched, BooksExplained, FrozenTotalsAdd, NoOverdraw, Expected,
              Paid, shiftVars, bookVars
<1>5. ASSUME NEW t \in Requests  PROVE Request(t)'
  <2>1. Request(t)
    BY DEF IInv, Requested
  <2>2. pc[t] \in {"closing", "handing"} => on[t] # s
    BY <2>1, CashSessionAssumption DEF Request, Bill, Usable, ShiftFree
  <2> QED  BY <1>1, <1>2, <2>1, <2>2 DEF Request, shiftVars, bookVars, requestVars
<1>6. Exclusive'
  BY <1>1 DEF IInv, Requested, Exclusive, requestVars
<1>7. NoUnpaidBillBehind'
  BY <1>1, <1>2 DEF IInv, NoUnpaidBillBehind, shiftVars, Bill, Usable
<1> QED  BY <1>3, <1>4, <1>5, <1>6, <1>7 DEF IInv, Requested

LEMMA SettleKeeps ==
  ASSUME IInv, NEW o \in Orders, NEW s \in Shifts, NEW amount \in Amounts, Settle(o, s, amount)
  PROVE  IInv'
<1>1. amount \in Int /\ amount >= 0 /\ Expected(s) \in Int /\ Expected(s) >= 0
  BY CashSessionAssumption DEF Amounts, IInv, TypeOK, Expected, Books, NoOverdraw
<1>2. status[s] = "open" /\ Expected(s) + amount >= 0
  BY <1>1 DEF Settle, Usable
<1>3. /\ net' \in [Shifts -> Int] /\ ledger' \in [Registers -> Int]
      /\ Books'
      /\ \A t \in Requests : pc[t] = "opening" => ledger'[drawer[t]] = ledger[drawer[t]]
  BY <1>1, <1>2, MoveKeepsBooks DEF Settle, Move
<1>4. /\ UNCHANGED <<status, at, last, direct, billedIn, receipt, requestVars>>
      /\ order' \in [Orders -> {"none", "open", "billed", "settled", "cancelled"}]
      /\ \A other \in Orders : order'[other] = "billed" => order[other] = "billed"
  BY DEF Settle, IInv, TypeOK
<1>5. TypeOK'
  BY <1>3, <1>4 DEF IInv, TypeOK, Settle, requestVars
<1>6. Requested'
  BY <1>3, <1>4 DEF IInv, Requested, Exclusive, Request, requestVars
<1>7. Paid' /\ NoUnpaidBillBehind'
  BY <1>4 DEF IInv, Paid, NoUnpaidBillBehind
<1> QED  BY <1>3, <1>5, <1>6, <1>7 DEF IInv

----------------------------------------------------------------------------
(* The commits.  Opening and banking write a difference to a balance they  *)
(* read before; the lock of the account keeps it right.                    *)
LEMMA OpenCommitKeeps ==
  ASSUME IInv, NEW t \in Requests, NEW s \in Shifts, NEW count \in Counts, OpenCommit(t, s, count)
  PROVE  IInv'
<1> DEFINE r == drawer[t]
<1>1. TypeOK /\ Books /\ Requested /\ Finish(t, "opening") /\ status[s] = "none"
  BY DEF OpenCommit, IInv
<1>2. /\ pc' \in [Requests -> {"idle", "opening", "closing", "handing", "moving", "banking"}]
      /\ on' \in [Requests -> Shifts \cup {Nothing}]
      /\ drawer' \in [Requests -> Registers \cup {Nothing}]
      /\ read' \in [Requests -> [ledger: Int, direct: Int]]
      /\ pc[t] = "opening" /\ pc'[t] = "idle"
      /\ \A other \in Requests \ {t} : /\ pc'[other] = pc[other]
                                       /\ on'[other] = on[other]
                                       /\ drawer'[other] = drawer[other]
                                       /\ read'[other] = read[other]
  BY <1>1, FinishTypes
<1>3. /\ r \in Registers
      /\ \A other \in Shifts : status[other] = "open" => at[other] # r
      /\ ledger[r] - read[t].ledger = direct[r] - read[t].direct
  BY <1>1, <1>2 DEF Requested, Request
<1>4. count \in Int /\ count >= 0
  BY CashSessionAssumption DEF Counts
<1>5. /\ status' = [status EXCEPT ![s] = "open"]
      /\ at' = [at EXCEPT ![s] = r]
      /\ float' = [float EXCEPT ![s] = count]
      /\ last' = [last EXCEPT ![r] = s]
      /\ ledger' = [ledger EXCEPT ![r] = @ + (count - read[t].ledger)]
      /\ direct' = [direct EXCEPT ![r] = @ - read[t].direct]
      /\ banked' = [banked EXCEPT ![r] = 0]
      /\ UNCHANGED <<net, counted, expected, variance, receipt, order, live, billedIn>>
  BY DEF OpenCommit, Start, orderVars
<1>6. /\ ledger[r] \in Int /\ direct[r] \in Int
      /\ read[t].ledger \in Int /\ read[t].direct \in Int
  BY <1>1, <1>3 DEF TypeOK
<1>7. TypeOK'
  BY <1>1, <1>2, <1>3, <1>4, <1>5, <1>6 DEF TypeOK
<1>8. /\ status'[s] = "open" /\ at'[s] = r /\ float'[s] = count /\ last'[r] = s
      /\ ledger'[r] = ledger[r] + (count - read[t].ledger)
      /\ direct'[r] = direct[r] - read[t].direct
      /\ banked'[r] = 0
      /\ \A other \in Shifts \ {s} : /\ status'[other] = status[other]
                                     /\ at'[other] = at[other] /\ float'[other] = float[other]
      /\ \A d \in Registers \ {r} : /\ last'[d] = last[d] /\ ledger'[d] = ledger[d]
                                    /\ direct'[d] = direct[d] /\ banked'[d] = banked[d]
  BY <1>1, <1>3, <1>5 DEF TypeOK
<1>9. net'[s] = 0
  BY <1>1, <1>5 DEF Books, Custody
<1>10. Custody'
  <2>1. \A other \in Shifts : status'[other] # "none" =>
          at'[other] \in Registers /\ last'[at'[other]] # Nothing
    BY <1>1, <1>3, <1>8, CashSessionAssumption DEF Books, Custody
  <2>2. \A other \in Shifts : status'[other] = "open" =>
          last'[at'[other]] = other /\ banked'[at'[other]] = 0
    BY <1>1, <1>3, <1>8 DEF Books, Custody
  <2>3. \A other \in Shifts : status'[other] = "none" => float'[other] = 0 /\ net'[other] = 0
    BY <1>1, <1>5, <1>8 DEF Books, Custody
  <2>4. \A d \in Registers : last'[d] # Nothing => at'[last'[d]] = d /\ status'[last'[d]] # "none"
    <3>1. \A d \in Registers : last[d] # Nothing =>
            last[d] \in Shifts /\ at[last[d]] = d /\ status[last[d]] # "none"
      BY <1>1 DEF Books, Custody, TypeOK
    <3> SUFFICES ASSUME NEW d \in Registers, last'[d] # Nothing
                 PROVE  at'[last'[d]] = d /\ status'[last'[d]] # "none"
      OBVIOUS
    <3>2. CASE d = r
      BY <1>8, <3>2
    <3>3. CASE d # r
      <4>1. last'[d] = last[d] /\ last[d] \in Shifts \ {s}
        BY <1>1, <1>8, <3>1, <3>3
      <4> QED  BY <1>8, <3>1, <4>1
    <3> QED  BY <3>2, <3>3
  <2> QED  BY <2>1, <2>2, <2>3, <2>4 DEF Custody
<1>11. Untouched'
  BY <1>1, <1>8, CashSessionAssumption DEF Books, Untouched
<1>12. BooksExplained'
  <2> SUFFICES ASSUME NEW d \in Registers, NEW other \in Shifts, last'[d] = other
               PROVE  ledger'[d] = direct'[d] + (IF status'[other] = "open"
                                                 THEN float'[other] + net'[other]
                                                 ELSE counted'[other] - banked'[d])
    BY DEF BooksExplained, Expected
  <2>1. CASE d = r
    <3>1. other = s
      BY <1>8, <2>1
    <3>2. ledger'[r] = direct'[r] + (count + 0)
      BY <1>3, <1>4, <1>6, <1>8
    <3> QED  BY <1>8, <1>9, <2>1, <3>1, <3>2
  <2>2. CASE d # r
    <3>1. other # s
      BY <1>1, <1>8, <2>2, CashSessionAssumption DEF Books, Custody
    <3> QED  BY <1>1, <1>5, <1>8, <2>2, <3>1 DEF Books, BooksExplained, Expected
  <2> QED  BY <2>1, <2>2
<1>13. FrozenTotalsAdd'
  BY <1>1, <1>5, <1>8 DEF Books, FrozenTotalsAdd, Expected
<1>14. NoOverdraw'
  BY <1>1, <1>4, <1>5, <1>8, <1>9 DEF Books, NoOverdraw, Expected
<1>15. ASSUME NEW other \in Requests \ {t}  PROVE Request(other)'
  <2>1. Request(other)
    BY <1>1 DEF Requested
  <2>2. pc[other] \in {"opening", "banking"} => drawer[other] \in Registers \ {r}
    BY <1>1, <1>2, <2>1 DEF Requested, Exclusive, Request
  <2>3. ledger' \in [Registers -> Int] /\ direct' \in [Registers -> Int]
    BY <1>7 DEF TypeOK
  <2>4. pc[other] \in {"opening", "banking"} =>
          \A sh \in Shifts : status'[sh] = "open" => at'[sh] # drawer[other]
    BY <1>8, <2>1, <2>2 DEF Request
  <2>5. pc[other] = "opening" =>
          ledger'[drawer[other]] - direct'[drawer[other]] = ledger[drawer[other]] - direct[drawer[other]]
    BY <1>8, <2>2
  <2>6. pc[other] = "banking" => last'[drawer[other]] # Nothing
    BY <1>8, <2>1, <2>2 DEF Request
  <2>7. pc[other] \in {"closing", "handing"} =>
          /\ status'[on[other]] = "open"
          /\ \A o \in Orders : order'[o] = "billed" => billedIn'[o] # on[other]
    BY <1>1, <1>5, <1>8, <2>1 DEF Request
  <2> QED  BY <1>2, <2>3, <2>4, <2>5, <2>6, <2>7, RequestStays
<1>16. Exclusive' /\ Request(t)'
  BY <1>1, FinishExclusive
<1>17. Paid'
  BY <1>1, <1>5, <1>8 DEF IInv, Paid
<1>18. NoUnpaidBillBehind'
  BY <1>1, <1>5, <1>8 DEF IInv, TypeOK, NoUnpaidBillBehind
<1> QED  BY <1>7, <1>10, <1>11, <1>12, <1>13, <1>14, <1>15, <1>16, <1>17, <1>18
         DEF IInv, Books, Requested

LEMMA BankCommitKeeps ==
  ASSUME IInv, NEW t \in Requests, NEW amount \in Amounts, BankCommit(t, amount)
  PROVE  IInv'
<1> DEFINE r == drawer[t]
<1>1. TypeOK /\ Books /\ Requested /\ Finish(t, "banking")
  BY DEF BankCommit, IInv
<1>2. /\ pc' \in [Requests -> {"idle", "opening", "closing", "handing", "moving", "banking"}]
      /\ on' \in [Requests -> Shifts \cup {Nothing}]
      /\ drawer' \in [Requests -> Registers \cup {Nothing}]
      /\ read' \in [Requests -> [ledger: Int, direct: Int]]
      /\ pc[t] = "banking" /\ pc'[t] = "idle"
      /\ \A other \in Requests \ {t} : /\ pc'[other] = pc[other]
                                       /\ on'[other] = on[other]
                                       /\ drawer'[other] = drawer[other]
                                       /\ read'[other] = read[other]
  BY <1>1, FinishTypes
<1>3. /\ r \in Registers
      /\ \A other \in Shifts : status[other] = "open" => at[other] # r
      /\ last[r] # Nothing
  BY <1>1, <1>2 DEF Requested, Request
<1>4. amount \in Int
  BY CashSessionAssumption DEF Amounts
<1>5. /\ ledger' = [ledger EXCEPT ![r] = @ - amount]
      /\ banked' = [banked EXCEPT ![r] = @ + amount]
      /\ UNCHANGED <<status, at, float, net, counted, expected, variance, direct, last,
                     receipt, order, live, billedIn>>
  BY DEF BankCommit, shiftVars, orderVars
<1>6. TypeOK'
  BY <1>1, <1>2, <1>3, <1>4, <1>5 DEF TypeOK
<1>7. /\ ledger'[r] = ledger[r] - amount /\ banked'[r] = banked[r] + amount
      /\ \A d \in Registers \ {r} : ledger'[d] = ledger[d] /\ banked'[d] = banked[d]
  BY <1>1, <1>3, <1>5 DEF TypeOK
<1>8. Custody'
  BY <1>1, <1>3, <1>5, <1>7 DEF Books, Custody
<1>9. Untouched'
  BY <1>1, <1>3, <1>5, <1>7 DEF Books, Untouched
<1>10. BooksExplained'
  <2> SUFFICES ASSUME NEW d \in Registers, NEW other \in Shifts, last'[d] = other
               PROVE  ledger'[d] = direct'[d] + (IF status'[other] = "open"
                                                 THEN float'[other] + net'[other]
                                                 ELSE counted'[other] - banked'[d])
    BY DEF BooksExplained, Expected
  <2>1. CASE d = r
    <3>1. status[other] # "open"
      BY <1>1, <1>3, <1>5, <2>1 DEF Books, Custody
    <3>2. ledger[r] = direct[r] + (counted[other] - banked[r])
      BY <1>1, <1>3, <1>5, <2>1, <3>1 DEF Books, BooksExplained
    <3>3. /\ ledger[r] \in Int /\ direct[r] \in Int /\ counted[other] \in Int /\ banked[r] \in Int
      BY <1>1, <1>3 DEF TypeOK
    <3>4. ledger'[r] = direct[r] + (counted[other] - banked'[r])
      BY <1>4, <1>7, <3>2, <3>3
    <3> QED  BY <1>5, <2>1, <3>1, <3>4
  <2>2. CASE d # r
    BY <1>1, <1>5, <1>7, <2>2 DEF Books, BooksExplained, Expected
  <2> QED  BY <2>1, <2>2
<1>11. FrozenTotalsAdd' /\ NoOverdraw'
  BY <1>1, <1>5 DEF Books, FrozenTotalsAdd, NoOverdraw, Expected
<1>12. ASSUME NEW other \in Requests \ {t}  PROVE Request(other)'
  <2>1. Request(other)
    BY <1>1 DEF Requested
  <2>2. pc[other] = "opening" => drawer[other] \in Registers \ {r}
    BY <1>1, <1>2, <2>1 DEF Requested, Exclusive, Request
  <2> QED  BY <1>2, <1>5, <1>7, <2>1, <2>2 DEF Request
<1>13. Exclusive' /\ Request(t)'
  BY <1>1, FinishExclusive
<1>14. Paid' /\ NoUnpaidBillBehind'
  BY <1>5 DEF IInv, Paid, NoUnpaidBillBehind
<1> QED  BY <1>6, <1>8, <1>9, <1>10, <1>11, <1>12, <1>13, <1>14 DEF IInv, Books, Requested

(* Closing posts the difference to the count, so the account stands at the *)
(* count; with the automatic adjustment the shift does, too.               *)
LEMMA CloseCommitKeeps ==
  ASSUME IInv, NEW t \in Requests, NEW count \in Counts, CloseCommit(t, count)
  PROVE  IInv'
<1> DEFINE s == on[t]
           r == at[s]
           difference == count - Expected(s)
<1>1. TypeOK /\ Books /\ Requested /\ Finish(t, "closing")
  BY DEF CloseCommit, IInv
<1>2. /\ pc' \in [Requests -> {"idle", "opening", "closing", "handing", "moving", "banking"}]
      /\ on' \in [Requests -> Shifts \cup {Nothing}]
      /\ drawer' \in [Requests -> Registers \cup {Nothing}]
      /\ read' \in [Requests -> [ledger: Int, direct: Int]]
      /\ pc[t] = "closing" /\ pc'[t] = "idle"
      /\ \A other \in Requests \ {t} : /\ pc'[other] = pc[other]
                                       /\ on'[other] = on[other]
                                       /\ drawer'[other] = drawer[other]
                                       /\ read'[other] = read[other]
  BY <1>1, FinishTypes
<1>3. /\ s \in Shifts /\ status[s] = "open"
      /\ \A o \in Orders : order[o] = "billed" => billedIn[o] # s
  BY <1>1, <1>2 DEF Requested, Request
<1>4. r \in Registers /\ last[r] = s /\ banked[r] = 0
  BY <1>1, <1>3 DEF Books, Custody
<1>5. /\ count \in Int /\ count >= 0 /\ difference \in Int
      /\ float[s] \in Int /\ net[s] \in Int /\ ledger[r] \in Int /\ direct[r] \in Int
  BY <1>1, <1>3, <1>4, CashSessionAssumption DEF Counts, TypeOK, Expected
<1>6. /\ status' = [status EXCEPT ![s] = "closed"]
      /\ ledger' = [ledger EXCEPT ![r] = @ + difference]
      /\ UNCHANGED <<at, float, direct, banked, last, receipt, order, live, billedIn>>
  BY DEF CloseCommit, orderVars
<1>7. /\ counted' = [counted EXCEPT ![s] = count]
      /\ \E verdict \in {"none", "unresolved", "approved"} : variance' = [variance EXCEPT ![s] = verdict]
  BY DEF CloseCommit, Seal, Adjust, Verdicts
<1>8. \/ net' = net /\ expected' = [expected EXCEPT ![s] = Expected(s)]
      \/ /\ net' = [net EXCEPT ![s] = @ + difference]
         /\ expected' = [expected EXCEPT ![s] = float[s] + net'[s]]
  BY DEF CloseCommit, Seal, Adjust
<1>9. /\ net' \in [Shifts -> Int] /\ expected' \in [Shifts -> Int]
      /\ expected'[s] = float[s] + net'[s] /\ float[s] + net'[s] >= 0
      /\ \A other \in Shifts \ {s} : net'[other] = net[other] /\ expected'[other] = expected[other]
  <2>1. CASE net' = net /\ expected' = [expected EXCEPT ![s] = Expected(s)]
    BY <1>1, <1>3, <1>5, <2>1 DEF TypeOK, Expected, Books, NoOverdraw
  <2>2. CASE /\ net' = [net EXCEPT ![s] = @ + difference]
             /\ expected' = [expected EXCEPT ![s] = float[s] + net'[s]]
    <3>1. net'[s] = net[s] + difference /\ float[s] + (net[s] + difference) = count
      BY <1>1, <1>3, <1>5, <2>2 DEF TypeOK, Expected
    <3> QED  BY <1>1, <1>3, <1>5, <2>2, <3>1 DEF TypeOK
  <2> QED  BY <1>8, <2>1, <2>2
<1>10. TypeOK'
  <2>1. variance' \in [Shifts -> {"none", "unresolved", "approved"}]
    BY <1>1, <1>7 DEF TypeOK
  <2> QED  BY <1>1, <1>2, <1>3, <1>4, <1>5, <1>6, <1>7, <1>9, <2>1 DEF TypeOK
<1>11. /\ status'[s] = "closed" /\ counted'[s] = count
       /\ ledger'[r] = ledger[r] + difference
       /\ \A other \in Shifts \ {s} : status'[other] = status[other] /\ counted'[other] = counted[other]
       /\ \A d \in Registers \ {r} : ledger'[d] = ledger[d]
  BY <1>1, <1>3, <1>4, <1>6, <1>7 DEF TypeOK
<1>12. Custody'
  BY <1>1, <1>3, <1>6, <1>9, <1>11 DEF Books, Custody, TypeOK
<1>13. Untouched'
  BY <1>1, <1>3, <1>4, <1>6, <1>11, CashSessionAssumption DEF Books, Untouched
<1>14. BooksExplained'
  <2> SUFFICES ASSUME NEW d \in Registers, NEW other \in Shifts, last'[d] = other
               PROVE  ledger'[d] = direct'[d] + (IF status'[other] = "open"
                                                 THEN float'[other] + net'[other]
                                                 ELSE counted'[other] - banked'[d])
    BY DEF BooksExplained, Expected
  <2>1. CASE d = r
    <3>1. other = s
      BY <1>4, <1>6, <2>1
    <3>2. ledger[r] = direct[r] + Expected(s)
      BY <1>1, <1>3, <1>4 DEF Books, BooksExplained
    <3>3. ledger'[r] = direct[r] + (count - 0)
      BY <1>5, <1>11, <3>2 DEF Expected
    <3> QED  BY <1>4, <1>6, <1>11, <2>1, <3>1, <3>3
  <2>2. CASE d # r
    <3>1. other # s
      BY <1>1, <1>3, <1>6, <2>2, CashSessionAssumption DEF Books, Custody
    <3> QED  BY <1>1, <1>6, <1>9, <1>11, <2>2, <3>1 DEF Books, BooksExplained, Expected
  <2> QED  BY <2>1, <2>2
<1>15. FrozenTotalsAdd' /\ NoOverdraw'
  BY <1>1, <1>6, <1>9, <1>11 DEF Books, FrozenTotalsAdd, NoOverdraw, Expected
<1>16. ASSUME NEW other \in Requests \ {t}  PROVE Request(other)'
  <2>1. Request(other)
    BY <1>1 DEF Requested
  <2>2. pc[other] \in {"closing", "handing"} => on[other] # s
    BY <1>1, <1>2 DEF Requested, Exclusive
  <2>3. pc[other] = "opening" => drawer[other] \in Registers \ {r}
    BY <1>3, <2>1 DEF Request
  <2> QED  BY <1>2, <1>6, <1>11, <2>1, <2>2, <2>3 DEF Request
<1>17. Exclusive' /\ Request(t)'
  BY <1>1, FinishExclusive
<1>18. Paid'
  BY <1>6, <1>11 DEF IInv, Paid
<1>19. NoUnpaidBillBehind'
  BY <1>1, <1>3, <1>6, <1>11 DEF IInv, TypeOK, NoUnpaidBillBehind
<1> QED  BY <1>10, <1>12, <1>13, <1>14, <1>15, <1>16, <1>17, <1>18, <1>19 DEF IInv, Books, Requested

LEMMA HandoverCommitKeeps ==
  ASSUME IInv, NEW t \in Requests, NEW incoming \in Shifts, NEW count \in Counts,
         HandoverCommit(t, incoming, count)
  PROVE  IInv'
<1> DEFINE s == on[t]
           r == at[s]
           difference == count - Expected(s)
<1>1. TypeOK /\ Books /\ Requested /\ Finish(t, "handing") /\ status[incoming] = "none"
  BY DEF HandoverCommit, IInv
<1>2. /\ pc' \in [Requests -> {"idle", "opening", "closing", "handing", "moving", "banking"}]
      /\ on' \in [Requests -> Shifts \cup {Nothing}]
      /\ drawer' \in [Requests -> Registers \cup {Nothing}]
      /\ read' \in [Requests -> [ledger: Int, direct: Int]]
      /\ pc[t] = "handing" /\ pc'[t] = "idle"
      /\ \A other \in Requests \ {t} : /\ pc'[other] = pc[other]
                                       /\ on'[other] = on[other]
                                       /\ drawer'[other] = drawer[other]
                                       /\ read'[other] = read[other]
  BY <1>1, FinishTypes
<1>3. /\ s \in Shifts /\ status[s] = "open" /\ s # incoming
      /\ \A o \in Orders : order[o] = "billed" => billedIn[o] # s
  BY <1>1, <1>2 DEF Requested, Request
<1>4. r \in Registers /\ last[r] = s /\ banked[r] = 0 /\ net[incoming] = 0
  BY <1>1, <1>3 DEF Books, Custody
<1>5. /\ count \in Int /\ count >= 0 /\ difference \in Int
      /\ float[s] \in Int /\ net[s] \in Int /\ ledger[r] \in Int /\ direct[r] \in Int
  BY <1>1, <1>3, <1>4, CashSessionAssumption DEF Counts, TypeOK, Expected
<1>6. /\ status' = [status EXCEPT ![s] = "closed", ![incoming] = "open"]
      /\ ledger' = [ledger EXCEPT ![r] = @ + difference]
      /\ counted' = [counted EXCEPT ![s] = count]
      /\ expected' = [expected EXCEPT ![s] = Expected(s)]
      /\ variance' = [variance EXCEPT ![s] = IF difference = 0 THEN "none" ELSE "approved"]
      /\ at' = [at EXCEPT ![incoming] = r]
      /\ float' = [float EXCEPT ![incoming] = count]
      /\ last' = [last EXCEPT ![r] = incoming]
      /\ UNCHANGED <<net, direct, banked, receipt, order, live, billedIn>>
  BY DEF HandoverCommit, Seal, Start, orderVars
<1>7. TypeOK'
  <2>1. /\ status' \in [Shifts -> {"none", "open", "closed", "reconciled"}]
        /\ at' \in [Shifts -> Registers \cup {Nothing}]
        /\ variance' \in [Shifts -> {"none", "unresolved", "approved"}]
        /\ last' \in [Registers -> Shifts \cup {Nothing}]
    BY <1>1, <1>4, <1>6 DEF TypeOK
  <2>2. /\ float' \in [Shifts -> Int] /\ counted' \in [Shifts -> Int]
        /\ expected' \in [Shifts -> Int] /\ ledger' \in [Registers -> Int]
    <3>1. Expected(s) \in Int
      BY <1>5 DEF Expected
    <3>2. float' \in [Shifts -> Int] /\ counted' \in [Shifts -> Int]
      BY <1>1, <1>5, <1>6 DEF TypeOK
    <3>3. expected' \in [Shifts -> Int]
      BY <1>1, <1>6, <3>1 DEF TypeOK
    <3>4. ledger' \in [Registers -> Int]
      BY <1>1, <1>4, <1>5, <1>6 DEF TypeOK
    <3> QED  BY <3>2, <3>3, <3>4
  <2>3. /\ net' \in [Shifts -> Int] /\ direct' \in [Registers -> Int]
        /\ banked' \in [Registers -> Int]
        /\ receipt' \in [Receipts -> [state: {"none", "posted", "cancelled"},
                                      shift: Shifts \cup {Nothing}, amount: Int]]
        /\ order' \in [Orders -> {"none", "open", "billed", "settled", "cancelled"}]
        /\ live' \subseteq Orders /\ billedIn' \in [Orders -> Shifts \cup {Nothing}]
    BY <1>1, <1>6 DEF TypeOK
  <2> QED  BY <1>2, <2>1, <2>2, <2>3 DEF TypeOK
<1>8. /\ status'[s] = "closed" /\ status'[incoming] = "open"
      /\ counted'[s] = count /\ expected'[s] = float[s] + net[s]
      /\ at'[incoming] = r /\ float'[incoming] = count /\ last'[r] = incoming
      /\ ledger'[r] = ledger[r] + difference
  BY <1>1, <1>3, <1>4, <1>6 DEF TypeOK, Expected
<1>9. /\ \A other \in Shifts : other # s /\ other # incoming => status'[other] = status[other]
      /\ \A other \in Shifts \ {s} : counted'[other] = counted[other] /\ expected'[other] = expected[other]
      /\ \A other \in Shifts \ {incoming} : at'[other] = at[other] /\ float'[other] = float[other]
      /\ \A d \in Registers \ {r} : ledger'[d] = ledger[d] /\ last'[d] = last[d]
  BY <1>1, <1>6 DEF TypeOK
<1>10. Custody'
  <2>1. \A other \in Shifts : status'[other] # "none" =>
          at'[other] \in Registers /\ last'[at'[other]] # Nothing
    BY <1>1, <1>3, <1>4, <1>8, <1>9, CashSessionAssumption DEF Books, Custody
  <2>2. \A other \in Shifts : status'[other] = "open" =>
          last'[at'[other]] = other /\ banked'[at'[other]] = 0
    <3> SUFFICES ASSUME NEW other \in Shifts, status'[other] = "open"
                 PROVE  last'[at'[other]] = other /\ banked'[at'[other]] = 0
      OBVIOUS
    <3>1. CASE other = incoming
      BY <1>4, <1>6, <1>8, <3>1
    <3>2. CASE other # incoming
      <4>1. other # s /\ status[other] = "open" /\ at'[other] = at[other]
        BY <1>8, <1>9, <3>2
      <4>2. at[other] \in Registers /\ last[at[other]] = other /\ banked[at[other]] = 0
        BY <1>1, <4>1 DEF Books, Custody
      <4>3. at[other] # r
        BY <1>4, <4>1, <4>2
      <4> QED  BY <1>6, <1>9, <4>1, <4>2, <4>3
    <3> QED  BY <3>1, <3>2
  <2>3. \A other \in Shifts : status'[other] = "none" => float'[other] = 0 /\ net'[other] = 0
    <3> SUFFICES ASSUME NEW other \in Shifts, status'[other] = "none"
                 PROVE  float'[other] = 0 /\ net'[other] = 0
      OBVIOUS
    <3>1. other # s /\ other # incoming
      BY <1>8
    <3>2. status[other] = "none" /\ float'[other] = float[other] /\ net'[other] = net[other]
      BY <1>6, <1>9, <3>1
    <3> QED  BY <1>1, <3>2 DEF Books, Custody
  <2>4. \A d \in Registers : last'[d] # Nothing => at'[last'[d]] = d /\ status'[last'[d]] # "none"
    <3> SUFFICES ASSUME NEW d \in Registers, last'[d] # Nothing
                 PROVE  at'[last'[d]] = d /\ status'[last'[d]] # "none"
      OBVIOUS
    <3>1. CASE d = r
      BY <1>8, <3>1
    <3>2. CASE d # r
      <4>1. last[d] \in Shifts /\ at[last[d]] = d /\ status[last[d]] # "none"
        BY <1>1, <1>9, <3>2 DEF Books, Custody, TypeOK
      <4>2. last[d] \notin {s, incoming}
        BY <1>1, <3>2, <4>1
      <4> QED  BY <1>9, <3>2, <4>1, <4>2
    <3> QED  BY <3>1, <3>2
  <2> QED  BY <2>1, <2>2, <2>3, <2>4 DEF Custody
<1>11. Untouched'
  BY <1>1, <1>3, <1>4, <1>6, <1>8, <1>9, CashSessionAssumption DEF Books, Untouched
<1>12. BooksExplained'
  <2> SUFFICES ASSUME NEW d \in Registers, NEW other \in Shifts, last'[d] = other
               PROVE  ledger'[d] = direct'[d] + (IF status'[other] = "open"
                                                 THEN float'[other] + net'[other]
                                                 ELSE counted'[other] - banked'[d])
    BY DEF BooksExplained, Expected
  <2>1. CASE d = r
    <3>1. other = incoming
      BY <1>8, <2>1
    <3>2. ledger[r] = direct[r] + Expected(s)
      BY <1>1, <1>3, <1>4 DEF Books, BooksExplained
    <3>3. ledger'[r] = direct[r] + (count + 0)
      BY <1>5, <1>8, <3>2 DEF Expected
    <3> QED  BY <1>4, <1>6, <1>8, <2>1, <3>1, <3>3
  <2>2. CASE d # r
    <3>1. last[d] = other /\ at[other] = d /\ status[other] # "none"
      BY <1>1, <1>9, <2>2, CashSessionAssumption DEF Books, Custody
    <3>2. other # s /\ other # incoming
      BY <1>1, <2>2, <3>1
    <3>3. /\ status'[other] = status[other] /\ float'[other] = float[other] /\ net'[other] = net[other]
          /\ counted'[other] = counted[other] /\ ledger'[d] = ledger[d]
          /\ direct'[d] = direct[d] /\ banked'[d] = banked[d]
      <4>1. net' = net /\ direct' = direct /\ banked' = banked
        BY <1>6
      <4> QED  BY <1>9, <2>2, <3>2, <4>1
    <3>4. ledger[d] = direct[d] + (IF status[other] = "open"
                                   THEN float[other] + net[other] ELSE counted[other] - banked[d])
      BY <1>1, <3>1 DEF Books, BooksExplained, Expected
    <3> QED  BY <3>3, <3>4
  <2> QED  BY <2>1, <2>2
<1>13. FrozenTotalsAdd'
  <2> SUFFICES ASSUME NEW other \in Shifts, status'[other] \in {"closed", "reconciled"}
               PROVE  expected'[other] = float'[other] + net'[other]
    BY DEF FrozenTotalsAdd, Expected
  <2>1. CASE other = s
    BY <1>3, <1>6, <1>8, <1>9, <2>1
  <2>2. CASE other # s
    <3>1. other # incoming
      BY <1>8
    <3>2. status[other] \in {"closed", "reconciled"}
      BY <1>9, <2>2, <3>1
    <3>3. expected[other] = float[other] + net[other]
      BY <1>1, <3>2 DEF Books, FrozenTotalsAdd, Expected
    <3> QED  BY <1>6, <1>9, <2>2, <3>1, <3>3
  <2> QED  BY <2>1, <2>2
<1>14. NoOverdraw'
  BY <1>1, <1>4, <1>5, <1>6, <1>8, <1>9 DEF Books, NoOverdraw, Expected
<1>15. ASSUME NEW other \in Requests \ {t}  PROVE Request(other)'
  <2>1. Request(other)
    BY <1>1 DEF Requested
  <2>2. pc[other] \in {"closing", "handing"} => on[other] \in Shifts \ {s, incoming}
    BY <1>1, <1>2, <2>1 DEF Requested, Exclusive, Request
  <2>3. pc[other] \in {"opening", "banking"} => drawer[other] \in Registers \ {r}
    BY <1>3, <2>1 DEF Request
  <2>4. ledger' \in [Registers -> Int] /\ direct' \in [Registers -> Int]
    BY <1>7 DEF TypeOK
  <2>5. pc[other] \in {"opening", "banking"} =>
          \A sh \in Shifts : status'[sh] = "open" => at'[sh] # drawer[other]
    BY <1>3, <1>8, <1>9, <2>1, <2>3 DEF Request
  <2>6. pc[other] = "opening" =>
          ledger'[drawer[other]] - direct'[drawer[other]] = ledger[drawer[other]] - direct[drawer[other]]
    BY <1>6, <1>9, <2>3
  <2>7. pc[other] = "banking" => last'[drawer[other]] # Nothing
    BY <1>9, <2>1, <2>3 DEF Request
  <2>8. pc[other] \in {"closing", "handing"} =>
          /\ status'[on[other]] = "open"
          /\ \A o \in Orders : order'[o] = "billed" => billedIn'[o] # on[other]
    BY <1>6, <1>9, <2>1, <2>2 DEF Request
  <2> QED  BY <1>2, <2>4, <2>5, <2>6, <2>7, <2>8, RequestStays
<1>16. Exclusive' /\ Request(t)'
  BY <1>1, FinishExclusive
<1>17. Paid'
  <2>1. \A other \in Shifts : status[other] # "none" => status'[other] # "none"
    BY <1>8, <1>9
  <2> QED  BY <1>6, <2>1 DEF IInv, Paid
<1>18. NoUnpaidBillBehind'
  BY <1>1, <1>3, <1>6, <1>8, <1>9 DEF IInv, TypeOK, NoUnpaidBillBehind
<1> QED  BY <1>7, <1>10, <1>11, <1>12, <1>13, <1>14, <1>15, <1>16, <1>17, <1>18
         DEF IInv, Books, Requested

----------------------------------------------------------------------------
LEMMA Preserved == IInv /\ [Next]_vars => IInv'
<1> SUFFICES ASSUME IInv, [Next]_vars  PROVE IInv'
  OBVIOUS
<1>1. CASE UNCHANGED vars
  <2>1. UNCHANGED <<shiftVars, bookVars, receipt, orderVars, requestVars>>
    BY <1>1 DEF vars
  <2>2. TypeOK'
    BY <2>1 DEF IInv, TypeOK, shiftVars, bookVars, orderVars, requestVars
  <2>3. Requested'
    BY <2>1 DEF IInv, Requested, Exclusive, Request, shiftVars, bookVars, orderVars, requestVars
  <2> QED  BY <2>1, <2>2, <2>3, SameBooks DEF IInv
<1>2. ASSUME NEW t \in Requests, ShiftStep(t)  PROVE IInv'
  <2>1. \A amount \in Balances \ {0} : amount \in Int
    BY CashSessionAssumption DEF Balances
  <2> QED  BY <1>2, <2>1, GiveUpKeeps, OpenReadKeeps, CheckKeeps, MoveReadKeeps, BankReadKeeps,
              CloseCommitKeeps, OpenCommitKeeps, HandoverCommitKeeps, MoveCommitKeeps, BankCommitKeeps
           DEF ShiftStep
<1>3. CASE DrawerStep
  <2>1. \A amount \in Balances \ {0} : amount \in Int
    BY CashSessionAssumption DEF Balances
  <2> QED  BY <1>3, <2>1, ReviewKeeps, VoidKeeps, PayOutKeeps, ReceiveKeeps, DirectPaymentKeeps
           DEF DrawerStep
<1>4. ASSUME NEW o \in Orders, OrderStep(o)  PROVE IInv'
  BY <1>4, ItemsKeep, BillKeeps, SettleKeeps DEF OrderStep
<1> QED  BY <1>1, <1>2, <1>3, <1>4 DEF Next

LEMMA Invariant == Spec => []IInv
BY Initially, Preserved, PTL DEF Spec

----------------------------------------------------------------------------
(* Every reachable state of the shifts, drawers and orders is well-typed.  *)
THEOREM ShiftTypeCorrect == Spec => []TypeOK
<1>1. IInv => TypeOK
  BY DEF IInv
<1> QED  BY Invariant, <1>1, PTL

(* Opens, closes and handovers of any number of requests never leave two   *)
(* open shifts at one register.                                            *)
THEOREM OneOwner == Spec => []OneShiftPerDrawer
<1>1. IInv => OneShiftPerDrawer
  BY DEF IInv, Books, Custody, OneShiftPerDrawer
<1> QED  BY Invariant, <1>1, PTL

(* The ledger of every drawer account is explained by its latest shift,    *)
(* what was banked since and what was posted past the shifts.              *)
THEOREM BooksAreExplained == Spec => []BooksExplained
<1>1. IInv => BooksExplained
  BY DEF IInv, Books
<1> QED  BY Invariant, <1>1, PTL

(* The frozen totals of a closed shift are its float and its movements.    *)
THEOREM TotalsAdd == Spec => []FrozenTotalsAdd
<1>1. IInv => FrozenTotalsAdd
  BY DEF IInv, Books
<1> QED  BY Invariant, <1>1, PTL

(* No shift ever pays out more than it holds.                              *)
THEOREM NeverOverdrawn == Spec => []NoOverdraw
<1>1. IInv => NoOverdraw
  BY DEF IInv, Books
<1> QED  BY Invariant, <1>1, PTL

(* An unpaid bill that belongs to a shift keeps it open.                   *)
THEOREM UnpaidBillsKeepShiftsOpen == Spec => []NoUnpaidBillBehind
<1>1. IInv => NoUnpaidBillBehind
  BY DEF IInv
<1> QED  BY Invariant, <1>1, PTL

----------------------------------------------------------------------------
Frozen(s) ==
  /\ <<at[s], float[s], net[s], counted[s], expected[s]>>'
       = <<at[s], float[s], net[s], counted[s], expected[s]>>
  /\ status'[s] \in {status[s], "reconciled"}
  /\ status[s] = "reconciled" => variance'[s] = variance[s]

LEMMA StepsLeaveClosedShiftsAlone ==
  ASSUME IInv, [Next]_vars, NEW s \in Shifts, status[s] \in {"closed", "reconciled"}
  PROVE  Frozen(s)
<1>1. TypeOK /\ \A t \in Requests : Request(t)
  BY DEF IInv, Requested
<1>2. CASE UNCHANGED shiftVars
  BY <1>2 DEF Frozen, shiftVars
<1>3. CASE UNCHANGED vars
  BY <1>2, <1>3 DEF vars
<1>4. ASSUME NEW t \in Requests, ShiftStep(t)  PROVE Frozen(s)
  <2>1. CASE UNCHANGED shiftVars
    BY <1>2, <2>1
  <2>2. ASSUME NEW other \in Shifts, NEW count \in Counts, OpenCommit(t, other, count)
        PROVE  Frozen(s)
    BY <1>1, <2>2 DEF OpenCommit, Start, Frozen, TypeOK
  <2>3. ASSUME NEW count \in Counts, CloseCommit(t, count)
        PROVE  Frozen(s)
    <3>1. s # on[t]
      BY <1>1, <2>3 DEF Request, CloseCommit, Finish
    <3>2. /\ at' = at /\ float' = float
          /\ status'[s] = status[s] /\ net'[s] = net[s] /\ counted'[s] = counted[s]
          /\ expected'[s] = expected[s] /\ variance'[s] = variance[s]
      BY <1>1, <2>3, <3>1 DEF CloseCommit, Seal, Adjust, TypeOK
    <3> QED  BY <3>2 DEF Frozen
  <2>4. ASSUME NEW other \in Shifts, NEW count \in Counts, HandoverCommit(t, other, count)
        PROVE  Frozen(s)
    <3>1. s # on[t] /\ s # other
      BY <1>1, <2>4 DEF Request, HandoverCommit, Finish
    <3> QED  BY <1>1, <2>4, <3>1 DEF HandoverCommit, Seal, Start, TypeOK, Frozen
  <2>5. ASSUME NEW amount \in Balances \ {0}, MoveCommit(t, amount)
        PROVE  Frozen(s)
    <3>1. s # on[t]
      BY <2>5 DEF MoveCommit, Usable
    <3> QED  BY <1>1, <2>5, <3>1 DEF MoveCommit, Move, TypeOK, Frozen
  <2> QED  BY <1>4, <2>1, <2>2, <2>3, <2>4, <2>5
           DEF ShiftStep, GiveUp, OpenRead, CloseCheck, HandoverCheck, MoveRead, BankRead, BankCommit
<1>5. CASE DrawerStep
  <2>1. ASSUME NEW other \in Shifts, Reconcile(other)  PROVE Frozen(s)
    BY <1>1, <2>1 DEF Reconcile, TypeOK, Frozen
  <2>2. ASSUME NEW other \in Shifts, NEW verdict \in {"unresolved", "approved"},
               ReviewVariance(other, verdict)
        PROVE  Frozen(s)
    BY <1>1, <2>2 DEF ReviewVariance, TypeOK, Frozen
  <2>3. ASSUME NEW other \in Shifts, NEW p \in Receipts, VoidReceipt(p, other)  PROVE Frozen(s)
    BY <1>1, <2>3 DEF VoidReceipt, Usable, TypeOK, Frozen
  <2>4. ASSUME NEW other \in Shifts, NEW amount \in Amounts, PayOut(other, amount)  PROVE Frozen(s)
    BY <1>1, <2>4 DEF PayOut, Usable, Move, TypeOK, Frozen
  <2>5. ASSUME NEW other \in Shifts, NEW amount \in Amounts, NEW p \in Receipts,
               Receive(p, other, amount)
        PROVE  Frozen(s)
    BY <1>1, <2>5 DEF Receive, Usable, Move, TypeOK, Frozen
  <2>6. ASSUME NEW r \in Registers, NEW amount \in Balances \ {0}, DirectPayment(r, amount)
        PROVE  Frozen(s)
    BY <1>2, <2>6 DEF DirectPayment
  <2> QED  BY <1>5, <2>1, <2>2, <2>3, <2>4, <2>5, <2>6 DEF DrawerStep
<1>6. ASSUME NEW o \in Orders, OrderStep(o)  PROVE Frozen(s)
  <2>1. ASSUME NEW other \in Shifts, NEW amount \in Amounts, Settle(o, other, amount)
        PROVE  Frozen(s)
    BY <1>1, <2>1 DEF Settle, Usable, Move, TypeOK, Frozen
  <2>2. CASE UNCHANGED shiftVars
    BY <1>2, <2>2
  <2> QED  BY <1>6, <2>1, <2>2 DEF OrderStep, CreateOrder, SaveItems, CancelOrder, ReopenOrder, Bill
<1> QED  BY <1>3, <1>4, <1>5, <1>6 DEF Next

(* Once closed, a shift is final: no late movement, void, refund or second *)
(* close changes its totals, and its status only goes forward.             *)
THEOREM ClosedShiftsAreFinal == Spec => ClosedStaysFrozen
<1> DEFINE Step == \A s \in Shifts : status[s] \in {"closed", "reconciled"} =>
                     /\ <<at[s], float[s], net[s], counted[s], expected[s]>>'
                          = <<at[s], float[s], net[s], counted[s], expected[s]>>
                     /\ status'[s] \in {status[s], "reconciled"}
                     /\ status[s] = "reconciled" => variance'[s] = variance[s]
<1>1. IInv /\ [Next]_vars => Step
  BY StepsLeaveClosedShiftsAlone DEF Frozen
<1>2. IInv /\ [Next]_vars => [Step]_vars
  BY <1>1
<1> QED  BY Invariant, <1>2, PTL DEF Spec, ClosedStaysFrozen
============================================================================
