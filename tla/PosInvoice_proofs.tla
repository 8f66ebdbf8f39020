-------------------------- MODULE PosInvoice_proofs --------------------------
(***************************************************************************)
(* What TLAPS checks of PosInvoice, for any invoices, customers, totals,   *)
(* limits and number of sessions.                                          *)
(***************************************************************************)
EXTENDS PosInvoice, FiniteSetTheorems, WellFoundedInduction, TLAPS

Ended(i) == status[i] = "refunded" \/ settlement[i] = "written_off"

(* An invoice that has not been issued is blank.                           *)
Blank(i) ==
  /\ settlement[i] = "unsettled"
  /\ residual[i] = 0 /\ paid[i] = 0 /\ refunded[i] = 0 /\ returned[i] = 0
  /\ receivable[i] = 0 /\ badDebt[i] = 0

(* The books of one invoice, issued or not.                                *)
Sound(i) ==
  /\ (order[i] = "open") <=> (status[i] = "none")
  /\ status[i] = "none" => Blank(i)
  /\ receivable[i] = residual[i]
  /\ returned[i] <= paid[i]
  /\ status[i] # "none" =>
       Total[i] = residual[i] + (paid[i] - returned[i]) + refunded[i] + badDebt[i]
  /\ Ended(i) => residual[i] = 0
  /\ order[i] = "closed" => residual[i] = 0 \/ i \in onCredit

(* What a session has read of the invoice it locks is how the invoice      *)
(* still is, and the request was checked against it.                       *)
Reads(x) ==
  LET i == x.invoice IN
  /\ status[i] # "none"
  /\ x.residual = residual[i] /\ x.paid = paid[i] /\ x.refunded = refunded[i]
  /\ x.op \in {"receive", "collect", "writeOff"} => x.amount \in 1..residual[i]
  /\ x.op = "writeOff" => x.amount = residual[i]
  /\ x.op \in {"receive", "collect", "refund"} => status[i] # "refunded"
  /\ x.op = "account" => residual[i] > 0
  /\ x.op = "refund" =>
       /\ settlement[i] # "written_off"
       /\ x.amount \in 1..(Total[i] - refunded[i])
       /\ x.amount <= residual[i] + (paid[i] - returned[i])

Apart(s, u) == s # u /\ txn[s] # Idle /\ txn[u] # Idle => txn[s].invoice # txn[u].invoice

(* The inductive invariant.                                                *)
IInv ==
  /\ TypeOK
  /\ \A i \in Invoices : Sound(i)
  /\ \A s \in Sessions : txn[s] # Idle => Reads(txn[s])
  /\ \A s, u \in Sessions : Apart(s, u)

----------------------------------------------------------------------------
(* A step leaves an invoice as it is.                                      *)
Same(i) ==
  /\ order'[i] = order[i] /\ status'[i] = status[i] /\ settlement'[i] = settlement[i]
  /\ i \in onCredit' <=> i \in onCredit
  /\ residual'[i] = residual[i] /\ paid'[i] = paid[i] /\ refunded'[i] = refunded[i]
  /\ returned'[i] = returned[i] /\ receivable'[i] = receivable[i] /\ badDebt'[i] = badDebt[i]

LEMMA SameIsSound ==
  ASSUME NEW i \in Invoices, Sound(i), Same(i)
  PROVE  Sound(i)'
  BY DEF Sound, Same, Ended, Blank

LEMMA BusyIsRequest ==
  ASSUME TypeOK, NEW s \in Sessions, txn[s] # Idle
  PROVE  /\ txn[s] \in Requests
         /\ txn[s].op \in Operations /\ txn[s].invoice \in Invoices
         /\ txn[s].amount \in Nat /\ txn[s].residual \in Nat
         /\ txn[s].paid \in Nat /\ txn[s].refunded \in Nat
<1>1. txn[s] \in Requests
  BY DEF TypeOK
<1> QED  BY <1>1 DEF Requests

(* A commit needs to be looked at only where it writes: the lock keeps     *)
(* every other session away from that invoice.                             *)
LEMMA CommitPreserves ==
  ASSUME IInv, NEW s \in Sessions, txn[s] # Idle,
         NEW i \in Invoices, i = txn[s].invoice,
         txn' = [txn EXCEPT ![s] = Idle], TypeOK', Sound(i)',
         \A j \in Invoices \ {i} : Same(j)
  PROVE  IInv'
<1>1. txn \in [Sessions -> Requests \cup {Idle}]
  BY DEF IInv, TypeOK
<1>2. ASSUME NEW j \in Invoices
      PROVE  Sound(j)'
  <2>1. CASE j = i
    BY <2>1
  <2>2. CASE j # i
    <3>1. Sound(j) /\ Same(j)
      BY <2>2 DEF IInv
    <3> QED  BY <3>1, SameIsSound
  <2> QED  BY <2>1, <2>2
<1>3. ASSUME NEW u \in Sessions, txn'[u] # Idle
      PROVE  Reads(txn[u])'
  <2>1. u # s /\ txn'[u] = txn[u] /\ txn[u] # Idle
    BY <1>1, <1>3
  <2>2. txn[u].invoice # i
    BY <2>1 DEF IInv, Apart
  <2>3. txn[u].invoice \in Invoices
    BY <2>1, BusyIsRequest DEF IInv
  <2>4. Reads(txn[u]) /\ Same(txn[u].invoice)
    BY <2>1, <2>2, <2>3 DEF IInv
  <2> QED  BY <2>1, <2>4 DEF Reads, Same
<1>4. \A u, v \in Sessions : Apart(u, v)'
  BY <1>1 DEF IInv, Apart
<1> QED  BY <1>2, <1>3, <1>4 DEF IInv

----------------------------------------------------------------------------
LEMMA InitSound == Init => IInv
<1> SUFFICES ASSUME Init PROVE IInv
  OBVIOUS
<1>1. TypeOK
  BY DEF Init, TypeOK
<1>2. \A i \in Invoices : Sound(i)
  BY DEF Init, Sound, Blank, Ended
<1>3. \A s \in Sessions : txn[s] = Idle
  BY DEF Init
<1> QED  BY <1>1, <1>2, <1>3 DEF IInv, Apart

LEMMA BillPreserves ==
  ASSUME IInv, NEW i \in Invoices, NEW m, Bill(i, m)
  PROVE  IInv'
<1> USE PosInvoiceAssumption
<1>1. TypeOK'
  <2>1. Total[i] \in Nat /\ receivable[i] + Total[i] \in Int
    BY DEF IInv, TypeOK
  <2>2. onCredit' \subseteq Invoices
    BY DEF IInv, TypeOK, Bill
  <2> QED  BY <2>1, <2>2 DEF IInv, TypeOK, Bill
<1>2. Sound(i) /\ status[i] = "none"
  BY DEF IInv, Sound, Bill
<1>3. Sound(i)'
  <2>1. Blank(i)
    BY <1>2 DEF Sound
  <2>2. /\ order'[i] = "billed" /\ status'[i] = "posted" /\ settlement'[i] = "unsettled"
        /\ residual'[i] = Total[i] /\ receivable'[i] = Total[i]
        /\ paid'[i] = 0 /\ refunded'[i] = 0 /\ returned'[i] = 0 /\ badDebt'[i] = 0
    <3>1. Total[i] \in Nat
      OBVIOUS
    <3> QED  BY <2>1, <3>1 DEF IInv, TypeOK, Bill, Blank
  <2> QED  BY <2>2 DEF Sound, Ended
<1>4. ASSUME NEW j \in Invoices, j # i
      PROVE  Same(j)
  BY <1>4 DEF IInv, TypeOK, Same, Bill
<1>5. ASSUME NEW s \in Sessions, txn[s] # Idle
      PROVE  Reads(txn[s])'
  <2>1. Reads(txn[s]) /\ txn[s].invoice \in Invoices /\ txn[s].invoice # i /\ txn' = txn
    BY <1>2, <1>5, BusyIsRequest DEF IInv, Reads, Bill
  <2>2. Same(txn[s].invoice)
    BY <1>4, <2>1
  <2> QED  BY <2>1, <2>2 DEF Reads, Same
<1>6. \A j \in Invoices : Sound(j)'
  <2> TAKE j \in Invoices
  <2>1. CASE j # i
    <3>1. Sound(j) /\ Same(j)
      BY <1>4, <2>1 DEF IInv
    <3> QED  BY <3>1, SameIsSound
  <2> QED  BY <1>3, <2>1
<1>7. txn' = txn
  BY DEF Bill
<1> QED  BY <1>1, <1>5, <1>6, <1>7 DEF IInv, Apart

LEMMA LockPreserves ==
  ASSUME IInv, NEW s \in Sessions, NEW op \in Operations, NEW i \in Invoices,
         NEW a \in 1..Total[i], Lock(s, op, i, a)
  PROVE  IInv'
<1> USE PosInvoiceAssumption
<1> DEFINE x == [op |-> op, invoice |-> i, amount |-> a, residual |-> residual[i],
                 paid |-> paid[i], refunded |-> refunded[i]]
<1>1. /\ txn' = [txn EXCEPT ![s] = x] /\ txn \in [Sessions -> Requests \cup {Idle}]
      /\ Accepts(op, i, a) /\ status[i] # "none" /\ RowFree(i)
      /\ UNCHANGED <<order, status, settlement, onCredit, moneyVars>>
  BY DEF IInv, TypeOK, Lock
<1>2. TypeOK'
  <2>1. a \in Nat /\ residual[i] \in Nat /\ paid[i] \in Nat /\ refunded[i] \in Nat
    BY DEF IInv, TypeOK
  <2>2. x \in Requests
    BY <2>1 DEF Requests
  <2> QED  BY <1>1, <2>2 DEF IInv, TypeOK, moneyVars
<1>3. \A j \in Invoices : Same(j)
  BY <1>1 DEF Same, moneyVars
<1>4. Reads(x)
  <2>1. CASE op \in {"receive", "collect"}
    BY <1>1, <2>1 DEF Reads, Accepts
  <2>2. CASE op = "account"
    BY <1>1, <2>2 DEF Reads, Accepts
  <2>3. CASE op = "writeOff"
    BY <1>1, <2>3 DEF IInv, TypeOK, Reads, Accepts
  <2>4. CASE op = "refund"
    BY <1>1, <2>4 DEF Reads, Accepts
  <2> QED  BY <2>1, <2>2, <2>3, <2>4 DEF Operations
<1>5. ASSUME NEW u \in Sessions, txn'[u] # Idle
      PROVE  Reads(txn[u])'
  <2>1. CASE u = s
    <3>1. txn'[u] = x
      BY <1>1, <2>1
    <3> HIDE DEF x
    <3> QED  BY <1>1, <1>4, <3>1 DEF Reads, moneyVars
  <2>2. CASE u # s
    BY <1>1, <1>5, <2>2 DEF IInv, Reads, moneyVars
  <2> QED  BY <2>1, <2>2
<1>6. \A j \in Invoices : Sound(j)'
  BY <1>3, SameIsSound DEF IInv
<1>7. \A u, v \in Sessions : Apart(u, v)'
  BY <1>1 DEF IInv, Apart, RowFree, Busy
<1> QED  BY <1>2, <1>5, <1>6, <1>7 DEF IInv

LEMMA RollbackPreserves ==
  ASSUME IInv, NEW s \in Sessions, Rollback(s)
  PROVE  IInv'
<1>1. PICK i \in Invoices : i = txn[s].invoice
  BY BusyIsRequest DEF IInv, Rollback
<1>2. TypeOK'
  BY DEF IInv, TypeOK, Rollback, moneyVars
<1>3. \A j \in Invoices : Same(j)
  BY DEF Rollback, Same, moneyVars
<1>4. Sound(i)'
  BY <1>3, SameIsSound DEF IInv
<1> QED
  BY <1>1, <1>2, <1>3, <1>4, CommitPreserves DEF Rollback

----------------------------------------------------------------------------
(* What a session that is about to commit knows.                           *)
LEMMA CommitKnows ==
  ASSUME IInv, NEW s \in Sessions, txn[s] # Idle, NEW i, i = txn[s].invoice
  PROVE  /\ i \in Invoices /\ txn[s].amount \in Nat
         /\ Total[i] \in Nat /\ residual[i] \in Nat /\ paid[i] \in Nat
         /\ refunded[i] \in Nat /\ returned[i] \in Nat /\ badDebt[i] \in Nat
         /\ receivable[i] \in Int
         /\ Sound(i) /\ Reads(txn[s])
<1>1. i \in Invoices /\ txn[s].amount \in Nat
  BY BusyIsRequest DEF IInv
<1> QED  BY <1>1, PosInvoiceAssumption DEF IInv, TypeOK

(* The receipt itself, whoever books it.                                   *)
LEMMA BookPreserves ==
  ASSUME IInv, NEW s \in Sessions, NEW i, i = txn[s].invoice,
         NEW op \in {"receive", "collect"}, Commits(s, op), Book(s)
  PROVE  /\ residual'[i] = residual[i] - txn[s].amount
         /\ residual'[i] \in Nat
         /\ paid'[i] = paid[i] + txn[s].amount
         /\ receivable'[i] = residual'[i]
         /\ status[i] \notin {"none", "refunded"} /\ status'[i] \notin {"none", "refunded"}
         /\ settlement[i] # "written_off"
         /\ txn[s].amount = txn[s].residual <=> residual'[i] = 0
         /\ residual' \in [Invoices -> Nat] /\ paid' \in [Invoices -> Nat]
         /\ receivable' \in [Invoices -> Int]
         /\ status' \in [Invoices -> {"none", "posted", "paid", "refunded"}]
         /\ \A j \in Invoices \ {i} :
              /\ residual'[j] = residual[j] /\ paid'[j] = paid[j]
              /\ receivable'[j] = receivable[j] /\ status'[j] = status[j]
<1> DEFINE x == txn[s]
<1>1. txn[s] # Idle /\ x.op = op
  BY DEF Commits
<1>2. /\ i \in Invoices /\ x.amount \in Nat
      /\ residual[i] \in Nat /\ paid[i] \in Nat /\ receivable[i] \in Int
      /\ Sound(i) /\ Reads(x)
  BY <1>1, CommitKnows
<1>3. /\ x.residual = residual[i] /\ x.paid = paid[i] /\ x.amount \in 1..residual[i]
      /\ status[i] \notin {"none", "refunded"}
  BY <1>1, <1>2 DEF Reads
<1>4. residual[i] - x.amount \in Nat
  BY <1>2, <1>3
<1>5. receivable[i] = residual[i] /\ settlement[i] # "written_off"
  BY <1>2, <1>3 DEF Sound, Ended
<1>6. /\ residual' = [residual EXCEPT ![i] = residual[i] - x.amount]
      /\ paid' = [paid EXCEPT ![i] = paid[i] + x.amount]
      /\ receivable' = [receivable EXCEPT ![i] = receivable[i] - x.amount]
      /\ status' = IF x.residual = x.amount THEN [status EXCEPT ![i] = "paid"] ELSE status
  BY <1>3 DEF Book
<1>7. /\ residual \in [Invoices -> Nat] /\ paid \in [Invoices -> Nat]
      /\ receivable \in [Invoices -> Int]
      /\ status \in [Invoices -> {"none", "posted", "paid", "refunded"}]
  BY DEF IInv, TypeOK
<1> HIDE DEF x
<1> QED  BY <1>2, <1>3, <1>4, <1>5, <1>6, <1>7 DEF x

LEMMA ReceivePreserves ==
  ASSUME IInv, NEW s \in Sessions, Receive(s)
  PROVE  IInv'
<1>1. txn[s] # Idle /\ txn' = [txn EXCEPT ![s] = Idle] /\ Commits(s, "receive") /\ Book(s)
  BY DEF Receive, Commits
<1>2. PICK i \in Invoices : i = txn[s].invoice
  BY <1>1, CommitKnows
<1>3. Sound(i)
  BY <1>1, <1>2, CommitKnows
<1>4. /\ residual'[i] = residual[i] - txn[s].amount /\ residual'[i] \in Nat
      /\ paid'[i] = paid[i] + txn[s].amount /\ receivable'[i] = residual'[i]
      /\ status[i] \notin {"none", "refunded"} /\ status'[i] \notin {"none", "refunded"}
      /\ settlement[i] # "written_off"
      /\ txn[s].amount = txn[s].residual <=> residual'[i] = 0
  BY <1>1, <1>2, BookPreserves
<1>5. UNCHANGED <<refunded, returned, badDebt, onCredit>>
  BY DEF Receive, Book
<1>6. /\ order' \in [Invoices -> {"open", "billed", "closed"}]
      /\ settlement' \in [Invoices -> {"unsettled", "partially_settled", "settled", "written_off"}]
      /\ settlement'[i] \in {"settled", "partially_settled"}
      /\ residual'[i] = 0 => order'[i] = "closed"
      /\ residual'[i] # 0 => order'[i] = order[i]
      /\ \A j \in Invoices \ {i} : order'[j] = order[j] /\ settlement'[j] = settlement[j]
  BY <1>2, <1>4 DEF IInv, TypeOK, Receive, CloseOrder
<1>7. TypeOK'
  <2>1. txn' \in [Sessions -> Requests \cup {Idle}]
    BY <1>1 DEF IInv, TypeOK
  <2>2. /\ residual' \in [Invoices -> Nat] /\ paid' \in [Invoices -> Nat]
        /\ receivable' \in [Invoices -> Int]
        /\ status' \in [Invoices -> {"none", "posted", "paid", "refunded"}]
    BY <1>1, <1>2, BookPreserves
  <2> QED  BY <1>5, <1>6, <2>1, <2>2 DEF IInv, TypeOK
<1>8. Sound(i)'
  <2>1. /\ returned[i] <= paid[i]
        /\ Total[i] = residual[i] + (paid[i] - returned[i]) + refunded[i] + badDebt[i]
        /\ order[i] # "open"
        /\ order[i] = "closed" => residual[i] = 0 \/ i \in onCredit
    BY <1>3, <1>4 DEF Sound
  <2>2. /\ txn[s].amount \in Nat /\ txn[s].amount \in 1..residual[i] /\ residual[i] \in Nat /\ paid[i] \in Nat
        /\ refunded[i] \in Nat /\ returned[i] \in Nat /\ badDebt[i] \in Nat
    BY <1>1, <1>2, CommitKnows DEF Commits, Reads
  <2>3. returned[i] <= paid'[i] /\ order'[i] # "open"
    BY <1>4, <1>6, <2>1, <2>2
  <2>4. Total[i] = residual'[i] + (paid'[i] - returned[i]) + refunded[i] + badDebt[i]
    BY <1>4, <2>1, <2>2
  <2>5. order'[i] = "closed" => residual'[i] = 0 \/ i \in onCredit
    BY <1>6, <2>1, <2>2
  <2> QED  BY <1>4, <1>5, <1>6, <2>3, <2>4, <2>5 DEF Sound, Ended
<1>9. \A j \in Invoices \ {i} : Same(j)
  BY <1>1, <1>2, <1>5, <1>6, BookPreserves DEF Same
<1> QED  BY <1>1, <1>2, <1>7, <1>8, <1>9, CommitPreserves

LEMMA CollectPreserves ==
  ASSUME IInv, NEW s \in Sessions, Collect(s)
  PROVE  IInv'
<1>1. txn[s] # Idle /\ txn' = [txn EXCEPT ![s] = Idle] /\ Commits(s, "collect") /\ Book(s)
  BY DEF Collect, Commits
<1>2. PICK i \in Invoices : i = txn[s].invoice
  BY <1>1, CommitKnows
<1>3. UNCHANGED <<order, settlement, onCredit, refunded, returned, badDebt>>
  BY DEF Collect, Book
<1>4. TypeOK'
  <2>1. txn' \in [Sessions -> Requests \cup {Idle}]
    BY <1>1 DEF IInv, TypeOK
  <2>2. /\ residual' \in [Invoices -> Nat] /\ paid' \in [Invoices -> Nat]
        /\ receivable' \in [Invoices -> Int]
        /\ status' \in [Invoices -> {"none", "posted", "paid", "refunded"}]
    BY <1>1, <1>2, BookPreserves
  <2> QED  BY <1>3, <2>1, <2>2 DEF IInv, TypeOK
<1>5. Sound(i)'
  <2>1. /\ residual'[i] = residual[i] - txn[s].amount /\ paid'[i] = paid[i] + txn[s].amount
        /\ receivable'[i] = residual'[i]
        /\ status[i] \notin {"none", "refunded"} /\ status'[i] \notin {"none", "refunded"}
        /\ settlement[i] # "written_off"
    BY <1>1, <1>2, BookPreserves
  <2>2. /\ txn[s].amount \in Nat /\ txn[s].amount \in 1..residual[i]
        /\ residual[i] \in Nat /\ paid[i] \in Nat /\ Total[i] \in Nat
        /\ refunded[i] \in Nat /\ returned[i] \in Nat /\ badDebt[i] \in Nat
    BY <1>1, <1>2, CommitKnows DEF Commits, Reads
  <2>3. /\ returned[i] <= paid[i]
        /\ Total[i] = residual[i] + (paid[i] - returned[i]) + refunded[i] + badDebt[i]
        /\ order[i] # "open"
        /\ order[i] = "closed" => residual[i] = 0 \/ i \in onCredit
    BY <1>1, <1>2, <2>1, CommitKnows DEF Sound
  <2>4. /\ returned[i] <= paid'[i]
        /\ Total[i] = residual'[i] + (paid'[i] - returned[i]) + refunded[i] + badDebt[i]
        /\ order[i] = "closed" => i \in onCredit
    BY <2>1, <2>2, <2>3
  <2> QED  BY <1>3, <2>1, <2>3, <2>4 DEF Sound, Ended
<1>6. \A j \in Invoices \ {i} : Same(j)
  BY <1>1, <1>2, <1>3, BookPreserves DEF Same
<1> QED  BY <1>1, <1>2, <1>4, <1>5, <1>6, CommitPreserves

LEMMA AccountPreserves ==
  ASSUME IInv, NEW s \in Sessions, PutOnAccount(s)
  PROVE  IInv'
<1>1. txn[s] # Idle /\ txn' = [txn EXCEPT ![s] = Idle] /\ txn[s].op = "account"
  BY DEF PutOnAccount, Commits
<1>2. PICK i \in Invoices : i = txn[s].invoice
  BY <1>1, CommitKnows
<1>3. Sound(i) /\ Reads(txn[s])
  BY <1>1, <1>2, CommitKnows
<1>4. TypeOK'
  BY <1>1, <1>2 DEF IInv, TypeOK, PutOnAccount, CloseOrder, moneyVars
<1>5. Sound(i)'
  <2>1. residual[i] > 0 /\ status[i] # "none" /\ ~Ended(i)
    BY <1>1, <1>2, <1>3 DEF IInv, TypeOK, Reads, Sound
  <2>2. /\ order'[i] = "closed" /\ settlement'[i] = "unsettled" /\ i \in onCredit'
        /\ UNCHANGED <<status, moneyVars>>
    BY <1>2 DEF IInv, TypeOK, PutOnAccount, CloseOrder
  <2> QED  BY <1>3, <2>1, <2>2 DEF Sound, Ended, moneyVars
<1>6. \A j \in Invoices \ {i} : Same(j)
  BY <1>2 DEF IInv, TypeOK, PutOnAccount, CloseOrder, Same, moneyVars
<1> QED  BY <1>1, <1>2, <1>4, <1>5, <1>6, CommitPreserves

LEMMA WriteOffPreserves ==
  ASSUME IInv, NEW s \in Sessions, WriteOff(s)
  PROVE  IInv'
<1>1. txn[s] # Idle /\ txn' = [txn EXCEPT ![s] = Idle] /\ txn[s].op = "writeOff"
  BY DEF WriteOff, Commits
<1>2. PICK i \in Invoices : i = txn[s].invoice
  BY <1>1, CommitKnows
<1>3. /\ Sound(i) /\ status[i] # "none" /\ txn[s].residual = residual[i]
      /\ Total[i] \in Nat /\ residual[i] \in Nat /\ paid[i] \in Nat
      /\ refunded[i] \in Nat /\ returned[i] \in Nat /\ badDebt[i] \in Nat
      /\ receivable[i] \in Int
  BY <1>1, <1>2, CommitKnows DEF Reads
<1>4. /\ residual' = [residual EXCEPT ![i] = 0]
      /\ receivable' = [receivable EXCEPT ![i] = receivable[i] - residual[i]]
      /\ badDebt' = [badDebt EXCEPT ![i] = badDebt[i] + residual[i]]
      /\ settlement' = [settlement EXCEPT ![i] = "written_off"]
      /\ order' = [order EXCEPT ![i] = "closed"]
      /\ UNCHANGED <<status, onCredit, paid, refunded, returned>>
  BY <1>2, <1>3 DEF WriteOff, CloseOrder
<1>5. TypeOK'
  BY <1>1, <1>3, <1>4 DEF IInv, TypeOK
<1>6. Sound(i)'
  <2>1. /\ order'[i] = "closed" /\ residual'[i] = 0
        /\ receivable'[i] = receivable[i] - residual[i]
        /\ badDebt'[i] = badDebt[i] + residual[i]
    BY <1>4 DEF IInv, TypeOK
  <2>2. /\ receivable[i] = residual[i] /\ returned[i] <= paid[i]
        /\ Total[i] = residual[i] + (paid[i] - returned[i]) + refunded[i] + badDebt[i]
    BY <1>3 DEF Sound
  <2>3. /\ receivable'[i] = 0
        /\ Total[i] = residual'[i] + (paid[i] - returned[i]) + refunded[i] + badDebt'[i]
    BY <1>3, <2>1, <2>2
  <2> QED  BY <1>3, <1>4, <2>1, <2>2, <2>3 DEF Sound
<1>7. \A j \in Invoices \ {i} : Same(j)
  BY <1>4 DEF IInv, TypeOK, Same
<1> QED  BY <1>1, <1>2, <1>5, <1>6, <1>7, CommitPreserves

LEMMA RefundPreserves ==
  ASSUME IInv, NEW s \in Sessions, Refund(s)
  PROVE  IInv'
<1> DEFINE x == txn[s]
           f == Forgiven(x)
<1>1. txn[s] # Idle /\ txn' = [txn EXCEPT ![s] = Idle] /\ x.op = "refund"
  BY DEF Refund, Commits
<1>2. PICK i \in Invoices : i = x.invoice
  BY <1>1, CommitKnows
<1>3. /\ Sound(i) /\ status[i] # "none"
      /\ x.residual = residual[i] /\ x.refunded = refunded[i]
      /\ status[i] # "refunded" /\ settlement[i] # "written_off"
      /\ x.amount \in 1..(Total[i] - refunded[i])
      /\ x.amount <= residual[i] + (paid[i] - returned[i])
      /\ x.amount \in Nat /\ Total[i] \in Nat /\ residual[i] \in Nat /\ paid[i] \in Nat
      /\ refunded[i] \in Nat /\ returned[i] \in Nat /\ badDebt[i] \in Nat
      /\ receivable[i] \in Int
  BY <1>1, <1>2, CommitKnows DEF Reads
<1>4. /\ f \in Nat /\ f <= residual[i] /\ f <= x.amount
      /\ f = residual[i] \/ f = x.amount
  BY <1>3 DEF Forgiven
<1> DEFINE full == refunded[i] + x.amount = Total[i]
<1>5. /\ residual' = [residual EXCEPT ![i] = residual[i] - f]
      /\ refunded' = [refunded EXCEPT ![i] = refunded[i] + x.amount]
      /\ returned' = [returned EXCEPT ![i] = returned[i] + (x.amount - f)]
      /\ receivable' = [receivable EXCEPT ![i] = receivable[i] - x.amount + (x.amount - f)]
      /\ full => /\ status' = [status EXCEPT ![i] = "refunded"]
                 /\ settlement' = [settlement EXCEPT ![i] = "settled"]
                 /\ order' = [order EXCEPT ![i] = "closed"]
      /\ ~full => UNCHANGED <<status, settlement, order>>
      /\ UNCHANGED <<onCredit, paid, badDebt>>
  BY <1>2, <1>3 DEF Refund, CloseOrder
<1> HIDE DEF x, f, full
<1>6. /\ residual[i] - f \in Nat /\ returned[i] + (x.amount - f) \in Nat
      /\ receivable[i] - x.amount + (x.amount - f) = receivable[i] - f
      /\ receivable[i] - f \in Int
  BY <1>3, <1>4
<1>7. TypeOK'
  <2>1. CASE full
    BY <1>1, <1>3, <1>5, <1>6, <2>1 DEF IInv, TypeOK
  <2>2. CASE ~full
    BY <1>1, <1>3, <1>5, <1>6, <2>2 DEF IInv, TypeOK
  <2> QED  BY <2>1, <2>2
<1>8. Sound(i)'
  <2>1. /\ residual'[i] = residual[i] - f /\ refunded'[i] = refunded[i] + x.amount
        /\ returned'[i] = returned[i] + (x.amount - f) /\ receivable'[i] = receivable[i] - f
        /\ paid'[i] = paid[i] /\ badDebt'[i] = badDebt[i] /\ onCredit' = onCredit
    BY <1>5, <1>6 DEF IInv, TypeOK
  <2>2. /\ receivable[i] = residual[i] /\ returned[i] <= paid[i]
        /\ Total[i] = residual[i] + (paid[i] - returned[i]) + refunded[i] + badDebt[i]
        /\ order[i] # "open"
        /\ order[i] = "closed" => residual[i] = 0 \/ i \in onCredit
    BY <1>3 DEF Sound
  <2>3. /\ receivable'[i] = residual'[i] /\ returned'[i] <= paid'[i]
        /\ Total[i] = residual'[i] + (paid'[i] - returned'[i]) + refunded'[i] + badDebt'[i]
    BY <1>3, <1>4, <2>1, <2>2
  <2>4. CASE full
    <3>1. residual'[i] = 0
      BY <1>3, <1>4, <2>1, <2>2, <2>4 DEF full
    <3>2. order'[i] = "closed" /\ status'[i] = "refunded"
      BY <1>5, <2>4 DEF IInv, TypeOK
    <3> QED  BY <2>3, <3>1, <3>2 DEF Sound
  <2>5. CASE ~full
    <3>1. UNCHANGED <<status, settlement, order>>
      BY <1>5, <2>5
    <3>2. residual[i] = 0 => residual'[i] = 0
      BY <1>3, <1>4, <2>1
    <3> QED  BY <1>3, <2>1, <2>2, <2>3, <3>1, <3>2 DEF Sound, Ended
  <2> QED  BY <2>4, <2>5
<1>9. \A j \in Invoices \ {i} : Same(j)
  <2>1. CASE full
    BY <1>5, <2>1 DEF IInv, TypeOK, Same
  <2>2. CASE ~full
    BY <1>5, <2>2 DEF IInv, TypeOK, Same
  <2> QED  BY <2>1, <2>2
<1> QED  BY <1>1, <1>2, <1>7, <1>8, <1>9, CommitPreserves DEF x

----------------------------------------------------------------------------
LEMMA NextPreserves == IInv /\ [Next]_vars => IInv'
<1> SUFFICES ASSUME IInv, [Next]_vars PROVE IInv'
  OBVIOUS
<1>1. CASE UNCHANGED vars
  BY <1>1 DEF IInv, TypeOK, Sound, Blank, Ended, Reads, Apart, vars, moneyVars
<1>2. ASSUME NEW i \in Invoices, NEW m \in {"tender", "credit"}, Bill(i, m)
      PROVE  IInv'
  BY <1>2, BillPreserves
<1>3. ASSUME NEW s \in Sessions, NEW op \in Operations, NEW i \in Invoices,
             NEW a \in 1..Total[i], Lock(s, op, i, a)
      PROVE  IInv'
  BY <1>3, LockPreserves
<1>4. ASSUME NEW s \in Sessions,
             Receive(s) \/ Collect(s) \/ PutOnAccount(s) \/ WriteOff(s) \/ Refund(s) \/ Rollback(s)
      PROVE  IInv'
  BY <1>4, ReceivePreserves, CollectPreserves, AccountPreserves, WriteOffPreserves,
     RefundPreserves, RollbackPreserves
<1> QED  BY <1>1, <1>2, <1>3, <1>4 DEF Next

LEMMA Inductive == Spec => []IInv
  BY InitSound, NextPreserves, PTL DEF Spec

(* Every variable of the invoices keeps its type; an amount due, paid or   *)
(* refunded is never negative ("no negative residual",                     *)
(* pos-invoice.service.ts:530).                                            *)
THEOREM TypeCorrect == Spec => []TypeOK
<1>1. IInv => TypeOK
  BY DEF IInv
<1> QED  BY <1>1, Inductive, PTL

(* The receivable account and the invoice agree, and each total is         *)
(* accounted for, however payments, refunds and write-offs overlap.        *)
THEOREM BooksAlwaysAgree == Spec => []BooksAgree
<1>1. IInv => BooksAgree
  BY DEF IInv, Sound, BooksAgree
<1> QED  BY <1>1, Inductive, PTL

(* No order is closed with money due that no customer's account carries.   *)
THEOREM ClosedAreCovered == Spec => []ClosedIsCovered
<1>1. IInv => ClosedIsCovered
  BY DEF IInv, Sound, ClosedIsCovered
<1> QED  BY <1>1, Inductive, PTL

----------------------------------------------------------------------------
KeepsMoney(i) ==
  residual'[i] = residual[i] /\ receivable'[i] = receivable[i]
  /\ returned'[i] = returned[i] /\ badDebt'[i] = badDebt[i]

LEMMA EndedIsKept ==
  ASSUME IInv, [Next]_vars, NEW i \in Invoices, Ended(i)
  PROVE  KeepsMoney(i)
<1>1. Sound(i)
  BY DEF IInv
<1>2. CASE UNCHANGED vars
  BY <1>2 DEF vars, moneyVars, KeepsMoney
<1>3. ASSUME NEW j \in Invoices, NEW m, Bill(j, m)
      PROVE  KeepsMoney(i)
  <2>1. j # i
    BY <1>1, <1>3 DEF Sound, Blank, Ended, Bill
  <2> QED  BY <1>3, <2>1 DEF IInv, TypeOK, Bill, KeepsMoney
<1>4. ASSUME NEW s \in Sessions, NEW op, NEW j, NEW a, Lock(s, op, j, a)
      PROVE  KeepsMoney(i)
  BY <1>4 DEF Lock, moneyVars, KeepsMoney
<1>5. ASSUME NEW s \in Sessions, PutOnAccount(s) \/ Rollback(s)
      PROVE  KeepsMoney(i)
  BY <1>5 DEF PutOnAccount, Rollback, moneyVars, KeepsMoney
<1>6. ASSUME NEW s \in Sessions, txn[s] # Idle,
             txn[s].op \in {"receive", "collect", "writeOff", "refund"}
      PROVE  txn[s].invoice # i
  <2>1. SUFFICES ASSUME txn[s].invoice = i PROVE FALSE
    OBVIOUS
  <2>2. Reads(txn[s]) /\ residual[i] = 0
    BY <1>1, <1>6 DEF IInv, Sound
  <2> QED  BY <1>6, <2>1, <2>2 DEF Reads, Ended
<1>7. ASSUME NEW s \in Sessions, Receive(s) \/ Collect(s)
      PROVE  KeepsMoney(i)
  <2>1. txn[s].invoice # i
    BY <1>6, <1>7 DEF Receive, Collect, Commits
  <2> QED  BY <1>7, <2>1 DEF IInv, TypeOK, Receive, Collect, Book, KeepsMoney
<1>8. ASSUME NEW s \in Sessions, WriteOff(s)
      PROVE  KeepsMoney(i)
  <2>1. txn[s].invoice # i
    BY <1>6, <1>8 DEF WriteOff, Commits
  <2> QED  BY <1>8, <2>1 DEF IInv, TypeOK, WriteOff, KeepsMoney
<1>9. ASSUME NEW s \in Sessions, Refund(s)
      PROVE  KeepsMoney(i)
  <2>1. txn[s].invoice # i
    BY <1>6, <1>9 DEF Refund, Commits
  <2> QED  BY <1>9, <2>1 DEF IInv, TypeOK, Refund, KeepsMoney
<1> QED  BY <1>2, <1>3, <1>4, <1>5, <1>7, <1>8, <1>9 DEF Next

(* Nothing that was waiting for the row moves money on an invoice that has *)
(* been refunded in full or written off.                                   *)
THEOREM EndedInvoicesStayEnded == Spec => EndedStaysEnded
<1>1. ASSUME IInv, [Next]_vars
      PROVE  [\A i \in Invoices :
                status[i] = "refunded" \/ settlement[i] = "written_off" =>
                  /\ residual'[i] = residual[i] /\ receivable'[i] = receivable[i]
                  /\ returned'[i] = returned[i] /\ badDebt'[i] = badDebt[i]]_vars
  BY <1>1, EndedIsKept DEF Ended, KeepsMoney
<1> QED  BY <1>1, Inductive, PTL DEF Spec, EndedStaysEnded

----------------------------------------------------------------------------
(* Sums over invoices.  SumFunctionOnSet adds the value of one picked      *)
(* element to the sum over the rest; the lemmas below show that it does    *)
(* not matter which.                                                       *)
Picked(T) == CHOOSE x \in T : TRUE
Rest(T) == T \ {Picked(T)}

(* What is left once the picked element is taken out is smaller by one.    *)
LEMMA RestSmaller ==
  ASSUME NEW S, IsFiniteSet(S), NEW T \in SUBSET S, T # {}
  PROVE  /\ Picked(T) \in T /\ Rest(T) \in SUBSET S
         /\ Cardinality(T) \in Nat /\ Cardinality(Rest(T)) \in Nat
         /\ Cardinality(T) = Cardinality(Rest(T)) + 1
<1>1. IsFiniteSet(T)
  BY FS_Subset
<1>2. Picked(T) \in T
  BY DEF Picked
<1>3. IsFiniteSet(Rest(T)) /\ Cardinality(Rest(T)) = Cardinality(T) - 1
  BY <1>1, <1>2, FS_RemoveElement DEF Rest
<1> QED
  BY <1>1, <1>2, <1>3, FS_CardinalityType DEF Rest

(* A set of numbers has a smallest one.                                    *)
LEMMA Smallest ==
  ASSUME NEW N, N \subseteq Nat, N # {}
  PROVE  \E n \in N : \A m \in N : ~(m < n)
<1> DEFINE Less == {p \in Nat \X Nat : p[1] < p[2]}
<1>1. Less = OpToRel(<, Nat)
  BY Zenon DEF OpToRel
<1>2. IsWellFoundedOn(Less, Nat)
  BY <1>1, NatLessThanWellFounded, Zenon
<1>3. PICK n \in N : \A m \in N : <<m, n>> \notin Less
  <2> HIDE DEF Less
  <2> QED
    BY <1>2, WFMin
<1> QED
  BY <1>3

(* A family that has each subset of a finite set as soon as it has the     *)
(* smaller ones has them all: there is no smallest one outside.            *)
LEMMA SubsetInduction ==
  ASSUME NEW S, IsFiniteSet(S), NEW Family,
         \A T \in SUBSET S : (\A U \in SUBSET T : U # T => U \in Family) => T \in Family
  PROVE  S \in Family
<1> DEFINE Outside == (SUBSET S) \ Family
           Sizes == {Cardinality(T) : T \in Outside}
<1> SUFFICES ASSUME Outside # {} PROVE FALSE
  OBVIOUS
<1>1. Sizes \subseteq Nat /\ Sizes # {}
  BY FS_Subset, FS_CardinalityType
<1>2. PICK n \in Sizes : \A m \in Sizes : ~(m < n)
  <2> HIDE DEF Sizes
  <2> QED
    BY <1>1, Smallest
<1>3. PICK T \in Outside : n = Cardinality(T)
  BY <1>2
<1>4. PICK U \in SUBSET T : U # T /\ U \notin Family
  BY <1>3
<1>5. Cardinality(U) < Cardinality(T)
  BY <1>4, FS_Subset, FS_CardinalityType
<1>6. Cardinality(U) \in Sizes
  BY <1>4
<1> QED
  BY <1>2, <1>3, <1>5, <1>6

(* The recursion by which a sum is defined has a solution: one that is     *)
(* right for all sets of at most n elements extends to n + 1.              *)
LEMMA SumUnfolds ==
  ASSUME NEW f, NEW S, IsFiniteSet(S)
  PROVE  \E sum : /\ sum[{}] = 0
                  /\ \A T \in SUBSET S : T # {} => sum[T] = f[Picked(T)] + sum[Rest(T)]
                  /\ SumFunctionOnSet(f, S) = sum[S]
<1> DEFINE Term(g, T) == IF T = {} THEN 0 ELSE f[Picked(T)] + g[Rest(T)]
           Upto(n) == {T \in SUBSET S : Cardinality(T) <= n}
           Solved == {U \in SUBSET S :
                        \E g : g = [T \in Upto(Cardinality(U)) |-> Term(g, T)]}
<1>1. {} \in Solved
  <2> DEFINE g == [T \in Upto(0) |-> 0]
  <2>1. \A T \in Upto(0) : T = {}
    BY RestSmaller
  <2>2. g = [T \in Upto(0) |-> Term(g, T)]
    BY <2>1
  <2> QED
    BY <2>2, FS_EmptySet
<1>2. ASSUME NEW U \in SUBSET S, U # {}, Rest(U) \in Solved
      PROVE  U \in Solved
  <2> DEFINE n == Cardinality(Rest(U))
  <2>1. n \in Nat /\ Cardinality(U) = n + 1
    BY <1>2, RestSmaller
  <2>2. PICK g : g = [T \in Upto(n) |-> Term(g, T)]
    BY <1>2
  <2> DEFINE h == [T \in Upto(n + 1) |-> Term(g, T)]
  <2>3. ASSUME NEW T \in Upto(n + 1), T # {}
        PROVE  Rest(T) \in Upto(n)
    BY <2>1, <2>3, RestSmaller
  <2>4. \A T \in Upto(n) : T \in Upto(n + 1) /\ h[T] = g[T]
    BY <2>1, <2>2, FS_Subset, FS_CardinalityType
  <2>5. h = [T \in Upto(n + 1) |-> Term(h, T)]
    <3>1. ASSUME NEW T \in Upto(n + 1)
          PROVE  Term(g, T) = Term(h, T)
      BY <2>3, <2>4
    <3> QED
      BY <3>1
  <2>6. \E k : k = [T \in Upto(Cardinality(U)) |-> Term(k, T)]
    <3> HIDE DEF h, Term, Upto
    <3> QED
      BY <2>1, <2>5
  <2> QED
    BY <2>6
<1>3. S \in Solved
  <2> HIDE DEF Solved
  <2>1. ASSUME NEW T \in SUBSET S, \A U \in SUBSET T : U # T => U \in Solved
        PROVE  T \in Solved
    <3>1. T # {} => Rest(T) \in SUBSET T /\ Rest(T) # T
      BY RestSmaller DEF Rest
    <3> QED
      BY <1>1, <1>2, <2>1, <3>1
  <2> QED
    BY <2>1, SubsetInduction
<1>4. Upto(Cardinality(S)) = SUBSET S
  BY FS_Subset
<1> DEFINE sum == CHOOSE g : g = [T \in SUBSET S |-> Term(g, T)]
<1>5. sum = [T \in SUBSET S |-> Term(sum, T)]
  BY <1>3, <1>4
<1>6. SumFunctionOnSet(f, S) = sum[S]
  BY DEF SumFunctionOnSet, FoldFunctionOnSet, MapThenFoldSet, Picked, Rest
<1> QED
  BY <1>5, <1>6

(* A solution of the recursion gives the sum over every subset.            *)
LEMMA SumOfRest ==
  ASSUME NEW f, NEW S, IsFiniteSet(S)
  PROVE  /\ SumFunctionOnSet(f, {}) = 0
         /\ S # {} => SumFunctionOnSet(f, S) = f[Picked(S)] + SumFunctionOnSet(f, Rest(S))
<1>1. ASSUME NEW U \in SUBSET S, NEW F,
             F[{}] = 0, \A T \in SUBSET S : T # {} => F[T] = f[Picked(T)] + F[Rest(T)]
      PROVE  SumFunctionOnSet(f, U) = F[U]
  <2>1. IsFiniteSet(U)
    BY FS_Subset
  <2>2. PICK G : /\ G[{}] = 0
                 /\ \A T \in SUBSET U : T # {} => G[T] = f[Picked(T)] + G[Rest(T)]
                 /\ SumFunctionOnSet(f, U) = G[U]
    BY <2>1, SumUnfolds
  <2> DEFINE Agreed == {T \in SUBSET U : F[T] = G[T]}
  <2>3. ASSUME NEW T \in SUBSET U, \A V \in SUBSET T : V # T => V \in Agreed
        PROVE  T \in Agreed
    <3>1. CASE T = {}
      BY <1>1, <2>2, <3>1
    <3>2. CASE T # {}
      <4>1. Rest(T) \in SUBSET T /\ Rest(T) # T
        BY <2>1, <3>2, RestSmaller DEF Rest
      <4> QED
        BY <1>1, <2>2, <2>3, <3>2, <4>1
    <3> QED
      BY <3>1, <3>2
  <2>4. U \in Agreed
    <3> HIDE DEF Agreed
    <3> QED
      BY <2>1, <2>3, SubsetInduction
  <2> QED
    BY <2>2, <2>4
<1>2. PICK F : /\ F[{}] = 0
               /\ \A T \in SUBSET S : T # {} => F[T] = f[Picked(T)] + F[Rest(T)]
               /\ SumFunctionOnSet(f, S) = F[S]
  BY SumUnfolds
<1>3. \A U \in SUBSET S : SumFunctionOnSet(f, U) = F[U]
  BY <1>1, <1>2
<1>4. Rest(S) \in SUBSET S /\ {} \in SUBSET S
  BY DEF Rest
<1> QED
  BY <1>2, <1>3, <1>4

(* A sum is a number, and any element can be the first to be added.        *)
LEMMA SumExtracts ==
  ASSUME NEW f, NEW S, IsFiniteSet(S), \A x \in S : f[x] \in Int
  PROVE  /\ SumFunctionOnSet(f, S) \in Int
         /\ \A y \in S : SumFunctionOnSet(f, S) = f[y] + SumFunctionOnSet(f, S \ {y})
<1> DEFINE Sum(T) == SumFunctionOnSet(f, T)
           Free == {T \in SUBSET S : /\ Sum(T) \in Int
                                     /\ \A y \in T : Sum(T) = f[y] + Sum(T \ {y})}
<1> HIDE DEF Sum
<1>1. \A T \in SUBSET S : T # {} => Sum(T) = f[Picked(T)] + Sum(Rest(T))
  BY SumOfRest, FS_Subset DEF Sum
<1>2. Sum({}) = 0
  BY SumOfRest DEF Sum
<1>3. ASSUME NEW T \in SUBSET S, \A U \in SUBSET T : U # T => U \in Free
      PROVE  T \in Free
  <2>1. CASE T = {}
    BY <1>2, <2>1
  <2>2. CASE T # {}
    <3> DEFINE p == Picked(T)
    <3>1. p \in T /\ Rest(T) = T \ {p} /\ Rest(T) \in Free
      <4>1. p \in T /\ Rest(T) = T \ {p}
        BY <2>2, RestSmaller DEF Rest
      <4>2. Rest(T) \in SUBSET T /\ Rest(T) # T
        BY <4>1
      <4> QED
        BY <1>3, <4>1, <4>2
    <3>2. Sum(T) = f[p] + Sum(Rest(T)) /\ f[p] \in Int /\ Sum(Rest(T)) \in Int
      BY <1>1, <2>2, <3>1
    <3>3. ASSUME NEW y \in T, y # p
          PROVE  Sum(T) = f[y] + Sum(T \ {y})
      <4>1. Sum(Rest(T)) = f[y] + Sum(Rest(T) \ {y})
        BY <3>1, <3>3
      <4>2. T \ {y} \in Free /\ p \in T \ {y}
        BY <1>3, <3>1, <3>3
      <4>3. Sum(T \ {y}) = f[p] + Sum((T \ {y}) \ {p})
        BY <4>2
      <4>4. (T \ {y}) \ {p} = Rest(T) \ {y} /\ Rest(T) \ {y} \in Free
        BY <1>3, <3>1
      <4>5. f[y] \in Int /\ Sum(Rest(T) \ {y}) \in Int
        BY <4>4
      <4>6. Sum((T \ {y}) \ {p}) = Sum(Rest(T) \ {y})
        BY <4>4
      <4> HIDE DEF p, Free
      <4> QED
        BY <3>2, <4>1, <4>3, <4>5, <4>6
    <3>4. Sum(T) \in Int /\ Sum(T) = f[p] + Sum(T \ {p})
      BY <3>1, <3>2
    <3> QED
      BY <3>3, <3>4
  <2> QED
    BY <2>1, <2>2
<1>4. S \in Free
  <2> HIDE DEF Free
  <2> QED
    BY <1>3, SubsetInduction
<1> QED
  BY <1>4 DEF Sum

(* A sum is at most another one whose values are not negative if each of   *)
(* its terms is at most nothing or the term of the other.                  *)
LEMMA SumBound ==
  ASSUME NEW f, NEW S, IsFiniteSet(S), \A x \in S : f[x] \in Int,
         NEW g, NEW T, IsFiniteSet(T), \A x \in T : g[x] \in Nat,
         \A x \in S : f[x] <= 0 \/ (x \in T /\ f[x] <= g[x])
  PROVE  SumFunctionOnSet(f, S) <= SumFunctionOnSet(g, T)
<1> DEFINE F(U) == SumFunctionOnSet(f, U \cap S)
           G(U) == SumFunctionOnSet(g, U \cap T)
           Bounded == {U \in SUBSET (S \cup T) : F(U) <= G(U)}
<1> HIDE DEF F, G
<1>1. IsFiniteSet(S \cup T)
  BY FS_Union
<1>2. ASSUME NEW U \in SUBSET (S \cup T)
      PROVE  /\ F(U) \in Int
             /\ \A y \in U : /\ y \in S => F(U) = f[y] + F(U \ {y})
                             /\ y \notin S => F(U) = F(U \ {y})
  <2>1. IsFiniteSet(U \cap S) /\ \A x \in U \cap S : f[x] \in Int
    BY FS_Subset
  <2>2. \A y \in U : /\ (U \ {y}) \cap S = (U \cap S) \ {y}
                     /\ y \notin S => (U \ {y}) \cap S = U \cap S
    OBVIOUS
  <2>3. /\ SumFunctionOnSet(f, U \cap S) \in Int
        /\ \A y \in U \cap S : SumFunctionOnSet(f, U \cap S)
                                 = f[y] + SumFunctionOnSet(f, (U \cap S) \ {y})
    BY <2>1, SumExtracts
  <2> QED
    BY <2>2, <2>3 DEF F
<1>6. ASSUME NEW U \in SUBSET (S \cup T)
      PROVE  /\ G(U) \in Int
             /\ \A y \in U : /\ y \in T => G(U) = g[y] + G(U \ {y})
                             /\ y \notin T => G(U) = G(U \ {y})
  <2>1. IsFiniteSet(U \cap T) /\ \A x \in U \cap T : g[x] \in Int
    BY FS_Subset
  <2>2. \A y \in U : /\ (U \ {y}) \cap T = (U \cap T) \ {y}
                     /\ y \notin T => (U \ {y}) \cap T = U \cap T
    OBVIOUS
  <2>3. /\ SumFunctionOnSet(g, U \cap T) \in Int
        /\ \A y \in U \cap T : SumFunctionOnSet(g, U \cap T)
                                 = g[y] + SumFunctionOnSet(g, (U \cap T) \ {y})
    BY <2>1, SumExtracts
  <2> QED
    BY <2>2, <2>3 DEF G
<1>3. ASSUME NEW U \in SUBSET (S \cup T), \A V \in SUBSET U : V # U => V \in Bounded
      PROVE  U \in Bounded
  <2>1. CASE U = {}
    <3>1. F(U) = 0 /\ G(U) = 0
      BY <2>1, SumOfRest DEF F, G
    <3> QED
      BY <3>1
  <2>2. CASE U # {}
    <3>1. PICK y \in U : TRUE
      BY <2>2
    <3>2. U \ {y} \in SUBSET (S \cup T) /\ F(U \ {y}) <= G(U \ {y})
      BY <1>3
    <3>3. /\ F(U) \in Int /\ G(U) \in Int /\ F(U \ {y}) \in Int /\ G(U \ {y}) \in Int
          /\ y \in S => F(U) = f[y] + F(U \ {y}) /\ f[y] \in Int
          /\ y \notin S => F(U) = F(U \ {y})
          /\ y \in T => G(U) = g[y] + G(U \ {y}) /\ g[y] \in Nat
          /\ y \notin T => G(U) = G(U \ {y})
          /\ y \in S => f[y] <= 0 \/ (y \in T /\ f[y] <= g[y])
      BY <1>2, <1>6, <3>2
    <3>4. F(U) <= G(U)
      BY <3>2, <3>3
    <3> QED
      BY <3>4
  <2> QED
    BY <2>1, <2>2
<1>4. S \cup T \in Bounded
  <2> HIDE DEF Bounded
  <2> QED
    BY <1>1, <1>3, SubsetInduction
<1>5. (S \cup T) \cap S = S /\ (S \cup T) \cap T = T
  OBVIOUS
<1> QED
  BY <1>4, <1>5 DEF F, G

----------------------------------------------------------------------------
(* The customer's account.                                                 *)
Limited(p) == Limit[p] > 0 \/ ~AllowUnlimited

SettledIsPaid == \A i \in Invoices : settlement[i] = "settled" => residual[i] = 0

OnItsWay(s) == txn[s] # Idle /\ txn[s].op = "account"

(* A sale that is on its way to an account still fits on it, because no    *)
(* other sale is on its way to the same account.                           *)
Fits(x) ==
  LET p == Customer[x.invoice] IN
    Limited(p) => SumFunctionOnSet(residual, OnAccount(p)) + residual[x.invoice] <= Limit[p]

OnePerAccount ==
  \A s, u \in Sessions :
    OnItsWay(s) /\ OnItsWay(u) /\ Customer[txn[s].invoice] = Customer[txn[u].invoice] => s = u

CreditInv ==
  /\ IInv
  /\ IsFiniteSet(onCredit)
  /\ SettledIsPaid
  /\ \A s \in Sessions : OnItsWay(s) => Fits(txn[s])
  /\ OnePerAccount
  /\ CreditWithinLimit

(* What is on an account is finite, and so is what it comes to.            *)
LEMMA AccountIsFinite ==
  ASSUME IInv, IsFiniteSet(onCredit), NEW p
  PROVE  /\ IsFiniteSet(OnAccount(p)) /\ OnAccount(p) \subseteq Invoices
         /\ \A i \in Invoices : residual[i] \in Nat
         /\ SumFunctionOnSet(residual, OnAccount(p)) \in Int
<1>1. OnAccount(p) \subseteq onCredit /\ OnAccount(p) \subseteq Invoices
  BY DEF OnAccount, IInv, TypeOK
<1>2. \A i \in Invoices : residual[i] \in Nat
  BY DEF IInv, TypeOK
<1>3. IsFiniteSet(OnAccount(p))
  BY <1>1, FS_Subset
<1>4. SumFunctionOnSet(residual, OnAccount(p)) \in Int
  BY <1>1, <1>2, <1>3, SumExtracts
<1> QED
  BY <1>1, <1>2, <1>3, <1>4

(* No invoice comes to an account with anything due on it.                 *)
NoneAdded ==
  \A j \in Invoices :
    j \in onCredit' /\ order'[j] = "closed" =>
      \/ residual'[j] = 0
      \/ j \in onCredit /\ order[j] = "closed" /\ residual'[j] <= residual[j]

LEMMA AccountsDoNotGrow ==
  ASSUME IInv, IInv', IsFiniteSet(onCredit), IsFiniteSet(onCredit'), NoneAdded, NEW p
  PROVE  /\ SumFunctionOnSet(residual, OnAccount(p)) \in Int
         /\ SumFunctionOnSet(residual, OnAccount(p))' \in Int
         /\ SumFunctionOnSet(residual, OnAccount(p))' <= SumFunctionOnSet(residual, OnAccount(p))
<1>1. /\ IsFiniteSet(OnAccount(p)) /\ OnAccount(p) \subseteq Invoices
      /\ \A i \in Invoices : residual[i] \in Nat
      /\ SumFunctionOnSet(residual, OnAccount(p)) \in Int
  BY AccountIsFinite
<1>2. /\ IsFiniteSet(OnAccount(p)') /\ OnAccount(p)' \subseteq Invoices
      /\ \A i \in Invoices : residual'[i] \in Nat
      /\ SumFunctionOnSet(residual, OnAccount(p))' \in Int
  <2>1. OnAccount(p)' \subseteq onCredit' /\ OnAccount(p)' \subseteq Invoices
    BY DEF OnAccount, IInv, TypeOK
  <2>2. \A i \in Invoices : residual'[i] \in Nat
    BY DEF IInv, TypeOK
  <2>3. IsFiniteSet(OnAccount(p)')
    BY <2>1, FS_Subset
  <2>4. SumFunctionOnSet(residual', OnAccount(p)') \in Int
    BY <2>1, <2>2, <2>3, SumExtracts
  <2> QED
    BY <2>1, <2>2, <2>3, <2>4
<1>3. \A j \in OnAccount(p)' : \/ residual'[j] <= 0
                               \/ j \in OnAccount(p) /\ residual'[j] <= residual[j]
  BY <1>2 DEF NoneAdded, OnAccount
<1>4. SumFunctionOnSet(residual', OnAccount(p)') <= SumFunctionOnSet(residual, OnAccount(p))
  <2>1. \A i \in Invoices : residual'[i] \in Int
    BY <1>2
  <2> QED
    BY <1>1, <1>2, <1>3, <2>1, SumBound
<1> QED
  BY <1>1, <1>2, <1>4

(* A step that puts nothing on an account, and lets no session set out to. *)
LEMMA QuietStep ==
  ASSUME CreditInv, IInv', IsFiniteSet(onCredit'), SettledIsPaid', NoneAdded,
         \A s \in Sessions : OnItsWay(s)' => OnItsWay(s) /\ txn'[s] = txn[s],
         \A j \in Invoices : status[j] # "none" => residual'[j] <= residual[j]
  PROVE  CreditInv'
<1>1. Limit \in [Partners -> Nat] /\ Customer \in [Invoices -> Partners]
  BY PosInvoiceAssumption
<1>2. CreditWithinLimit'
  <2> SUFFICES ASSUME NEW p \in Partners, Limited(p)
               PROVE  SumFunctionOnSet(residual, OnAccount(p))' <= Limit[p]
    BY DEF CreditWithinLimit, Limited
  <2>1. SumFunctionOnSet(residual, OnAccount(p)) <= Limit[p]
    BY DEF CreditInv, CreditWithinLimit, Limited
  <2> QED
    BY <1>1, <2>1, AccountsDoNotGrow DEF CreditInv
<1>3. ASSUME NEW s \in Sessions, OnItsWay(s)'
      PROVE  Fits(txn[s])'
  <2>1. OnItsWay(s) /\ txn'[s] = txn[s]
    BY <1>3
  <2>2. PICK i \in Invoices, p \in Partners : i = txn[s].invoice /\ p = Customer[i]
    BY <1>1, <2>1, BusyIsRequest DEF CreditInv, IInv, OnItsWay
  <2>3. Fits(txn[s]) /\ Reads(txn[s])
    BY <2>1 DEF CreditInv, IInv, OnItsWay
  <2>4. residual'[i] <= residual[i] /\ residual[i] \in Nat /\ residual'[i] \in Nat
    BY <2>2, <2>3 DEF Reads, CreditInv, IInv, TypeOK
  <2> SUFFICES ASSUME Limited(p)
               PROVE  SumFunctionOnSet(residual, OnAccount(p))' + residual'[i] <= Limit[p]
    BY <2>1, <2>2 DEF Fits, Limited
  <2>5. SumFunctionOnSet(residual, OnAccount(p)) + residual[i] <= Limit[p]
    BY <2>2, <2>3 DEF Fits
  <2>6. /\ SumFunctionOnSet(residual, OnAccount(p)) \in Int
        /\ SumFunctionOnSet(residual, OnAccount(p))' \in Int
        /\ SumFunctionOnSet(residual, OnAccount(p))' <= SumFunctionOnSet(residual, OnAccount(p))
    BY AccountsDoNotGrow DEF CreditInv
  <2> QED
    BY <1>1, <2>4, <2>5, <2>6
<1>4. OnePerAccount'
  BY DEF CreditInv, OnePerAccount, OnItsWay
<1> QED
  BY <1>2, <1>3, <1>4 DEF CreditInv

(* The actions.                                                            *)
LEMMA LockKeepsCredit ==
  ASSUME CreditInv, NEW s \in Sessions, NEW op \in Operations, NEW i \in Invoices,
         NEW a \in 1..Total[i], Lock(s, op, i, a)
  PROVE  CreditInv'
<1>1. IInv'
  BY LockPreserves DEF CreditInv
<1>2. /\ UNCHANGED <<order, status, settlement, onCredit, residual>>
      /\ \A u \in Sessions \ {s} : txn'[u] = txn[u]
      /\ txn'[s].op = op /\ txn'[s].invoice = i
      /\ Accepts(op, i, a)
  BY DEF Lock, moneyVars, CreditInv, IInv, TypeOK
<1>3. SettledIsPaid' /\ IsFiniteSet(onCredit') /\ NoneAdded
  <2>1. \A j \in Invoices : residual[j] \in Nat
    BY DEF CreditInv, IInv, TypeOK
  <2> QED
    BY <1>2, <2>1 DEF CreditInv, SettledIsPaid, NoneAdded
<1>4. CASE op # "account"
  <2>1. ASSUME NEW u \in Sessions, OnItsWay(u)'
        PROVE  OnItsWay(u) /\ txn'[u] = txn[u]
    BY <1>2, <1>4, <2>1 DEF OnItsWay
  <2>2. \A j \in Invoices : residual'[j] <= residual[j]
    BY <1>2 DEF CreditInv, IInv, TypeOK
  <2> QED
    BY <1>1, <1>3, <2>1, <2>2, QuietStep
<1>5. CASE op = "account"
  <2>1. PICK p \in Partners : p = Customer[i]
    BY PosInvoiceAssumption
  <2>2. /\ a = residual[i] /\ CreditAllowed(p, a)
        /\ \A u \in Busy : txn[u].op = "account" => Customer[txn[u].invoice] # p
    BY <1>2, <1>5, <2>1 DEF Accepts, PartnerFree
  <2>3. CreditWithinLimit'
    BY <1>2 DEF CreditInv, CreditWithinLimit, OnAccount
  <2>4. OnePerAccount'
    BY <1>2, <2>1, <2>2 DEF CreditInv, OnePerAccount, OnItsWay, Busy
  <2>5. Fits(txn[s])'
    <3> SUFFICES ASSUME Limited(p)
                 PROVE  SumFunctionOnSet(residual, OnAccount(p)) + residual[i] <= Limit[p]
      BY <1>2, <2>1 DEF Fits, Limited, OnAccount
    <3> DEFINE owing == {j \in onCredit : /\ Customer[j] = p
                                          /\ settlement[j] \in {"unsettled", "partially_settled"}}
    <3>1. SumFunctionOnSet(residual, owing) + residual[i] <= Limit[p]
      BY <2>2, PosInvoiceAssumption DEF CreditAllowed, Limited, Outstanding
    <3>2. /\ IsFiniteSet(OnAccount(p)) /\ OnAccount(p) \subseteq Invoices
          /\ \A j \in Invoices : residual[j] \in Nat
          /\ SumFunctionOnSet(residual, OnAccount(p)) \in Int
      BY AccountIsFinite DEF CreditInv
    <3>3. IsFiniteSet(owing) /\ owing \subseteq Invoices
      BY FS_Subset DEF CreditInv, IInv, TypeOK
    <3>4. ASSUME NEW j \in OnAccount(p)
          PROVE  residual[j] <= 0 \/ (j \in owing /\ residual[j] <= residual[j])
      <4>1. j \in Invoices /\ j \in onCredit /\ Customer[j] = p /\ residual[j] \in Nat
        BY <3>2 DEF OnAccount
      <4>2. settlement[j] \in {"settled", "written_off"} => residual[j] = 0
        BY <4>1 DEF CreditInv, IInv, SettledIsPaid, Sound, Ended
      <4>3. settlement[j] \in {"unsettled", "partially_settled", "settled", "written_off"}
        BY <4>1 DEF CreditInv, IInv, TypeOK
      <4> QED
        BY <4>1, <4>2, <4>3
    <3> HIDE DEF owing
    <3>5. SumFunctionOnSet(residual, OnAccount(p)) <= SumFunctionOnSet(residual, owing)
      <4>1. \A j \in Invoices : residual[j] \in Int
        BY <3>2
      <4> QED
        BY <3>2, <3>3, <3>4, <4>1, SumBound
    <3>6. SumFunctionOnSet(residual, owing) \in Int
      BY <3>2, <3>3, SumExtracts
    <3>7. Limit[p] \in Int /\ residual[i] \in Int
      BY <3>2, PosInvoiceAssumption
    <3> QED
      BY <3>1, <3>2, <3>5, <3>6, <3>7
  <2>6. ASSUME NEW u \in Sessions, OnItsWay(u)'
        PROVE  Fits(txn[u])'
    <3>1. CASE u = s
      BY <2>5, <3>1
    <3>2. CASE u # s
      <4>1. txn'[u] = txn[u] /\ OnItsWay(u) /\ Fits(txn[u])
        BY <1>2, <2>6, <3>2 DEF CreditInv, OnItsWay
      <4> QED
        BY <1>2, <4>1 DEF Fits, OnAccount, Limited
    <3> QED
      BY <3>1, <3>2
  <2> QED
    BY <1>1, <1>3, <2>3, <2>4, <2>6 DEF CreditInv
<1> QED
  BY <1>4, <1>5

LEMMA BillKeepsCredit ==
  ASSUME CreditInv, NEW i \in Invoices, NEW m, Bill(i, m)
  PROVE  CreditInv'
<1>1. IInv'
  BY BillPreserves DEF CreditInv
<1>2. status[i] = "none" /\ settlement[i] = "unsettled"
  BY DEF CreditInv, IInv, Sound, Blank, Bill
<1>3. /\ UNCHANGED <<settlement, txn>> /\ onCredit' \subseteq onCredit \cup {i}
      /\ order'[i] = "billed"
      /\ \A j \in Invoices \ {i} : order'[j] = order[j] /\ residual'[j] = residual[j]
      /\ \A j \in Invoices : residual[j] \in Nat
  BY DEF CreditInv, IInv, TypeOK, Bill
<1>4. IsFiniteSet(onCredit')
  <2>1. IsFiniteSet(onCredit \cup {i})
    BY FS_AddElement DEF CreditInv
  <2> QED
    BY <1>3, <2>1, FS_Subset
<1>5. SettledIsPaid' /\ NoneAdded
  BY <1>2, <1>3 DEF CreditInv, SettledIsPaid, NoneAdded
<1> QED
  BY <1>1, <1>2, <1>3, <1>4, <1>5, QuietStep DEF OnItsWay

(* Nothing is due any more on an invoice that a payment, a write-off or a  *)
(* refund settles or whose order it closes.                                *)
LEMMA CommitSettles ==
  ASSUME IInv, NEW s \in Sessions, SettledIsPaid,
         Receive(s) \/ Collect(s) \/ WriteOff(s) \/ Refund(s)
  PROVE  /\ UNCHANGED onCredit /\ txn' = [txn EXCEPT ![s] = Idle]
         /\ \A j \in Invoices : /\ residual'[j] <= residual[j]
                                /\ order'[j] = "closed" => order[j] = "closed" \/ residual'[j] = 0
                                /\ settlement'[j] = "settled" => residual'[j] = 0
<1>1. txn[s] # Idle /\ txn' = [txn EXCEPT ![s] = Idle]
  BY DEF Receive, Collect, WriteOff, Refund, Commits
<1>2. PICK i \in Invoices : i = txn[s].invoice
  BY <1>1, CommitKnows
<1>3. /\ Sound(i) /\ Reads(txn[s]) /\ txn[s].amount \in Nat
      /\ residual[i] \in Nat /\ Total[i] \in Nat /\ paid[i] \in Nat
      /\ refunded[i] \in Nat /\ returned[i] \in Nat /\ badDebt[i] \in Nat
  BY <1>1, <1>2, CommitKnows
<1>4. \A j \in Invoices : residual[j] \in Nat
  BY DEF IInv, TypeOK
<1>5. CASE Receive(s)
  <2>1. /\ residual'[i] = residual[i] - txn[s].amount
        /\ txn[s].amount = txn[s].residual <=> residual'[i] = 0
        /\ \A j \in Invoices \ {i} : residual'[j] = residual[j]
    BY <1>2, <1>5, BookPreserves DEF Receive
  <2>2. /\ residual'[i] # 0 => settlement'[i] # "settled" /\ order'[i] = order[i]
        /\ \A j \in Invoices \ {i} : order'[j] = order[j] /\ settlement'[j] = settlement[j]
        /\ UNCHANGED onCredit
    <3>1. CASE txn[s].amount = txn[s].residual
      BY <1>2, <1>5, <2>1, <3>1 DEF IInv, TypeOK, Receive, CloseOrder
    <3>2. CASE txn[s].amount # txn[s].residual
      BY <1>2, <1>5, <2>1, <3>2 DEF IInv, TypeOK, Receive
    <3> QED
      BY <3>1, <3>2
  <2>3. residual'[i] <= residual[i]
    BY <1>3, <2>1
  <2> QED
    BY <1>1, <1>4, <2>1, <2>2, <2>3 DEF SettledIsPaid
<1>6. CASE Collect(s)
  <2>1. /\ residual'[i] = residual[i] - txn[s].amount
        /\ \A j \in Invoices \ {i} : residual'[j] = residual[j]
    BY <1>2, <1>6, BookPreserves DEF Collect
  <2>2. UNCHANGED <<order, settlement, onCredit>>
    BY <1>6 DEF Collect
  <2>3. txn[s].amount \in 1..residual[i]
    BY <1>2, <1>3, <1>6 DEF Reads, Collect, Commits
  <2>4. residual'[i] <= residual[i] /\ settlement[i] # "settled"
    BY <1>3, <2>1, <2>3 DEF SettledIsPaid
  <2> QED
    BY <1>1, <1>4, <2>1, <2>2, <2>4 DEF SettledIsPaid
<1>7. CASE WriteOff(s)
  BY <1>1, <1>2, <1>4, <1>7 DEF IInv, TypeOK, WriteOff, CloseOrder, SettledIsPaid
<1>8. CASE Refund(s)
  <2>1. Sound(i)'
    BY <1>8, RefundPreserves DEF IInv
  <2> DEFINE f == Forgiven(txn[s])
  <2>2. f \in Nat /\ f <= residual[i]
    BY <1>2, <1>3 DEF Forgiven, Reads
  <2>3. residual' = [residual EXCEPT ![i] = residual[i] - f] /\ UNCHANGED onCredit
    BY <1>2, <1>3, <1>8 DEF Refund, Reads
  <2> HIDE DEF f
  <2>4. /\ residual'[i] <= residual[i]
        /\ residual[i] = 0 => residual'[i] = 0
        /\ \A j \in Invoices \ {i} : residual'[j] = residual[j]
    <3>1. residual'[i] = residual[i] - f /\ residual'[i] \in Nat
      BY <1>3, <2>2, <2>3 DEF IInv, TypeOK
    <3> QED
      BY <1>3, <2>2, <2>3, <3>1 DEF IInv, TypeOK
  <2>5. CASE UNCHANGED <<status, settlement, order>>
    BY <1>1, <1>4, <2>3, <2>4, <2>5 DEF SettledIsPaid
  <2>6. CASE ~UNCHANGED <<status, settlement, order>>
    <3>1. /\ status' = [status EXCEPT ![i] = "refunded"]
          /\ settlement' = [settlement EXCEPT ![i] = "settled"]
          /\ order' = [order EXCEPT ![i] = "closed"]
      BY <1>2, <1>8, <2>6 DEF Refund, CloseOrder
    <3>2. status'[i] = "refunded"
      BY <3>1 DEF IInv, TypeOK
    <3>3. residual'[i] = 0
      BY <2>1, <3>2 DEF Sound, Ended
    <3> QED
      BY <1>1, <1>4, <2>3, <2>4, <3>1, <3>3 DEF IInv, TypeOK, SettledIsPaid
  <2> QED
    BY <2>5, <2>6
<1> QED
  BY <1>5, <1>6, <1>7, <1>8

LEMMA CommitKeepsCredit ==
  ASSUME CreditInv, NEW s \in Sessions,
         Receive(s) \/ Collect(s) \/ WriteOff(s) \/ Refund(s)
  PROVE  CreditInv'
<1>1. IInv'
  BY ReceivePreserves, CollectPreserves, WriteOffPreserves, RefundPreserves DEF CreditInv
<1>2. /\ UNCHANGED onCredit /\ txn' = [txn EXCEPT ![s] = Idle]
      /\ \A j \in Invoices : /\ residual'[j] <= residual[j]
                             /\ order'[j] = "closed" => order[j] = "closed" \/ residual'[j] = 0
                             /\ settlement'[j] = "settled" => residual'[j] = 0
  BY CommitSettles DEF CreditInv
<1>3. SettledIsPaid' /\ NoneAdded /\ IsFiniteSet(onCredit')
  BY <1>2 DEF CreditInv, SettledIsPaid, NoneAdded
<1>4. ASSUME NEW u \in Sessions, OnItsWay(u)'
      PROVE  OnItsWay(u) /\ txn'[u] = txn[u]
  BY <1>2, <1>4 DEF CreditInv, IInv, TypeOK, OnItsWay
<1> QED
  BY <1>1, <1>2, <1>3, <1>4, QuietStep

(* The sale that was on its way is on the account now, and it fitted.      *)
LEMMA AccountKeepsCredit ==
  ASSUME CreditInv, NEW s \in Sessions, PutOnAccount(s)
  PROVE  CreditInv'
<1>1. IInv'
  BY AccountPreserves DEF CreditInv
<1>2. OnItsWay(s) /\ txn' = [txn EXCEPT ![s] = Idle]
  BY DEF PutOnAccount, Commits, OnItsWay
<1>3. PICK i \in Invoices, p \in Partners : i = txn[s].invoice /\ p = Customer[i]
  BY <1>2, BusyIsRequest, PosInvoiceAssumption DEF CreditInv, IInv, OnItsWay
<1>4. /\ onCredit' = onCredit \cup {i} /\ residual' = residual
      /\ order' = [order EXCEPT ![i] = "closed"]
      /\ settlement' = [settlement EXCEPT ![i] = "unsettled"]
  BY <1>3 DEF PutOnAccount, CloseOrder, moneyVars
<1>5. IsFiniteSet(onCredit') /\ SettledIsPaid'
  BY <1>4, FS_AddElement DEF CreditInv, IInv, TypeOK, SettledIsPaid
<1>6. ASSUME NEW q, q # p
      PROVE  OnAccount(q)' = OnAccount(q)
  BY <1>3, <1>4, <1>6 DEF CreditInv, IInv, TypeOK, OnAccount
<1>7. OnAccount(p)' = OnAccount(p) \cup {i}
  BY <1>3, <1>4 DEF CreditInv, IInv, TypeOK, OnAccount
<1>8. CreditWithinLimit'
  <2> SUFFICES ASSUME NEW q \in Partners, Limited(q)
               PROVE  SumFunctionOnSet(residual, OnAccount(q)') <= Limit[q]
    BY <1>4 DEF CreditWithinLimit, Limited
  <2>1. SumFunctionOnSet(residual, OnAccount(q)) <= Limit[q]
    BY DEF CreditInv, CreditWithinLimit, Limited
  <2>2. CASE q # p
    BY <1>6, <2>1, <2>2
  <2>3. CASE q = p
    <3> DEFINE before == OnAccount(p)
               after == OnAccount(p)'
    <3>1. /\ IsFiniteSet(before) /\ before \subseteq Invoices
          /\ \A j \in Invoices : residual[j] \in Nat
          /\ SumFunctionOnSet(residual, before) \in Int
      BY AccountIsFinite DEF CreditInv
    <3>2. SumFunctionOnSet(residual, before) + residual[i] <= Limit[p]
      BY <1>2, <1>3, <2>3 DEF CreditInv, Fits
    <3>3. after = before \cup {i}
      BY <1>7
    <3> HIDE DEF before, after
    <3>4. IsFiniteSet(after) /\ \A j \in after : residual[j] \in Int
      BY <3>1, <3>3, FS_AddElement
    <3>5. SumFunctionOnSet(residual, after) = residual[i] + SumFunctionOnSet(residual, after \ {i})
      BY <3>3, <3>4, SumExtracts
    <3>6. SumFunctionOnSet(residual, after \ {i}) <= SumFunctionOnSet(residual, before)
      <4>1. IsFiniteSet(after \ {i}) /\ \A j \in after \ {i} : j \in before /\ residual[j] \in Int
        BY <3>3, <3>4, FS_Subset
      <4>2. \A j \in before : residual[j] \in Nat
        BY <3>1
      <4>3. \A j \in after \ {i} : residual[j] <= 0 \/ (j \in before /\ residual[j] <= residual[j])
        BY <4>1
      <4> QED
        BY <3>1, <4>1, <4>2, <4>3, SumBound
    <3>7. SumFunctionOnSet(residual, after \ {i}) \in Int
      BY <3>4, FS_Subset, SumExtracts
    <3>8. residual[i] \in Int /\ Limit[p] \in Int
      BY <3>1, PosInvoiceAssumption
    <3>9. SumFunctionOnSet(residual, after) <= Limit[p]
      BY <3>1, <3>2, <3>5, <3>6, <3>7, <3>8
    <3> QED
      BY <2>3, <3>9 DEF after
  <2> QED
    BY <2>2, <2>3
<1>9. ASSUME NEW u \in Sessions, OnItsWay(u)'
      PROVE  Fits(txn[u])'
  <2>1. u # s /\ txn'[u] = txn[u] /\ OnItsWay(u)
    BY <1>2, <1>9 DEF CreditInv, IInv, TypeOK, OnItsWay
  <2>2. Customer[txn[u].invoice] # p
    BY <1>2, <1>3, <2>1 DEF CreditInv, OnePerAccount
  <2>3. Fits(txn[u])
    BY <2>1 DEF CreditInv
  <2> QED
    BY <1>4, <1>6, <2>1, <2>2, <2>3 DEF Fits, Limited
<1>10. OnePerAccount'
  BY <1>2 DEF CreditInv, IInv, TypeOK, OnePerAccount, OnItsWay
<1> QED
  BY <1>1, <1>5, <1>8, <1>9, <1>10 DEF CreditInv

LEMMA CreditStep ==
  ASSUME CreditInv, [Next]_vars
  PROVE  CreditInv'
<1>1. ASSUME UNCHANGED <<order, status, settlement, onCredit, moneyVars>>, IInv',
             \A s \in Sessions : txn'[s] # Idle => txn'[s] = txn[s]
      PROVE  CreditInv'
  <2>1. NoneAdded /\ SettledIsPaid' /\ \A j \in Invoices : residual'[j] <= residual[j]
    BY <1>1 DEF CreditInv, IInv, TypeOK, NoneAdded, SettledIsPaid, moneyVars
  <2>2. IsFiniteSet(onCredit')
    BY <1>1 DEF CreditInv
  <2> QED
    BY <1>1, <2>1, <2>2, QuietStep DEF OnItsWay
<1>2. CASE UNCHANGED vars
  BY <1>1, <1>2, NextPreserves DEF CreditInv, vars
<1>3. ASSUME NEW s \in Sessions, Rollback(s)
      PROVE  CreditInv'
  BY <1>1, <1>3, RollbackPreserves DEF CreditInv, IInv, TypeOK, Rollback
<1>4. ASSUME NEW i \in Invoices, NEW m \in {"tender", "credit"}, Bill(i, m)
      PROVE  CreditInv'
  BY <1>4, BillKeepsCredit
<1>5. ASSUME NEW s \in Sessions, NEW op \in Operations, NEW i \in Invoices,
             NEW a \in 1..Total[i], Lock(s, op, i, a)
      PROVE  CreditInv'
  BY <1>5, LockKeepsCredit
<1>6. ASSUME NEW s \in Sessions,
             Receive(s) \/ Collect(s) \/ PutOnAccount(s) \/ WriteOff(s) \/ Refund(s)
      PROVE  CreditInv'
  BY <1>6, AccountKeepsCredit, CommitKeepsCredit
<1> QED
  BY <1>2, <1>3, <1>4, <1>5, <1>6 DEF Next

(* What a customer owes on closed sales never exceeds the limit, however   *)
(* many terminals put sales on the account at once.                        *)
THEOREM CreditLimited == Spec => []CreditWithinLimit
<1>1. ASSUME Init PROVE CreditInv
  <2>1. IInv /\ IsFiniteSet(onCredit) /\ SettledIsPaid
    BY <1>1, InitSound, FS_EmptySet DEF Init, SettledIsPaid
  <2>2. \A s \in Sessions : ~OnItsWay(s)
    BY <1>1 DEF Init, OnItsWay
  <2>3. \A p \in Partners : OnAccount(p) = {} /\ Limit[p] \in Nat
    BY <1>1, PosInvoiceAssumption DEF Init, OnAccount
  <2>4. SumFunctionOnSet(residual, {}) = 0
    BY SumOfRest, FS_EmptySet
  <2>5. CreditWithinLimit
    BY <2>3, <2>4 DEF CreditWithinLimit
  <2> QED
    BY <2>1, <2>2, <2>5 DEF CreditInv, OnePerAccount
<1>2. CreditInv /\ [Next]_vars => CreditInv'
  BY CreditStep
<1>3. CreditInv => CreditWithinLimit
  BY DEF CreditInv
<1> QED
  BY <1>1, <1>2, <1>3, PTL DEF Spec
=============================================================================
