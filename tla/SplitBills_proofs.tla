-------------------------- MODULE SplitBills_proofs --------------------------
(***************************************************************************)
(* What TLAPS checks of SplitBills, for any rows, bills and quantities.    *)
(***************************************************************************)
EXTENDS SplitBills, FiniteSetTheorems, WellFoundedInduction, TLAPS

(* Rounding down to equal shares never hands out more than there is.       *)
LEMMA SharesFit ==
  ASSUME NEW t \in Nat, NEW n \in Nat, n >= 2
  PROVE  t \div n \in Nat /\ t - (t \div n) * (n - 1) \in Nat
<1> DEFINE s == t \div n
<1>1. s \in Nat /\ s * n <= t
  OBVIOUS
<1>2. s * (n - 1) = s * n - s
  BY <1>1
<1> QED
  BY <1>1, <1>2

----------------------------------------------------------------------------
BillTypes == bill \in [Bills -> {"none", "open", "settled"}] /\ on \in [Bills -> [Items -> Nat]]

(* The lines a bill may get.                                               *)
LEMMA LinesTypes ==
  ASSUME NEW f \in [Items -> Nat], NEW g \in [Items -> Nat]
  PROVE  /\ Plus(f, g) \in [Items -> Nat]
         /\ Within(f, g) => Minus(g, f) \in [Items -> Nat]
  BY DEF Plus, Minus, Within

LEMMA QuantitiesAreLines ==
  /\ MaxQuantity \in Nat
  /\ Quantities \subseteq [Items -> Nat]
  /\ Nothing \in [Items -> Nat]
  BY SplitBillsAssumption DEF Quantities, Nothing

LEMMA SplitEquallyTypes ==
  ASSUME TypeOK, SplitEqually
  PROVE  BillTypes'
<1> DEFINE total == [i \in Items |-> IF i \in reading.live THEN reading.quantity[i] ELSE 0]
           share(n) == [i \in Items |-> total[i] \div n]
           rest(n) == [i \in Items |-> total[i] - share(n)[i] * (n - 1)]
<1>1. PICK new \in SUBSET Bills, last \in Bills :
        /\ Cardinality(new) >= 2
        /\ bill' = [b \in Bills |-> IF b \in new THEN "open" ELSE "none"]
        /\ on' = [b \in Bills |-> CASE b = last -> rest(Cardinality(new))
                                     [] b \in new \ {last} -> share(Cardinality(new))
                                     [] OTHER -> Nothing]
  BY DEF SplitEqually
<1> DEFINE n == Cardinality(new)
<1>2. n \in Nat /\ n >= 2
  BY <1>1, FS_Subset, FS_CardinalityType, SplitBillsAssumption
<1>3. total \in [Items -> Nat]
  BY QuantitiesAreLines DEF TypeOK, SplitEqually, Done, Tabs, Quantities
<1>4. share(n) \in [Items -> Nat] /\ rest(n) \in [Items -> Nat]
  <2> HIDE DEF total, n
  <2>1. \A i \in Items : total[i] \div n \in Nat /\ total[i] - (total[i] \div n) * (n - 1) \in Nat
    BY <1>2, <1>3, SharesFit
  <2> QED  BY <2>1
<1>5. Nothing \in [Items -> Nat]
  BY QuantitiesAreLines
<1> HIDE DEF share, rest
<1>6. on' \in [Bills -> [Items -> Nat]]
  BY <1>1, <1>4, <1>5
<1> QED  BY <1>1, <1>6 DEF BillTypes

LEMMA BillOperationTypes ==
  ASSUME TypeOK, BillOperation
  PROVE  TypeOK'
<1> USE QuantitiesAreLines
<1>1. reading' = NoOperation /\ UNCHANGED <<orderVars, staleVars>>
  BY DEF BillOperation, Refuse, AddBills, SplitEqually, CancelSplit, DeleteBill,
         Assign, Unassign, Merge, Move, Done
<1>2. BillTypes'
  <2>1. CASE Refuse
    BY <2>1 DEF TypeOK, BillTypes, Refuse, billVars
  <2>2. CASE AddBills
    BY <2>2 DEF TypeOK, BillTypes, AddBills
  <2>3. CASE SplitEqually
    BY <2>3, SplitEquallyTypes
  <2>4. CASE CancelSplit
    BY <2>4 DEF TypeOK, BillTypes, CancelSplit
  <2>5. ASSUME NEW b \in Bills, DeleteBill(b)
        PROVE  BillTypes'
    BY <2>5 DEF TypeOK, BillTypes, DeleteBill
  <2>6. ASSUME NEW b \in Bills, NEW batch \in Quantities, Assign(b, batch)
        PROVE  BillTypes'
    <3>1. Plus(on[b], batch) \in [Items -> Nat]
      BY LinesTypes DEF TypeOK
    <3> QED  BY <2>6, <3>1 DEF TypeOK, BillTypes, Assign
  <2>7. ASSUME NEW b \in Bills, NEW batch \in Quantities, Unassign(b, batch)
        PROVE  BillTypes'
    <3>1. Minus(on[b], batch) \in [Items -> Nat]
      BY <2>7, LinesTypes DEF TypeOK, BillTypes, Unassign
    <3> QED  BY <2>7, <3>1 DEF TypeOK, BillTypes, Unassign
  <2>8. ASSUME NEW b \in Bills, NEW c \in Bills, Merge(b, c)
        PROVE  BillTypes'
    <3>1. Plus(on[b], on[c]) \in [Items -> Nat]
      BY LinesTypes DEF TypeOK
    <3> QED  BY <2>8, <3>1 DEF TypeOK, BillTypes, Merge
  <2>9. ASSUME NEW b \in Bills, NEW c \in Bills, NEW batch \in Quantities, Move(b, c, batch)
        PROVE  BillTypes'
    <3>1. Minus(on[b], batch) \in [Items -> Nat] /\ Plus(on[c], batch) \in [Items -> Nat]
      BY <2>9, LinesTypes DEF TypeOK, BillTypes, Move
    <3> QED  BY <2>9, <3>1 DEF TypeOK, BillTypes, Move
  <2> QED
    BY <2>1, <2>2, <2>3, <2>4, <2>5, <2>6, <2>7, <2>8, <2>9, BillOperation DEF BillOperation
<1> QED  BY <1>1, <1>2 DEF TypeOK, BillTypes, orderVars, staleVars

----------------------------------------------------------------------------
(* The order and the payments.                                             *)
LEMMA SettleTypes ==
  ASSUME TypeOK, NEW b \in Bills, Settle(b)
  PROVE  TypeOK'
  BY DEF TypeOK, Settle, staleVars

LEMMA WriteTypes ==
  ASSUME TypeOK, NEW rows \in SUBSET Items, NEW quantities \in Quantities,
         Write(rows, quantities), editing' \subseteq editing, belated' \subseteq belated \cup rows
  PROVE  TypeOK'
<1>1. punched' \in Quantities
  BY DEF TypeOK, Write, Quantities
<1> QED  BY <1>1 DEF TypeOK, Write, billVars

(* What the terminals and the back office do to the rows, in one form.     *)
RowsWritten ==
  \/ SaveItems
  \/ \E i \in Items, asked \in 0..MaxQuantity : VoidItem(i, asked)
  \/ Rewrite

LEMMA EditIsWrite ==
  ASSUME TypeOK, RowsWritten
  PROVE  \E rows \in SUBSET Items, quantities \in Quantities :
           Write(rows, quantities) /\ editing' \subseteq editing /\ belated' \subseteq belated \cup rows
<1>1. CASE SaveItems
  BY <1>1 DEF SaveItems
<1>2. ASSUME NEW i \in Items, NEW asked \in 0..MaxQuantity, VoidItem(i, asked)
      PROVE  \E rows \in SUBSET Items, quantities \in Quantities :
               Write(rows, quantities) /\ editing' \subseteq editing /\ belated' \subseteq belated \cup rows
  <2> DEFINE rows == IF asked = quantity[i] THEN live \ {i} ELSE live
             left == [quantity EXCEPT ![i] = @ - asked]
  <2>1. left \in Quantities
    BY <1>2, QuantitiesAreLines DEF TypeOK, Quantities, VoidItem
  <2>2. rows \in SUBSET Items
    BY DEF TypeOK
  <2>3. Write(rows, left) /\ editing' = editing /\ belated' = belated
    BY <1>2 DEF VoidItem
  <2> QED  BY <2>1, <2>2, <2>3
<1>3. CASE Rewrite
  <2>1. PICK new \in SUBSET Items, late \in SUBSET live, quantities \in Quantities :
          /\ Write(new \cup late, quantities) /\ editing' = {}
          /\ belated' \subseteq belated \cup new
    BY <1>3 DEF Rewrite
  <2>2. new \cup late \in SUBSET Items
    BY <2>1 DEF TypeOK
  <2> QED  BY <2>1, <2>2
<1> QED  BY <1>1, <1>2, <1>3 DEF RowsWritten

LEMMA TypeStep ==
  ASSUME TypeOK, [Next]_vars
  PROVE  TypeOK'
<1>1. CASE ReadTab
  BY <1>1 DEF TypeOK, ReadTab, TableFree, Tabs, TabOpen, orderVars, billVars, staleVars
<1>2. CASE BillOperation
  BY <1>2, BillOperationTypes
<1>3. ASSUME NEW b \in Bills, Settle(b)  PROVE TypeOK'
  BY <1>3, SettleTypes
<1>4. CASE RowsWritten
  BY <1>4, EditIsWrite, WriteTypes
<1>5. CASE Cancel
  BY <1>5 DEF TypeOK, Cancel, billVars, staleVars
<1>6. CASE Reopen
  BY <1>6 DEF TypeOK, Reopen, billVars
<1>7. CASE Price
  BY <1>7 DEF TypeOK, Price, billVars, staleVars
<1>8. CASE BillWhole
  BY <1>8 DEF TypeOK, BillWhole, billVars, staleVars
<1>9. CASE FindEditable \/ FindConfirmed \/ Advance \/ LookedInVain
  BY <1>9 DEF TypeOK, FindEditable, FindConfirmed, Advance, LookedInVain, orderVars, billVars
<1>10. CASE UNCHANGED vars
  BY <1>10 DEF TypeOK, vars, orderVars, billVars, staleVars
<1> QED
  BY <1>1, <1>2, <1>3, <1>4, <1>5, <1>6, <1>7, <1>8, <1>9, <1>10 DEF Next, RowsWritten

LEMMA TypeInit == Init => TypeOK
  BY QuantitiesAreLines DEF Init, TypeOK, Quantities

(* Every variable keeps its type: no operation takes more from a bill than *)
(* is on it, and no void more from a row than it has.                      *)
THEOREM TypeCorrect == Spec => []TypeOK
  BY TypeInit, TypeStep, PTL DEF Spec

----------------------------------------------------------------------------
(* Closing the tab waits for the lock of its table, so that no operation   *)
(* on its bills is left that has seen it open.                             *)
NoneFoundItOpen == order = "closed" /\ reading # NoOperation => ~reading.open /\ reading.live = {}

IInv == TypeOK /\ NoneFoundItOpen /\ ClosedIsPaid

(* On a closed tab the operations on bills that get through change nothing.*)
LEMMA ClosedBillsStay ==
  ASSUME IInv, order = "closed", BillOperation
  PROVE  UNCHANGED billVars
<1>1. \A b \in Bills : bill[b] # "open"
  BY DEF IInv, ClosedIsPaid
<1>2. reading # NoOperation => ~reading.open /\ reading.live = {}
  BY DEF IInv, NoneFoundItOpen
<1> QED
  BY <1>1, <1>2 DEF BillOperation, Refuse, AddBills, SplitEqually, CancelSplit, DeleteBill,
                    Assign, Unassign, Merge, Move, Done

LEMMA ClosedStep ==
  ASSUME IInv, [Next]_vars
  PROVE  IInv'
<1> USE DEF ClosedIsPaid, NoneFoundItOpen
<1>1. TypeOK'
  BY TypeStep DEF IInv
<1>2. CASE order' # "closed"
  BY <1>1, <1>2 DEF IInv
<1>3. CASE order' = "closed"
  <2>1. CASE ReadTab
    BY <1>1, <1>3, <2>1 DEF IInv, ReadTab, TabOpen, Assigned, orderVars, billVars, staleVars
  <2>2. CASE BillOperation
    <3>1. order = "closed" /\ reading' = NoOperation /\ UNCHANGED <<live, quantity, belated>>
      BY <1>3, <2>2 DEF BillOperation, Refuse, AddBills, SplitEqually, CancelSplit, DeleteBill,
                        Assign, Unassign, Merge, Move, Done, orderVars, staleVars
    <3>2. bill' = bill /\ on' = on
      BY <2>2, <3>1, ClosedBillsStay DEF billVars
    <3> QED  BY <1>1, <3>1, <3>2 DEF IInv, Assigned
  <2>3. ASSUME NEW b \in Bills, Settle(b)  PROVE IInv'
    <3>1. /\ \A c \in Bills : bill'[c] # "open"
          /\ \A i \in live : Assigned(i) = quantity[i]
          /\ UNCHANGED <<live, quantity, on, reading>>
          /\ reading = NoOperation
      BY <1>3, <2>3 DEF Settle, TabOpen, TableFree
    <3> QED  BY <1>1, <3>1 DEF IInv, Assigned
  <2>4. CASE SaveItems \/ \E i \in Items, asked \in 0..MaxQuantity : VoidItem(i, asked)
    BY <1>3, <2>4 DEF SaveItems, VoidItem, Write
  <2>5. CASE Rewrite
    <3>1. PICK new \in SUBSET Items, late \in SUBSET live, quantities \in Quantities :
            /\ Write(new \cup late, quantities)
            /\ \A i \in late : quantities[i] = quantity[i]
            /\ belated' = IF order = "closed" THEN belated \cup new ELSE belated
      <4>1. PICK found \in editing :
              \E new \in SUBSET {i \in Items : punched[i] = 0}, late \in SUBSET (live \ found) :
              \E quantities \in Quantities :
                /\ Write(new \cup late, quantities)
                /\ \A i \in late : quantities[i] = quantity[i]
                /\ belated' = IF order = "closed" THEN belated \cup new ELSE belated
        BY <2>5 DEF Rewrite
      <4>2. {i \in Items : punched[i] = 0} \subseteq Items /\ live \ found \subseteq live
        OBVIOUS
      <4> QED  BY <4>1, <4>2
    <3>2. /\ order = "closed" /\ belated' = belated \cup new
          /\ live' = new \cup late /\ quantity' = quantities
          /\ UNCHANGED <<bill, on, reading>>
      BY <1>3, <3>1 DEF Write, billVars
    <3>3. \A i \in live' \ belated' : i \in live \ belated /\ quantity'[i] = quantity[i]
      BY <3>1, <3>2
    <3> QED  BY <1>1, <3>2, <3>3 DEF IInv, Assigned
  <2>6. CASE Cancel \/ Reopen \/ Price \/ BillWhole \/ Advance
    BY <1>3, <2>6 DEF Cancel, Reopen, Price, BillWhole, Advance
  <2>7. CASE FindEditable \/ FindConfirmed \/ LookedInVain \/ UNCHANGED vars
    <3>1. UNCHANGED <<orderVars, billVars, reading, belated>>
      BY <2>7 DEF FindEditable, FindConfirmed, LookedInVain, vars, staleVars
    <3> QED  BY <1>1, <1>3, <3>1 DEF IInv, Assigned, orderVars, billVars
  <2> QED
    BY <2>1, <2>2, <2>3, <2>4, <2>5, <2>6, <2>7 DEF Next
<1> QED  BY <1>1, <1>2, <1>3 DEF IInv

(* A tab that settleBill has closed is paid as long as it is closed, but   *)
(* for the rows that a back office puts on it that found it open           *)
(* (orders.service.ts:260-288).  Kitchens may send and reopen it.          *)
THEOREM ClosedPaid == Spec => []ClosedIsPaid
<1>1. Init => IInv
  BY TypeInit DEF Init, IInv, NoneFoundItOpen, ClosedIsPaid
<1>2. IInv => ClosedIsPaid
  BY DEF IInv
<1> QED  BY <1>1, <1>2, ClosedStep, PTL DEF Spec

----------------------------------------------------------------------------
PaidStep ==
  /\ \A b \in Bills : Settled(b) => Settled(b)' /\ on'[b] = on[b]
  /\ order \in {"billed", "closed"} => \A b \in Bills : Settled(b)' => Settled(b)

(* Operations on bills pay none of them, and leave those that are paid.    *)
LEMMA BillOperationKeepsPaid ==
  ASSUME TypeOK, BillOperation, NEW b \in Bills
  PROVE  Settled(b)' = Settled(b) /\ (Settled(b) => on'[b] = on[b])
<1> USE DEF Settled, TypeOK
<1>1. CASE Refuse
  BY <1>1 DEF Refuse, billVars
<1>2. CASE AddBills
  BY <1>2 DEF AddBills
<1>3. CASE SplitEqually
  BY <1>3 DEF SplitEqually
<1>4. CASE CancelSplit
  BY <1>4 DEF CancelSplit
<1>5. ASSUME NEW c \in Bills, DeleteBill(c)  PROVE Settled(b)' = Settled(b) /\ (Settled(b) => on'[b] = on[b])
  BY <1>5 DEF DeleteBill
<1>6. ASSUME NEW c \in Bills, NEW batch \in Quantities, Assign(c, batch) \/ Unassign(c, batch)
      PROVE  Settled(b)' = Settled(b) /\ (Settled(b) => on'[b] = on[b])
  BY <1>6 DEF Assign, Unassign
<1>7. ASSUME NEW c \in Bills, NEW d \in Bills, Merge(c, d)
      PROVE  Settled(b)' = Settled(b) /\ (Settled(b) => on'[b] = on[b])
  BY <1>7 DEF Merge
<1>8. ASSUME NEW c \in Bills, NEW d \in Bills, NEW batch \in Quantities, Move(c, d, batch)
      PROVE  Settled(b)' = Settled(b) /\ (Settled(b) => on'[b] = on[b])
  BY <1>8 DEF Move
<1> QED
  BY <1>1, <1>2, <1>3, <1>4, <1>5, <1>6, <1>7, <1>8 DEF BillOperation

LEMMA PaidStays ==
  ASSUME TypeOK, [Next]_vars
  PROVE  PaidStep
<1>1. CASE BillOperation
  BY <1>1, BillOperationKeepsPaid DEF PaidStep
<1>2. ASSUME NEW c \in Bills, Settle(c)  PROVE PaidStep
  BY <1>2 DEF TypeOK, PaidStep, Settle, Settled, TabOpen
<1>3. CASE RowsWritten
  <2>1. bill' = bill /\ on' = on
    BY <1>3, EditIsWrite DEF Write, billVars
  <2> QED  BY <2>1 DEF PaidStep, Settled
<1>4. CASE ReadTab \/ Cancel \/ Reopen \/ Price \/ BillWhole \/ UNCHANGED vars
  BY <1>4 DEF PaidStep, Settled, ReadTab, Cancel, Reopen, Price, BillWhole, vars, billVars
<1>5. CASE FindEditable \/ FindConfirmed \/ Advance \/ LookedInVain
  BY <1>5 DEF PaidStep, Settled, FindEditable, FindConfirmed, Advance, LookedInVain, billVars
<1> QED
  BY <1>1, <1>2, <1>3, <1>4, <1>5 DEF Next, RowsWritten

(* A paid bill is never changed, and none is paid of an order that is      *)
(* billed whole or closed.                                                 *)
THEOREM PaidFinal == Spec => PaidIsFinal
<1>1. TypeOK /\ [Next]_vars => [PaidStep]_vars
  BY PaidStays
<1> QED  BY <1>1, TypeInit, TypeStep, PTL DEF Spec, PaidIsFinal, PaidStep

----------------------------------------------------------------------------
(* Sums over the bills.  SumFunctionOnSet adds the value of one picked     *)
(* element to the sum over the rest.  The induction on its recursion is an *)
(* argument about the smallest set outside a given family of sets.         *)
Picked(T) == CHOOSE x \in T : TRUE
Rest(T) == T \ {Picked(T)}

(* What is left once the picked element is taken out is smaller by one.    *)
LEMMA RestSmaller ==
  ASSUME NEW S, IsFiniteSet(S), NEW T \in SUBSET S, T # {}
  PROVE  /\ Picked(T) \in T /\ Rest(T) \in SUBSET S
         /\ Cardinality(T) \in Nat /\ Cardinality(Rest(T)) \in Nat
         /\ Cardinality(T) = Cardinality(Rest(T)) + 1
<1>1. IsFiniteSet(T)
  BY FS_Subset
<1>2. Picked(T) \in T
  BY DEF Picked
<1>3. IsFiniteSet(Rest(T)) /\ Cardinality(Rest(T)) = Cardinality(T) - 1
  BY <1>1, <1>2, FS_RemoveElement DEF Rest
<1> QED
  BY <1>1, <1>2, <1>3, FS_CardinalityType DEF Rest

(* A set of numbers has a smallest one.                                    *)
LEMMA Smallest ==
  ASSUME NEW N, N \subseteq Nat, N # {}
  PROVE  \E n \in N : \A m \in N : ~(m < n)
<1> DEFINE Less == {p \in Nat \X Nat : p[1] < p[2]}
<1>1. Less = OpToRel(<, Nat)
  BY Zenon DEF OpToRel
<1>2. IsWellFoundedOn(Less, Nat)
  BY <1>1, NatLessThanWellFounded, Zenon
<1>3. PICK n \in N : \A m \in N : <<m, n>> \notin Less
  <2> HIDE DEF Less
  <2> QED
    BY <1>2, WFMin
<1> QED
  BY <1>3

(* A family that has the empty set, and every set whose rest it has, has   *)
(* every subset of a finite set.                                           *)
LEMMA RestInduction ==
  ASSUME NEW S, IsFiniteSet(S), NEW Family, {} \in Family,
         \A T \in SUBSET S : T # {} /\ Rest(T) \in Family => T \in Family
  PROVE  S \in Family
<1> DEFINE Outside == (SUBSET S) \ Family
           Sizes == {Cardinality(T) : T \in Outside}
<1> SUFFICES ASSUME Outside # {} PROVE FALSE
  OBVIOUS
<1>1. Sizes \subseteq Nat /\ Sizes # {}
  BY FS_Subset, FS_CardinalityType
<1>2. PICK n \in Sizes : \A m \in Sizes : ~(m < n)
  <2> HIDE DEF Sizes
  <2> QED
    BY <1>1, Smallest
<1>3. PICK T \in Outside : n = Cardinality(T)
  BY <1>2
<1>4. T \in SUBSET S /\ T # {} /\ Rest(T) \notin Family
  BY <1>3
<1>5. Rest(T) \in Outside /\ Cardinality(Rest(T)) < n
  BY <1>3, <1>4, RestSmaller
<1> QED
  BY <1>2, <1>5

(* The recursion by which a sum is defined has a solution: one that is     *)
(* right for all sets of at most n elements extends to n + 1.              *)
LEMMA SumUnfolds ==
  ASSUME NEW f, NEW S, IsFiniteSet(S)
  PROVE  \E sum : /\ sum[{}] = 0
                  /\ \A T \in SUBSET S : T # {} => sum[T] = f[Picked(T)] + sum[Rest(T)]
                  /\ SumFunctionOnSet(f, S) = sum[S]
<1> DEFINE Term(g, T) == IF T = {} THEN 0 ELSE f[Picked(T)] + g[Rest(T)]
           Upto(n) == {T \in SUBSET S : Cardinality(T) <= n}
           Solved == {U \in SUBSET S :
                        \E g : g = [T \in Upto(Cardinality(U)) |-> Term(g, T)]}
<1>1. {} \in Solved
  <2> DEFINE g == [T \in Upto(0) |-> 0]
  <2>1. \A T \in Upto(0) : T = {}
    BY RestSmaller
  <2>2. g = [T \in Upto(0) |-> Term(g, T)]
    BY <2>1
  <2> QED
    BY <2>2, FS_EmptySet
<1>2. ASSUME NEW U \in SUBSET S, U # {}, Rest(U) \in Solved
      PROVE  U \in Solved
  <2> DEFINE n == Cardinality(Rest(U))
  <2>1. n \in Nat /\ Cardinality(U) = n + 1
    BY <1>2, RestSmaller
  <2>2. PICK g : g = [T \in Upto(n) |-> Term(g, T)]
    BY <1>2
  <2> DEFINE h == [T \in Upto(n + 1) |-> Term(g, T)]
  <2>3. ASSUME NEW T \in Upto(n + 1), T # {}
        PROVE  Rest(T) \in Upto(n)
    BY <2>1, <2>3, RestSmaller
  <2>4. \A T \in Upto(n) : T \in Upto(n + 1) /\ h[T] = g[T]
    BY <2>1, <2>2, FS_Subset, FS_CardinalityType
  <2>5. h = [T \in Upto(n + 1) |-> Term(h, T)]
    <3>1. ASSUME NEW T \in Upto(n + 1)
          PROVE  Term(g, T) = Term(h, T)
      BY <2>3, <2>4
    <3> QED
      BY <3>1
  <2>6. \E k : k = [T \in Upto(Cardinality(U)) |-> Term(k, T)]
    <3> HIDE DEF h, Term, Upto
    <3> QED
      BY <2>1, <2>5
  <2> QED
    BY <2>6
<1>3. S \in Solved
  <2> HIDE DEF Solved
  <2> QED
    BY <1>1, <1>2, RestInduction
<1>4. Upto(Cardinality(S)) = SUBSET S
  BY FS_Subset
<1> DEFINE sum == CHOOSE g : g = [T \in SUBSET S |-> Term(g, T)]
<1>5. sum = [T \in SUBSET S |-> Term(sum, T)]
  BY <1>3, <1>4
<1>6. SumFunctionOnSet(f, S) = sum[S]
  BY DEF SumFunctionOnSet, FoldFunctionOnSet, MapThenFoldSet, Picked, Rest
<1> QED
  BY <1>5, <1>6

LEMMA SumOfZeros ==
  ASSUME NEW f, NEW S, IsFiniteSet(S), \A x \in S : f[x] = 0
  PROVE  SumFunctionOnSet(f, S) = 0
<1>1. PICK F : /\ F[{}] = 0
               /\ \A T \in SUBSET S : T # {} => F[T] = f[Picked(T)] + F[Rest(T)]
               /\ SumFunctionOnSet(f, S) = F[S]
  BY SumUnfolds
<1> DEFINE Zero == {T \in SUBSET S : F[T] = 0}
<1>2. ASSUME NEW T \in SUBSET S, T # {}, Rest(T) \in Zero
      PROVE  T \in Zero
  BY <1>1, <1>2, RestSmaller
<1>3. {} \in Zero
  BY <1>1
<1>4. S \in Zero
  <2> HIDE DEF Zero
  <2> QED
    BY <1>2, <1>3, RestInduction
<1> QED
  BY <1>1, <1>4

(* Sums are numbers, and grow with what is summed.                         *)
LEMMA SumMonotone ==
  ASSUME NEW f, NEW g, NEW S, IsFiniteSet(S),
         \A x \in S : f[x] \in Int /\ g[x] \in Int /\ f[x] <= g[x]
  PROVE  /\ SumFunctionOnSet(f, S) \in Int /\ SumFunctionOnSet(g, S) \in Int
         /\ SumFunctionOnSet(f, S) <= SumFunctionOnSet(g, S)
<1>1. PICK F : /\ F[{}] = 0
               /\ \A T \in SUBSET S : T # {} => F[T] = f[Picked(T)] + F[Rest(T)]
               /\ SumFunctionOnSet(f, S) = F[S]
  BY SumUnfolds
<1>2. PICK G : /\ G[{}] = 0
               /\ \A T \in SUBSET S : T # {} => G[T] = g[Picked(T)] + G[Rest(T)]
               /\ SumFunctionOnSet(g, S) = G[S]
  BY SumUnfolds
<1> DEFINE Ordered == {T \in SUBSET S : F[T] \in Int /\ G[T] \in Int /\ F[T] <= G[T]}
<1>3. ASSUME NEW T \in SUBSET S, T # {}, Rest(T) \in Ordered
      PROVE  T \in Ordered
  BY <1>1, <1>2, <1>3, RestSmaller
<1>4. {} \in Ordered
  BY <1>1, <1>2
<1>5. S \in Ordered
  <2> HIDE DEF Ordered
  <2> QED
    BY <1>3, <1>4, RestInduction
<1> QED
  BY <1>1, <1>2, <1>5

----------------------------------------------------------------------------
(* What is on the order was punched.                                       *)
OrderedWasPunched == Within(quantity, punched)

PaidInv == TypeOK /\ OrderedWasPunched /\ PaidWithinPunched

(* The paid part of each bill's line of a row.                             *)
PaidLines(i) == [b \in Bills |-> IF Settled(b) THEN on[b][i] ELSE 0]

LEMMA LineTypes ==
  ASSUME TypeOK
  PROVE  /\ \A i \in Items : /\ quantity[i] \in Int /\ punched[i] \in Int
                             /\ SumFunctionOnSet(PaidLines(i), Bills) \in Int
                             /\ Assigned(i) \in Int
         /\ \A i \in Items, b \in Bills : on[b][i] \in Nat /\ PaidLines(i)[b] \in Nat
<1>1. \A i \in Items : quantity[i] \in Int /\ punched[i] \in Int
  BY QuantitiesAreLines DEF TypeOK, Quantities
<1>2. \A i \in Items, b \in Bills : on[b][i] \in Nat /\ PaidLines(i)[b] \in Nat
  BY DEF TypeOK, PaidLines
<1>3. ASSUME NEW i \in Items
      PROVE  SumFunctionOnSet(PaidLines(i), Bills) \in Int /\ Assigned(i) \in Int
  <2> DEFINE f == PaidLines(i)
             g == [b \in Bills |-> on[b][i]]
  <2>1. \A b \in Bills : f[b] \in Int /\ g[b] \in Int /\ f[b] <= f[b] /\ g[b] <= g[b]
    BY <1>2
  <2> HIDE DEF f, g
  <2>2. SumFunctionOnSet(f, Bills) \in Int /\ SumFunctionOnSet(g, Bills) \in Int
    BY <2>1, SumMonotone, SplitBillsAssumption
  <2> QED
    BY <2>2 DEF f, g, Assigned
<1> QED
  BY <1>1, <1>2, <1>3

(* A step that pays no bill leaves what was paid of every row.             *)
LEMMA NothingPaid ==
  ASSUME PaidInv, TypeOK', PaidStep, OrderedWasPunched',
         \A b \in Bills : Settled(b)' => Settled(b),
         Within(punched, punched')
  PROVE  PaidInv'
<1> SUFFICES ASSUME NEW i \in Items
             PROVE  SumFunctionOnSet(PaidLines(i), Bills)' <= punched'[i]
  BY DEF PaidInv, PaidWithinPunched, PaidLines
<1>1. PaidLines(i)' = PaidLines(i)
  BY DEF PaidLines, PaidStep
<1>2. SumFunctionOnSet(PaidLines(i), Bills) <= punched[i] /\ punched[i] <= punched'[i]
  BY DEF PaidInv, PaidWithinPunched, PaidLines, Within
<1>3. punched[i] \in Int /\ SumFunctionOnSet(PaidLines(i), Bills) \in Int
  BY LineTypes DEF PaidInv
<1>4. punched'[i] \in Int
  BY QuantitiesAreLines DEF TypeOK, Quantities
<1> QED
  BY <1>1, <1>2, <1>3, <1>4

(* Paying a bill: of a row on the tab, no more than is assigned, which the *)
(* payment has compared with the row; of any other row, nothing.           *)
LEMMA SettlePaysWhatWasPunched ==
  ASSUME PaidInv, TypeOK', NEW c \in Bills, Settle(c)
  PROVE  PaidInv'
<1>1. /\ UNCHANGED <<quantity, punched, on>>
      /\ bill' = [bill EXCEPT ![c] = "settled"]
      /\ \A i \in Items : on[c][i] > 0 => i \in live
      /\ \A i \in live : Assigned(i) <= quantity[i]
  BY DEF Settle, Resolves
<1>2. OrderedWasPunched'
  BY <1>1 DEF PaidInv, OrderedWasPunched
<1> SUFFICES ASSUME NEW i \in Items
             PROVE  SumFunctionOnSet(PaidLines(i), Bills)' <= punched'[i]
  BY <1>2 DEF PaidInv, PaidWithinPunched, PaidLines
<1> DEFINE before == PaidLines(i)
           after == [b \in Bills |-> IF bill'[b] = "settled" THEN on[b][i] ELSE 0]
           assigned == [b \in Bills |-> on[b][i]]
<1>3. PaidLines(i)' = after
  BY <1>1 DEF PaidLines, Settled
<1>4. \A b \in Bills : /\ before[b] \in Int /\ after[b] \in Int /\ assigned[b] \in Int
                       /\ after[b] <= assigned[b]
                       /\ i \notin live => after[b] <= before[b]
  BY <1>1, LineTypes DEF PaidInv, PaidLines, Settled, TypeOK
<1>5. /\ punched[i] \in Int /\ quantity[i] \in Int
      /\ SumFunctionOnSet(before, Bills) <= punched[i]
      /\ quantity[i] <= punched[i]
  BY LineTypes DEF PaidInv, PaidWithinPunched, PaidLines, OrderedWasPunched, Within
<1>6. i \in live => SumFunctionOnSet(assigned, Bills) <= quantity[i]
  BY <1>1 DEF Assigned
<1> HIDE DEF before, after, assigned
<1>7. /\ SumFunctionOnSet(after, Bills) \in Int /\ SumFunctionOnSet(assigned, Bills) \in Int
      /\ SumFunctionOnSet(after, Bills) <= SumFunctionOnSet(assigned, Bills)
  BY <1>4, SumMonotone, SplitBillsAssumption
<1>8. i \notin live => /\ SumFunctionOnSet(before, Bills) \in Int
                       /\ SumFunctionOnSet(after, Bills) <= SumFunctionOnSet(before, Bills)
  BY <1>4, SumMonotone, SplitBillsAssumption
<1>9. SumFunctionOnSet(after, Bills) <= punched[i]
  BY <1>5, <1>6, <1>7, <1>8
<1> QED
  BY <1>1, <1>3, <1>9

LEMMA PaidInvStep ==
  ASSUME PaidInv, [Next]_vars
  PROVE  PaidInv'
<1>1. TypeOK' /\ PaidStep
  BY TypeStep, PaidStays DEF PaidInv
<1>2. \A i \in Items : quantity[i] \in Int /\ punched[i] \in Int
  BY LineTypes DEF PaidInv
<1>3. ASSUME UNCHANGED <<quantity, punched>>, \A b \in Bills : Settled(b)' => Settled(b)
      PROVE  PaidInv'
  <2>1. OrderedWasPunched' /\ Within(punched, punched')
    BY <1>2, <1>3 DEF PaidInv, OrderedWasPunched, Within
  <2> QED
    BY <1>1, <1>3, <2>1, NothingPaid
<1>4. CASE BillOperation
  <2>1. UNCHANGED <<quantity, punched>>
    BY <1>4 DEF BillOperation, Refuse, AddBills, SplitEqually, CancelSplit, DeleteBill,
                Assign, Unassign, Merge, Move, Done, orderVars
  <2> QED
    BY <1>3, <1>4, <2>1, BillOperationKeepsPaid DEF PaidInv
<1>5. ASSUME NEW b \in Bills, Settle(b)  PROVE PaidInv'
  BY <1>1, <1>5, SettlePaysWhatWasPunched
<1>6. CASE RowsWritten
  <2>1. PICK quantities \in Quantities :
          /\ quantity' = quantities
          /\ punched' = [i \in Items |-> IF quantities[i] > punched[i] THEN quantities[i]
                                         ELSE punched[i]]
          /\ UNCHANGED billVars
    BY <1>6, EditIsWrite DEF PaidInv, Write
  <2>2. \A i \in Items : quantities[i] \in Int
    BY QuantitiesAreLines DEF Quantities
  <2>3. OrderedWasPunched' /\ Within(punched, punched')
    BY <1>2, <2>1, <2>2 DEF OrderedWasPunched, Within
  <2>4. \A b \in Bills : Settled(b)' => Settled(b)
    BY <2>1 DEF billVars, Settled
  <2> QED
    BY <1>1, <2>3, <2>4, NothingPaid
<1>7. CASE ReadTab \/ Cancel \/ Reopen \/ Price \/ BillWhole \/ UNCHANGED vars
  <2>1. UNCHANGED <<quantity, punched, bill>>
    BY <1>7 DEF ReadTab, Cancel, Reopen, Price, BillWhole, vars, orderVars, billVars
  <2> QED
    BY <1>3, <2>1 DEF Settled
<1>8. CASE FindEditable \/ FindConfirmed \/ Advance \/ LookedInVain
  <2>1. UNCHANGED <<quantity, punched, bill>>
    BY <1>8 DEF FindEditable, FindConfirmed, Advance, LookedInVain, orderVars, billVars
  <2> QED
    BY <1>3, <2>1 DEF Settled
<1> QED
  BY <1>4, <1>5, <1>6, <1>7, <1>8 DEF Next, RowsWritten

(* Over all paid bills the guests are never charged for more of a row than *)
(* was ever ordered, whatever is voided, saved or reassigned in between.   *)
THEOREM PaidWithin == Spec => []PaidWithinPunched
<1>1. ASSUME Init PROVE PaidInv
  <2>1. TypeOK /\ OrderedWasPunched
    BY <1>1, TypeInit, LineTypes DEF Init, OrderedWasPunched, Within
  <2>2. \A i \in Items, b \in Bills : PaidLines(i)[b] = 0
    BY <1>1 DEF Init, PaidLines, Settled
  <2>3. \A i \in Items : SumFunctionOnSet(PaidLines(i), Bills) = 0
    BY <2>2, SumOfZeros, SplitBillsAssumption
  <2>4. \A i \in Items : punched[i] \in Nat
    BY <2>1, QuantitiesAreLines DEF TypeOK, Quantities
  <2> QED
    BY <2>1, <2>3, <2>4 DEF PaidInv, PaidWithinPunched, PaidLines
<1>2. PaidInv /\ [Next]_vars => PaidInv'
  BY PaidInvStep
<1>3. PaidInv => PaidWithinPunched
  BY DEF PaidInv
<1> QED
  BY <1>1, <1>2, <1>3, PTL DEF Spec
=============================================================================
