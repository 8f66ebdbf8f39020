--------------------------- MODULE Outbox_proofs ---------------------------
(***************************************************************************)
(* Proofs about the event outbox, for any number of replicas, events and   *)
(* consumers, whatever fails: facts belong to committed writes, and the    *)
(* outbox delivers as EventDelivery promises.                              *)
(***************************************************************************)
EXTENDS Outbox, TLAPS

(* The inductive invariant, part by part.                                  *)

(* An event has no row before its publisher has got that far.              *)
Unannounced ==
  \A e \in Events : /\ e \notin ViaBus /\ write[e] = "open" => status[e] = "none"
                    /\ emitted[e] = "no" /\ e \in ViaBus => status[e] = "none"

(* What is published with its transaction exists only after the commit.    *)
RowsAreCommitted ==
  \A e \in Events \ ViaBus :
    /\ status[e] # "none" => write[e] = "committed"
    /\ e \in ledger => write[e] = "committed"
    /\ emitted[e] = "no"

(* Workers hold rows that exist.                                           *)
HeldRowsExist ==
  /\ \A w \in Workers : \A e \in batch[w] : status[e] # "none"
  /\ \A w \in Workers : pc[w] = "handle" => row[w] \in batch[w]

(* The consumers before a worker's turn have had its row.                  *)
TurnsAreTaken ==
  \A w \in Workers : pc[w] = "handle" =>
    \A c \in 1..Consumers : c < turn[w] => <<row[w], c>> \in delivered

DeliveredExist ==
  \A e \in Events, c \in 1..Consumers : <<e, c>> \in delivered => status[e] # "none"

OInv ==
  /\ TypeOK
  /\ Unannounced
  /\ RowsAreCommitted
  /\ HeldRowsExist
  /\ TurnsAreTaken
  /\ DeliveredExist

----------------------------------------------------------------------------
(* A publisher's step leaves the workers alone and never takes a row back. *)
LEMMA PublisherStep ==
  ASSUME OInv, NEW e \in Events, Publish(e)
  PROVE  /\ UNCHANGED <<workerVars, delivered>>
         /\ status' \in [Events -> {"none", "pending", "shipped"}]
         /\ \A d \in Events : status[d] # "none" => status'[d] = status[d]
         /\ \A d \in Events \ {e} : status'[d] = status[d]
         /\ status'[e] \in {status[e], "pending"}
<1> USE DEF OInv, TypeOK
<1>1. CASE CommitWithEvent(e)
  <2>1. status[e] = "none"
    BY <1>1 DEF CommitWithEvent, Unannounced
  <2> QED
    BY <1>1, <2>1 DEF CommitWithEvent, InsertRow, workerVars
<1>2. CASE EmitRow(e)
  <2>1. status[e] = "none"
    BY <1>2 DEF EmitRow, Unannounced
  <2> QED
    BY <1>2, <2>1 DEF EmitRow, InsertRow, workerVars
<1>3. CASE CommitAlone(e) \/ RollBack(e) \/ RecordFact(e) \/ EmitFails(e)
  BY <1>3 DEF CommitAlone, RollBack, RecordFact, EmitFails, workerVars
<1> QED
  BY <1>1, <1>2, <1>3 DEF Publish

(* Types are kept by publishers.                                           *)
LEMMA PublisherType ==
  ASSUME OInv, NEW e \in Events, Publish(e)
  PROVE  TypeOK'
<1> USE DEF OInv, TypeOK
<1>1. CASE CommitWithEvent(e)
  BY <1>1, OutboxAssumption DEF CommitWithEvent, InsertRow, workerVars
<1>2. CASE EmitRow(e)
  BY <1>2, OutboxAssumption DEF EmitRow, InsertRow, workerVars
<1>3. CASE CommitAlone(e) \/ RollBack(e) \/ RecordFact(e) \/ EmitFails(e)
  BY <1>3 DEF CommitAlone, RollBack, RecordFact, EmitFails, workerVars, Spend
<1> QED
  BY <1>1, <1>2, <1>3 DEF Publish

(* The invariant is kept by publishers.                                    *)
LEMMA PublisherInv ==
  ASSUME OInv, NEW e \in Events, Publish(e)
  PROVE  OInv'
<1>1. TypeOK'
  BY PublisherType
<1>2. HeldRowsExist' /\ TurnsAreTaken' /\ DeliveredExist'
  BY PublisherStep DEF OInv, TypeOK, HeldRowsExist, TurnsAreTaken, DeliveredExist, workerVars
<1>3. Unannounced' /\ RowsAreCommitted'
  <2> USE DEF OInv, TypeOK, Unannounced, RowsAreCommitted
  <2>1. CASE CommitWithEvent(e)
    BY <2>1 DEF CommitWithEvent, InsertRow
  <2>2. CASE CommitAlone(e)
    BY <2>2 DEF CommitAlone
  <2>3. CASE RollBack(e)
    BY <2>3 DEF RollBack
  <2>4. CASE EmitRow(e)
    BY <2>4 DEF EmitRow, InsertRow
  <2>5. CASE RecordFact(e)
    BY <2>5 DEF RecordFact
  <2>6. CASE EmitFails(e)
    BY <2>6 DEF EmitFails
  <2> QED
    BY <2>1, <2>2, <2>3, <2>4, <2>5, <2>6 DEF Publish
<1> QED
  BY <1>1, <1>2, <1>3 DEF OInv

----------------------------------------------------------------------------
(* Where a worker goes when it is finished with a row.                     *)
LEMMA NextRowMoves ==
  ASSUME OInv, NEW w \in Workers, pc[w] = "handle", NextRow(w)
  PROVE  /\ pc' \in [Workers -> {"idle", "claiming", "handle"}]
         /\ batch' \in [Workers -> SUBSET Events]
         /\ row' \in [Workers -> Events \cup {"none"}]
         /\ turn' \in [Workers -> 1..(Consumers + 1)]
         /\ \A v \in Workers : batch'[v] \subseteq batch[v]
         /\ \A v \in Workers \ {w} : /\ pc'[v] = pc[v] /\ batch'[v] = batch[v]
                                     /\ row'[v] = row[v] /\ turn'[v] = turn[v]
         /\ pc'[w] = "handle" => row'[w] \in batch'[w] /\ turn'[w] = 1
<1>1. /\ pc \in [Workers -> {"idle", "claiming", "handle"}]
      /\ batch \in [Workers -> SUBSET Events]
      /\ row \in [Workers -> Events \cup {"none"}]
      /\ turn \in [Workers -> 1..(Consumers + 1)]
      /\ 1 \in 1..(Consumers + 1)
  BY OutboxAssumption DEF OInv, TypeOK
<1>2. CASE batch[w] = {row[w]} /\ Leave(w)
  BY <1>1, <1>2 DEF Leave
<1>3. CASE /\ \E e \in batch[w] \ {row[w]} : row' = [row EXCEPT ![w] = e]
           /\ batch' = [batch EXCEPT ![w] = @ \ {row[w]}]
           /\ turn' = [turn EXCEPT ![w] = 1]
           /\ UNCHANGED pc
  BY <1>1, <1>3
<1> QED
  BY <1>2, <1>3 DEF NextRow

(* Every step of a worker keeps the invariant.                             *)
LEMMA WorkerInv ==
  ASSUME OInv, NEW w \in Workers, Tick(w) \/ Crash(w)
  PROVE  OInv'
<1>1. ASSUME UNCHANGED publisherVars,
             \A e \in Events : status'[e] # "none" <=> status[e] # "none"
      PROVE  Unannounced' /\ RowsAreCommitted'
  BY <1>1 DEF OInv, Unannounced, RowsAreCommitted, publisherVars
<1>2. 1 \in 1..(Consumers + 1)
  BY OutboxAssumption
<1>3. CASE ClaimRows(w)
  <2>1. PICK rows \in SUBSET Claimable : batch' = [batch EXCEPT ![w] = rows]
    BY <1>3 DEF ClaimRows
  <2>2. /\ pc[w] = "idle" /\ pc' = [pc EXCEPT ![w] = "claiming"]
        /\ UNCHANGED <<publisherVars, status, row, turn, delivered, faults>>
    BY <1>3 DEF ClaimRows
  <2>3. rows \subseteq Events /\ \A e \in rows : status[e] # "none"
    BY DEF Claimable
  <2>4. TypeOK'
    BY <2>1, <2>2, <2>3 DEF OInv, TypeOK, publisherVars
  <2>5. HeldRowsExist' /\ TurnsAreTaken' /\ DeliveredExist'
    BY <2>1, <2>2, <2>3
       DEF OInv, TypeOK, HeldRowsExist, TurnsAreTaken, DeliveredExist
  <2> QED
    BY <1>1, <2>2, <2>4, <2>5 DEF OInv
<1>4. CASE ClaimReturns(w)
  <2>1. PICK e \in batch[w] : row' = [row EXCEPT ![w] = e]
    BY <1>4 DEF ClaimReturns
  <2>2. /\ pc' = [pc EXCEPT ![w] = "handle"] /\ turn' = [turn EXCEPT ![w] = 1]
        /\ UNCHANGED <<publisherVars, status, batch, delivered, faults>>
    BY <1>4 DEF ClaimReturns
  <2>3. TypeOK'
    BY <1>2, <2>1, <2>2 DEF OInv, TypeOK, publisherVars
  <2>4. HeldRowsExist' /\ DeliveredExist'
    BY <2>1, <2>2 DEF OInv, TypeOK, HeldRowsExist, DeliveredExist
  <2>5. TurnsAreTaken'
    BY <2>1, <2>2 DEF OInv, TypeOK, TurnsAreTaken
  <2> QED
    BY <1>1, <2>2, <2>3, <2>4, <2>5 DEF OInv
<1>5. CASE RunHandler(w)
  <2>1. /\ pc[w] = "handle" /\ turn[w] <= Consumers
        /\ delivered' = delivered \cup {<<row[w], turn[w]>>}
        /\ turn' = [turn EXCEPT ![w] = @ + 1]
        /\ UNCHANGED <<publisherVars, status, pc, batch, row, faults>>
    BY <1>5 DEF RunHandler
  <2>2. row[w] \in Events /\ status[row[w]] # "none" /\ turn[w] \in 1..Consumers
    BY <2>1, OutboxAssumption DEF OInv, TypeOK, HeldRowsExist
  <2>3. TypeOK'
    BY <2>1, <2>2, OutboxAssumption DEF OInv, TypeOK, publisherVars
  <2>4. HeldRowsExist' /\ DeliveredExist'
    BY <2>1, <2>2 DEF OInv, TypeOK, HeldRowsExist, DeliveredExist
  <2>5. TurnsAreTaken'
    <3> SUFFICES ASSUME NEW v \in Workers, pc'[v] = "handle", NEW c \in 1..Consumers,
                        c < turn'[v]
                 PROVE  <<row'[v], c>> \in delivered'
      BY DEF TurnsAreTaken
    <3>1. CASE v = w
      <4>1. c < turn[w] \/ c = turn[w]
        BY <2>1, <2>2, <3>1 DEF OInv, TypeOK
      <4> QED
        BY <2>1, <3>1, <4>1 DEF OInv, TurnsAreTaken
    <3>2. CASE v # w
      BY <2>1, <3>2 DEF OInv, TypeOK, TurnsAreTaken
    <3> QED
      BY <3>1, <3>2
  <2> QED
    BY <1>1, <2>1, <2>3, <2>4, <2>5 DEF OInv
<1>6. CASE RowFails(w) \/ Ship(w)
  <2>1. /\ pc[w] = "handle" /\ NextRow(w)
        /\ UNCHANGED <<publisherVars, delivered>>
    BY <1>6 DEF RowFails, Ship
  <2>2. /\ status' = status \/ status' = [status EXCEPT ![row[w]] = "shipped"]
        /\ faults' \in Nat
    BY <1>6 DEF RowFails, Ship, Spend, OInv, TypeOK
  <2>3. row[w] \in Events /\ status[row[w]] # "none"
    BY <2>1 DEF OInv, TypeOK, HeldRowsExist
  <2>4. /\ status' \in [Events -> {"none", "pending", "shipped"}]
        /\ \A e \in Events : status'[e] # "none" <=> status[e] # "none"
    BY <2>2, <2>3 DEF OInv, TypeOK
  <2>5. TypeOK'
    BY <2>1, <2>2, <2>4, NextRowMoves DEF OInv, TypeOK, publisherVars
  <2>6. HeldRowsExist' /\ DeliveredExist'
    BY <2>1, <2>4, NextRowMoves DEF OInv, TypeOK, HeldRowsExist, DeliveredExist
  <2>7. TurnsAreTaken'
    <3> SUFFICES ASSUME NEW v \in Workers, pc'[v] = "handle", NEW c \in 1..Consumers,
                        c < turn'[v]
                 PROVE  <<row'[v], c>> \in delivered'
      BY DEF TurnsAreTaken
    <3>1. v # w
      BY <2>1, NextRowMoves
    <3> QED
      BY <2>1, <3>1, NextRowMoves DEF OInv, TurnsAreTaken
  <2> QED
    BY <1>1, <2>1, <2>4, <2>5, <2>6, <2>7 DEF OInv
<1>7. CASE Crash(w)
  <2>1. /\ Leave(w) /\ faults' \in Nat
        /\ UNCHANGED <<publisherVars, status, delivered>>
    BY <1>7 DEF Crash, Spend, OInv, TypeOK
  <2>2. TypeOK'
    BY <1>2, <2>1 DEF Leave, OInv, TypeOK, publisherVars
  <2>3. HeldRowsExist' /\ TurnsAreTaken' /\ DeliveredExist'
    BY <2>1 DEF Leave, OInv, TypeOK, HeldRowsExist, TurnsAreTaken, DeliveredExist
  <2> QED
    BY <1>1, <2>1, <2>2, <2>3 DEF OInv
<1> QED
  BY <1>3, <1>4, <1>5, <1>6, <1>7 DEF Tick

----------------------------------------------------------------------------
(* The invariant holds throughout.                                         *)
LEMMA OutboxInvariant == Spec => []OInv
<1>1. Init => OInv
  BY OutboxAssumption DEF Init, OInv, TypeOK, Unannounced, RowsAreCommitted, HeldRowsExist,
                          TurnsAreTaken, DeliveredExist
<1>2. OInv /\ [Next]_vars => OInv'
  <2> SUFFICES ASSUME OInv, [Next]_vars PROVE OInv'
    OBVIOUS
  <2>1. CASE UNCHANGED vars
    BY <2>1 DEF OInv, TypeOK, Unannounced, RowsAreCommitted, HeldRowsExist, TurnsAreTaken,
                DeliveredExist, vars, publisherVars, workerVars
  <2>2. CASE Next
    BY <2>2, PublisherInv, WorkerInv DEF Next
  <2> QED
    BY <2>1, <2>2
<1> QED
  BY <1>1, <1>2, PTL DEF Spec

(* Every reachable state is well-typed.                                    *)
THEOREM OutboxTypeCorrect == Spec => []TypeOK
<1>1. OInv => TypeOK
  BY DEF OInv
<1> QED
  BY <1>1, OutboxInvariant, PTL

(* An event published with its transaction, and whatever consumers do with *)
(* it, never outlives a rolled-back write (EventOutboxService.publish).    *)
THEOREM FactsHold == Spec => []FactsAreCommitted
<1>1. OInv => FactsAreCommitted
  BY DEF OInv, TypeOK, RowsAreCommitted, DeliveredExist, FactsAreCommitted
<1> QED
  BY <1>1, OutboxInvariant, PTL

(* Replicas that claim the same rows, crash and overwrite one another      *)
(* still run the consumers in order and ship only what all have had.       *)
THEOREM DeliversAsPromised == Spec => ImplementsDelivery
<1> SUFFICES Spec => Delivery!Spec
  BY DEF ImplementsDelivery
<1>1. Init => Delivery!Init
  BY DEF Init, Delivery!Init
<1>2. ASSUME OInv, [Next]_vars PROVE [Delivery!Next]_(Delivery!vars)
  <2>1. ASSUME status' = status, delivered' = delivered PROVE UNCHANGED Delivery!vars
    BY <2>1 DEF Delivery!vars
  <2>2. ASSUME NEW e \in Events, Publish(e) PROVE [Delivery!Next]_(Delivery!vars)
    <3>1. /\ UNCHANGED delivered
          /\ {d \in Events : status'[d] = "shipped"} = {d \in Events : status[d] = "shipped"}
          /\ \/ status'[e] # "none"
             \/ \A d \in Events : status'[d] = status[d]
          /\ \A d \in Events : d # e => (status'[d] # "none" <=> status[d] # "none")
          /\ status[e] # "none" => status'[e] # "none"
      BY <1>2, <2>2, PublisherStep DEF OInv, TypeOK
    <3>2. CASE status'[e] # "none"
      <4>1. {d \in Events : status'[d] # "none"} = {d \in Events : status[d] # "none"} \cup {e}
        BY <3>1, <3>2
      <4>2. Delivery!Announce(e)
        BY <3>1, <4>1 DEF Delivery!Announce
      <4> QED
        BY <4>2 DEF Delivery!Next
    <3>3. CASE \A d \in Events : status'[d] = status[d]
      <4>1. UNCHANGED Delivery!vars
        BY <3>1, <3>3 DEF Delivery!vars
      <4> QED
        BY <4>1
    <3> QED
      BY <3>1, <3>2, <3>3
  <2>3. ASSUME NEW w \in Workers, ClaimRows(w) \/ ClaimReturns(w) \/ Crash(w) \/ RowFails(w)
        PROVE  [Delivery!Next]_(Delivery!vars)
    BY <2>1, <2>3 DEF ClaimRows, ClaimReturns, Crash, RowFails
  <2>4. ASSUME NEW w \in Workers, RunHandler(w) PROVE Delivery!Next
    <3>1. /\ pc[w] = "handle" /\ turn[w] <= Consumers
          /\ delivered' = delivered \cup {<<row[w], turn[w]>>}
          /\ UNCHANGED status
      BY <2>4 DEF RunHandler
    <3>2. row[w] \in Events /\ status[row[w]] # "none" /\ turn[w] \in 1..Consumers
      BY <1>2, <3>1, OutboxAssumption DEF OInv, TypeOK, HeldRowsExist
    <3>3. \A earlier \in 1..(turn[w] - 1) : <<row[w], earlier>> \in delivered
      <4> SUFFICES ASSUME NEW earlier \in 1..(turn[w] - 1)
                   PROVE  <<row[w], earlier>> \in delivered
        OBVIOUS
      <4>1. earlier \in 1..Consumers /\ earlier < turn[w]
        BY <3>2, OutboxAssumption
      <4> QED
        BY <1>2, <3>1, <4>1 DEF OInv, TurnsAreTaken
    <3>4. Delivery!Deliver(row[w], turn[w])
      BY <3>1, <3>2, <3>3 DEF Delivery!Deliver
    <3> QED
      BY <3>2, <3>4 DEF Delivery!Next
  <2>5. ASSUME NEW w \in Workers, Ship(w) PROVE Delivery!Next
    <3>1. /\ pc[w] = "handle" /\ turn[w] > Consumers
          /\ status' = [status EXCEPT ![row[w]] = "shipped"]
          /\ UNCHANGED delivered
      BY <2>5 DEF Ship
    <3>2. row[w] \in Events /\ status[row[w]] # "none"
      BY <1>2, <3>1 DEF OInv, TypeOK, HeldRowsExist
    <3>3. \A c \in 1..Consumers : <<row[w], c>> \in delivered
      <4> SUFFICES ASSUME NEW c \in 1..Consumers PROVE <<row[w], c>> \in delivered
        OBVIOUS
      <4>1. c < turn[w]
        BY <1>2, <3>1, OutboxAssumption DEF OInv, TypeOK
      <4> QED
        BY <1>2, <3>1, <4>1 DEF OInv, TurnsAreTaken
    <3>4. /\ {e \in Events : status'[e] # "none"} = {e \in Events : status[e] # "none"}
          /\ {e \in Events : status'[e] = "shipped"} =
               {e \in Events : status[e] = "shipped"} \cup {row[w]}
      BY <1>2, <3>1, <3>2 DEF OInv, TypeOK
    <3> QED
      BY <3>1, <3>2, <3>3, <3>4 DEF Delivery!Next, Delivery!Finish
  <2>6. CASE UNCHANGED vars
    BY <2>1, <2>6 DEF vars
  <2> QED
    BY <1>2, <2>2, <2>3, <2>4, <2>5, <2>6 DEF Next, Tick
<1> QED
  BY <1>1, <1>2, OutboxInvariant, PTL DEF Spec, Delivery!Spec
=============================================================================
