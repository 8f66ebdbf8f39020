------------------------------- MODULE Outbox -------------------------------
(***************************************************************************)
(* The transactional event outbox: publishers write rows, the OutboxWorker *)
(* of every API replica claims batches of them and runs the consumers.     *)
(* The claim token and the number of attempts are written by the code but  *)
(* no condition reads them, so they are not part of the state.             *)
(***************************************************************************)
EXTENDS Naturals, FiniteSets

CONSTANTS
  Workers,    \* API replicas, each with one OutboxWorker
  Events,     \* one business write and the event it publishes
  ViaBus,     \* events published through EventBus, without a transaction
  Consumers,  \* each event has the consumers 1..Consumers
  Poison,     \* <<event, consumer>> pairs whose handler always throws
  BatchSize,  \* OUTBOX_BATCH
  Clock,      \* the values createdAt can have, as numbers
  MaxFaults   \* bound: crashes and occasional failures in one behaviour

ASSUME OutboxAssumption ==
  /\ ViaBus \subseteq Events
  /\ Consumers \in Nat
  /\ Poison \subseteq Events \X (1..Consumers)
  /\ BatchSize \in Nat \ {0}
  /\ Clock \subseteq Nat
  /\ MaxFaults \in Nat

VARIABLES
  status,     \* the status column of each row; "none": no row yet
  createdAt,
  ledger,     \* events with a DomainEventLog row
  write,      \* the business write behind each event
  emitted,    \* how far the publish of an EventBus event has come
  pc,         \* where each worker is
  batch,      \* the rows a worker claimed and has not finished with
  row,        \* the one it is working on
  turn,       \* the consumer of that row whose turn it is
  delivered,  \* <<event, consumer>> pairs whose handler has run
  faults

publisherVars == <<createdAt, ledger, write, emitted>>
workerVars == <<pc, batch, row, turn>>
vars == <<publisherVars, status, workerVars, delivered, faults>>

TypeOK ==
  /\ status \in [Events -> {"none", "pending", "shipped"}]
  /\ createdAt \in [Events -> Nat]
  /\ ledger \subseteq Events
  /\ write \in [Events -> {"open", "committed", "rolledback"}]
  /\ emitted \in [Events -> {"no", "row", "done"}]
  /\ pc \in [Workers -> {"idle", "claiming", "handle"}]
  /\ batch \in [Workers -> SUBSET Events]
  /\ row \in [Workers -> Events \cup {"none"}]
  /\ turn \in [Workers -> 1..(Consumers + 1)]
  /\ delivered \subseteq Events \X (1..Consumers)
  /\ faults \in Nat

Init ==
  /\ status = [e \in Events |-> "none"]
  /\ createdAt = [e \in Events |-> 0]
  /\ ledger = {}
  /\ write = [e \in Events |-> "open"]
  /\ emitted = [e \in Events |-> "no"]
  /\ pc = [w \in Workers |-> "idle"]
  /\ batch = [w \in Workers |-> {}]
  /\ row = [w \in Workers |-> "none"]
  /\ turn = [w \in Workers |-> 1]
  /\ delivered = {}
  /\ faults = 0

Spend == faults < MaxFaults /\ faults' = faults + 1

----------------------------------------------------------------------------
(* Publishers.  createdAt is taken when the row is written, by the clock   *)
(* of the publisher, and the row is seen when its transaction commits: the *)
(* rows do not appear in the order of their createdAt.                     *)
InsertRow(e) ==
  /\ status' = [status EXCEPT ![e] = "pending"]
  /\ \E t \in Clock : createdAt' = [createdAt EXCEPT ![e] = t]

(* publish(tx, ...): the row and the fact are part of the business write.  *)
PublishEarly(e) ==  \* mutant: the publish is not given the transaction
  /\ e \notin ViaBus /\ write[e] = "open" /\ status[e] = "none"
  /\ InsertRow(e)
  /\ ledger' = ledger \cup {e}
  /\ UNCHANGED <<write, emitted, workerVars, delivered, faults>>

CommitWithEvent(e) ==
  /\ e \notin ViaBus /\ write[e] = "open"
  /\ write' = [write EXCEPT ![e] = "committed"]
  /\ InsertRow(e)
  /\ ledger' = ledger \cup {e}
  /\ UNCHANGED <<emitted, workerVars, delivered, faults>>

CommitAlone(e) ==
  /\ e \in ViaBus /\ write[e] = "open"
  /\ write' = [write EXCEPT ![e] = "committed"]
  /\ UNCHANGED <<createdAt, status, ledger, emitted, workerVars, delivered, faults>>

RollBack(e) ==
  /\ write[e] = "open"
  /\ write' = [write EXCEPT ![e] = "rolledback"]
  /\ UNCHANGED <<createdAt, status, ledger, emitted, workerVars, delivered, faults>>

(* EventBus.publish: fire and forget, at any time until the write ends in  *)
(* failure, with one statement for the row and one for the fact.           *)
EmitRow(e) ==
  /\ e \in ViaBus /\ emitted[e] = "no" /\ write[e] # "rolledback"
  /\ emitted' = [emitted EXCEPT ![e] = "row"]
  /\ InsertRow(e)
  /\ UNCHANGED <<ledger, write, workerVars, delivered, faults>>

RecordFact(e) ==
  /\ emitted[e] = "row"
  /\ emitted' = [emitted EXCEPT ![e] = "done"]
  /\ ledger' = ledger \cup {e}
  /\ UNCHANGED <<createdAt, status, write, workerVars, delivered, faults>>

(* A statement of the publish fails, or the process dies before it: the    *)
(* error is logged and nothing tries again.                                *)
EmitFails(e) ==
  /\ e \in ViaBus /\ emitted[e] # "done"
  /\ Spend
  /\ emitted' = [emitted EXCEPT ![e] = "done"]
  /\ UNCHANGED <<createdAt, status, ledger, write, workerVars, delivered>>

Publish(e) ==
  \/ CommitWithEvent(e) \/ CommitAlone(e) \/ RollBack(e)
  \/ EmitRow(e) \/ RecordFact(e) \/ EmitFails(e)

----------------------------------------------------------------------------
(* Workers.  A row is locked only while the claim statement runs.          *)
Locked(e) == \E w \in Workers : pc[w] = "claiming" /\ e \in batch[w]

Claimable == {e \in Events : status[e] = "pending" /\ ~Locked(e)}

(* The oldest rows, as many as a batch holds; ties go either way.          *)
Oldest(rows) ==
  /\ rows # {} /\ Cardinality(rows) <= BatchSize
  /\ Cardinality(rows) < BatchSize => rows = Claimable
  /\ \A d \in rows, e \in Claimable \ rows : createdAt[d] <= createdAt[e]

(* UPDATE ... WHERE id IN (SELECT ... ORDER BY createdAt LIMIT n FOR       *)
(* UPDATE SKIP LOCKED): the status stays pending.                          *)
ClaimRows(w) ==
  /\ pc[w] = "idle"
  /\ \E rows \in SUBSET Claimable : Oldest(rows) /\ batch' = [batch EXCEPT ![w] = rows]
  /\ pc' = [pc EXCEPT ![w] = "claiming"]
  /\ UNCHANGED <<publisherVars, status, row, turn, delivered, faults>>

(* RETURNING gives the rows in no particular order.                        *)
ClaimReturns(w) ==
  /\ pc[w] = "claiming"
  /\ pc' = [pc EXCEPT ![w] = "handle"]
  /\ \E e \in batch[w] : row' = [row EXCEPT ![w] = e]
  /\ turn' = [turn EXCEPT ![w] = 1]
  /\ UNCHANGED <<publisherVars, status, batch, delivered, faults>>

RunHandlerOn(w) ==  \* mutant: one consumer too many
  /\ pc[w] = "handle" /\ turn[w] <= Consumers + 1
  /\ delivered' = delivered \cup {<<row[w], turn[w]>>}
  /\ turn' = [turn EXCEPT ![w] = @ + 1]
  /\ UNCHANGED <<publisherVars, status, pc, batch, row, faults>>

RunHandler(w) ==
  /\ pc[w] = "handle" /\ turn[w] <= Consumers
  /\ <<row[w], turn[w]>> \notin Poison
  /\ delivered' = delivered \cup {<<row[w], turn[w]>>}
  /\ turn' = [turn EXCEPT ![w] = @ + 1]
  /\ UNCHANGED <<publisherVars, status, pc, batch, row, faults>>

(* The tick ends, or the worker turns to another row of its batch.         *)
Leave(w) ==
  /\ pc' = [pc EXCEPT ![w] = "idle"]
  /\ batch' = [batch EXCEPT ![w] = {}]
  /\ row' = [row EXCEPT ![w] = "none"]
  /\ turn' = [turn EXCEPT ![w] = 1]

NextRow(w) ==
  \/ batch[w] = {row[w]} /\ Leave(w)
  \/ /\ \E e \in batch[w] \ {row[w]} : row' = [row EXCEPT ![w] = e]
     /\ batch' = [batch EXCEPT ![w] = @ \ {row[w]}]
     /\ turn' = [turn EXCEPT ![w] = 1]
     /\ UNCHANGED pc

(* A handler throws, or the update that would mark the row shipped fails:  *)
(* what was left to do is skipped, and the row waits for another attempt.  *)
RowGivenUp(w) ==  \* mutant: a failed row is taken off the queue
  /\ pc[w] = "handle" /\ ~Locked(row[w])
  /\ Spend
  /\ status' = [status EXCEPT ![row[w]] = "none"]
  /\ NextRow(w)
  /\ UNCHANGED <<publisherVars, delivered>>

RowFails(w) ==
  /\ pc[w] = "handle" /\ ~Locked(row[w])
  /\ \/ <<row[w], turn[w]>> \in Poison /\ UNCHANGED faults
     \/ Spend
  /\ NextRow(w)
  /\ UNCHANGED <<publisherVars, status, delivered>>

ShipAfterFirst(w) ==  \* mutant: one consumer is enough
  /\ pc[w] = "handle" /\ turn[w] > 1 /\ ~Locked(row[w])
  /\ status' = [status EXCEPT ![row[w]] = "shipped"]
  /\ NextRow(w)
  /\ UNCHANGED <<publisherVars, delivered, faults>>

Ship(w) ==
  /\ pc[w] = "handle" /\ turn[w] > Consumers /\ ~Locked(row[w])
  /\ status' = [status EXCEPT ![row[w]] = "shipped"]
  /\ NextRow(w)
  /\ UNCHANGED <<publisherVars, delivered, faults>>

(* The replica dies or is restarted in the middle of its batch.            *)
Crash(w) ==
  /\ pc[w] # "idle"
  /\ Spend
  /\ Leave(w)
  /\ UNCHANGED <<publisherVars, status, delivered>>

Tick(w) == \/ ClaimRows(w) \/ ClaimReturns(w) \/ RunHandler(w)
           \/ RowFails(w) \/ Ship(w)

Next ==
  \/ \E e \in Events : Publish(e)
  \/ \E w \in Workers : Tick(w) \/ Crash(w)

Spec == Init /\ [][Next]_vars

(* Every replica polls on a timer and finishes the batch it claimed.       *)
Fairness == \A w \in Workers : WF_vars(Tick(w))

FairSpec == Spec /\ Fairness
----------------------------------------------------------------------------
(* The outbox delivers as promised: consumers in order, and a row is put   *)
(* aside only when all of them have run, whoever else works on the row.    *)
Delivery == INSTANCE EventDelivery WITH
              announced <- {e \in Events : status[e] # "none"},
              finished <- {e \in Events : status[e] = "shipped"}
ImplementsDelivery == Delivery!Spec

(* What a publisher writes with its transaction exists exactly when the    *)
(* write committed: "A ledger row must never outlive a rolled-back         *)
(* business write" (event-outbox.service.ts:55-57), and neither may an     *)
(* event that consumers have already acted on.                             *)
FactsAreCommitted ==
  \A e \in Events \ ViaBus :
    (e \in ledger \/ \E c \in 1..Consumers : <<e, c>> \in delivered)
      => write[e] = "committed"

Healthy == {e \in Events : \A c \in 1..Consumers : <<e, c>> \notin Poison}

(* Delivery is "at-least-once" (event-outbox.service.ts:19): an event all  *)
(* of whose consumers accept it is delivered, whatever order the rows are  *)
(* claimed in and whoever crashes, in every run in which poisoned rows     *)
(* never fill a batch: a failed row is tried again with its old createdAt, *)
(* ahead of the younger ones, and nothing bounds its attempts, so a batch  *)
(* full of them is claimed for ever and nothing else is delivered.         *)
PoisonFillsNoBatch ==
  Cardinality({e \in Events \ Healthy : status[e] = "pending"}) < BatchSize

HealthyIsDelivered ==
  []PoisonFillsNoBatch => \A e \in Healthy : status[e] = "pending" ~> status[e] = "shipped"
=============================================================================
