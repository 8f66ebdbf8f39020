------------------------------ MODULE SyncPush ------------------------------
(***************************************************************************)
(* Offline synchronisation: the operation queue of an Android till and the *)
(* batches the server makes of it.  The till may push from several places  *)
(* at once (the periodic worker, the one-shot worker, the message screen), *)
(* gives up after 60 s or when it is killed, and then pushes again what it *)
(* still holds as queued, while the server goes on with the batch it has.  *)
(* The server handles a batch operation by operation, each under its own   *)
(* idempotency key; what it learns of client ids lives for one batch.      *)
(*                                                                         *)
(* Operations are numbered by deviceSeq.  Kind and Refs describe a day of  *)
(* the till: which operation refers to which by client id.                 *)
(***************************************************************************)
EXTENDS Naturals, FiniteSets

CONSTANTS
  Ops,        \* the operations of the device, numbered by deviceSeq
  Kind,       \* what each operation is
  Refs,       \* the operations whose rows each operation refers to
  Requests,   \* pushes that can be on their way at the same time
  Limit,      \* operations the device puts into one batch
  MaxFaults,  \* bound: refusals, failures, lost answers, crashes
  MaxRetries  \* bound: taps on "Retry" in the sync screen

Kinds == {"open", "close", "movement", "sale", "refund", "customer"}

ASSUME SyncAssumption ==
  /\ Ops \subseteq Nat \ {0}
  /\ Kind \in [Ops -> Kinds]
  /\ Refs \in [Ops -> SUBSET Ops]
  /\ \A o \in Ops : \A p \in Refs[o] : p < o /\ Kind[p] \in {"open", "sale", "customer"}
  /\ Limit \in Nat /\ MaxFaults \in Nat /\ MaxRetries \in Nat

VARIABLES
  status,     \* op_queue.status on the device
  known,      \* operations whose server id has reached the device
  byServer,   \* references an operation carries as server ids
  dev,        \* where the device is with each push
  answer,     \* the results of each push, not yet marked
  srv,        \* where the server is with each push
  todo,       \* the operations of the batch not yet handled
  mapped,     \* clientIdMap of the batch
  failed,     \* failedClientIds of the batch
  last,       \* lastAppliedSeq of the batch
  record,     \* the IdempotencyRecord of each operation
  applied,    \* how often each operation has taken effect
  letters,    \* the rows of SyncOpDeadLetter
  unwritten,  \* dead letters that could not be written, only logged
  lastPushSeq,
  faults, retries

deviceVars == <<status, known, byServer, retries>>
batchVars == <<todo, mapped, failed, last>>
bookVars == <<record, applied>>
letterVars == <<letters, unwritten>>
vars == <<deviceVars, dev, answer, srv, batchVars, bookVars, letterVars, lastPushSeq, faults>>

----------------------------------------------------------------------------
OwnId(o) == Kind[o] = "customer"             \* the client id is the server id
SavesOutcome(o) == Kind[o] # "customer"      \* recordBusinessOutcome in the transaction
SavesId(o) == Kind[o] = "open"               \* ... of a row that is itself the body
UsesServerId(o) == Kind[o] \in {"close", "refund"}

Queued == {o \in Ops : status[o] = "queued"}
Handled(o) == applied[o] > 0 \/ o \in letters \/ o \in unwritten
Answered(r) == {o \in Ops : answer[r][o] # "none"}

(* The server takes the operations of a batch in the order of deviceSeq.   *)
TakenUnsorted(r, o) == o \in todo[r]         \* mutant: the sort is forgotten
Taken(r, o) == o \in todo[r] /\ \A q \in todo[r] : o <= q

Resolves(r, o, p) == OwnId(p) \/ p \in byServer[o] \/ p \in mapped[r]
Broken(r, o) == \E p \in Refs[o] \ byServer[o] : p \in failed[r]
SessionClosed(o) ==
  \E c \in Ops \ {o} : Kind[c] = "close" /\ applied[c] > 0 /\ Refs[o] \cap Refs[c] # {}
Feasible(r, o) ==
  /\ \A p \in Refs[o] : applied[p] > 0 /\ Resolves(r, o, p)
  /\ ~SessionClosed(o)

Spend == faults < MaxFaults /\ faults' = faults + 1

TypeOK ==
  /\ status \in [Ops -> {"none", "queued", "pushed", "failed"}]
  /\ known \subseteq Ops
  /\ byServer \in [Ops -> SUBSET Ops]
  /\ dev \in [Requests -> {"idle", "waiting", "marking"}]
  /\ answer \in [Requests -> [Ops -> {"none", "named", "unnamed", "failed"}]]
  /\ srv \in [Requests -> {"idle", "next", "handler", "final", "replied"}]
  /\ todo \in [Requests -> SUBSET Ops]
  /\ mapped \in [Requests -> SUBSET Ops]
  /\ failed \in [Requests -> SUBSET Ops]
  /\ last \in [Requests -> Ops \cup {0}]
  /\ record \in [Ops -> {"free", "pending", "saved", "completed"}]
  /\ applied \in [Ops -> Nat]
  /\ letters \subseteq Ops /\ unwritten \subseteq Ops
  /\ lastPushSeq \in Ops \cup {0}
  /\ faults \in Nat /\ retries \in Nat

NoAnswers == [o \in Ops |-> "none"]

Init ==
  /\ status = [o \in Ops |-> "none"]
  /\ known = {}
  /\ byServer = [o \in Ops |-> {}]
  /\ dev = [r \in Requests |-> "idle"]
  /\ answer = [r \in Requests |-> NoAnswers]
  /\ srv = [r \in Requests |-> "idle"]
  /\ todo = [r \in Requests |-> {}]
  /\ mapped = [r \in Requests |-> {}]
  /\ failed = [r \in Requests |-> {}]
  /\ last = [r \in Requests |-> 0]
  /\ record = [o \in Ops |-> "free"]
  /\ applied = [o \in Ops |-> 0]
  /\ letters = {} /\ unwritten = {}
  /\ lastPushSeq = 0
  /\ faults = 0 /\ retries = 0

----------------------------------------------------------------------------
(* The device.                                                             *)

(* The cashier works; the operation goes to the end of the queue.  Sales   *)
(* and movements name their shift by its local id, a close or a refund by  *)
(* the server's id if that has arrived.  A shift is not closed while       *)
(* rejected operations are outstanding.                                    *)
Enqueue(o) ==
  /\ status[o] = "none"
  /\ \A q \in Ops : q < o => status[q] # "none"
  /\ Kind[o] = "close" => \A q \in Ops : status[q] # "failed"
  /\ status' = [status EXCEPT ![o] = "queued"]
  /\ byServer' = [byServer EXCEPT ![o] = IF UsesServerId(o) THEN Refs[o] \cap known ELSE {}]
  /\ UNCHANGED <<known, retries, dev, answer, srv, batchVars, bookVars, letterVars,
                 lastPushSeq, faults>>

(* nextBatch: the queued operations in order, as many as the limit allows. *)
NextBatch == {o \in Queued : Cardinality({q \in Queued : q < o}) < Limit}

Push(r) ==
  /\ dev[r] = "idle" /\ srv[r] = "idle"
  /\ NextBatch # {}
  /\ dev' = [dev EXCEPT ![r] = "waiting"]
  /\ srv' = [srv EXCEPT ![r] = "next"]
  /\ todo' = [todo EXCEPT ![r] = NextBatch]
  /\ UNCHANGED <<deviceVars, answer, mapped, failed, last, bookVars, letterVars,
                 lastPushSeq, faults>>

(* The answer arrives.                                                     *)
Receive(r) ==
  /\ dev[r] = "waiting" /\ srv[r] = "replied"
  /\ dev' = [dev EXCEPT ![r] = "marking"]
  /\ srv' = [srv EXCEPT ![r] = "idle"]
  /\ UNCHANGED <<deviceVars, answer, batchVars, bookVars, letterVars, lastPushSeq, faults>>

(* Each result is marked by opId, whatever the row says by now.  A sale    *)
(* that is told to have failed loses the server id it had.                 *)
MarkOnlyDone(o, result) ==                   \* mutant: failures stay queued
  status' = [status EXCEPT ![o] = IF result = "failed" THEN @ ELSE "pushed"]
MarkStatus(o, result) ==
  status' = [status EXCEPT ![o] = IF result = "failed" THEN "failed" ELSE "pushed"]

Mark(r, o) ==
  /\ dev[r] = "marking"
  /\ o \in Answered(r) /\ \A q \in Answered(r) : o <= q
  /\ MarkStatus(o, answer[r][o])
  /\ known' = CASE answer[r][o] = "named" -> known \cup {o}
                [] answer[r][o] = "failed" /\ Kind[o] = "sale" -> known \ {o}
                [] OTHER -> known
  /\ answer' = [answer EXCEPT ![r][o] = "none"]
  /\ dev' = [dev EXCEPT ![r] = IF Answered(r) = {o} THEN "idle" ELSE @]
  /\ UNCHANGED <<byServer, retries, srv, batchVars, bookVars, letterVars, lastPushSeq, faults>>

(* The device stops waiting: the connection broke with the server's end of *)
(* it, or it timed out, lost the answer or was killed.                     *)
GiveUp(r) ==
  /\ dev[r] = "waiting"
  /\ IF srv[r] = "idle" THEN UNCHANGED faults ELSE Spend
  /\ dev' = [dev EXCEPT ![r] = "idle"]
  /\ srv' = [srv EXCEPT ![r] = IF @ = "replied" THEN "idle" ELSE @]
  /\ answer' = [answer EXCEPT ![r] = IF srv[r] = "replied" THEN NoAnswers ELSE @]
  /\ UNCHANGED <<deviceVars, batchVars, bookVars, letterVars, lastPushSeq>>

(* The app is killed while it marks results: the others stay queued.       *)
Killed(r) ==
  /\ dev[r] = "marking" /\ Spend
  /\ dev' = [dev EXCEPT ![r] = "idle"]
  /\ answer' = [answer EXCEPT ![r] = NoAnswers]
  /\ UNCHANGED <<deviceVars, srv, batchVars, bookVars, letterVars, lastPushSeq>>

(* The button of the sync screen.                                          *)
Retry(o) ==
  /\ status[o] = "failed" /\ retries < MaxRetries
  /\ retries' = retries + 1
  /\ status' = [status EXCEPT ![o] = "queued"]
  /\ UNCHANGED <<known, byServer, dev, answer, srv, batchVars, bookVars, letterVars,
                 lastPushSeq, faults>>

----------------------------------------------------------------------------
(* The server, operation by operation.                                     *)

(* The operation is dead-lettered, unless even that fails, and its client  *)
(* id counts as failed for the rest of the batch.                          *)
Fail(r, o) ==
  /\ todo' = [todo EXCEPT ![r] = @ \ {o}]
  /\ failed' = [failed EXCEPT ![r] = @ \cup {o}]
  /\ answer' = [answer EXCEPT ![r][o] = "failed"]
  /\ srv' = [srv EXCEPT ![r] = "next"]
  /\ letters' = letters \cup {o}
  /\ UNCHANGED <<deviceVars, dev, mapped, last, applied, unwritten, lastPushSeq>>

FailUnwritten(r, o) ==
  /\ todo' = [todo EXCEPT ![r] = @ \ {o}]
  /\ failed' = [failed EXCEPT ![r] = @ \cup {o}]
  /\ answer' = [answer EXCEPT ![r][o] = "failed"]
  /\ srv' = [srv EXCEPT ![r] = "next"]
  /\ unwritten' = unwritten \cup {o}
  /\ UNCHANGED <<deviceVars, dev, mapped, last, applied, letters, lastPushSeq>>

(* The operation is answered with a body; one with an id names the row to  *)
(* the operations that follow, one with a mapping names it to the device.  *)
Succeed(r, o, result) ==
  /\ todo' = [todo EXCEPT ![r] = @ \ {o}]
  /\ mapped' = [mapped EXCEPT ![r] = IF result = "named" \/ SavesId(o) THEN @ \cup {o} ELSE @]
  /\ answer' = [answer EXCEPT ![r][o] = result]
  /\ last' = [last EXCEPT ![r] = o]
  /\ srv' = [srv EXCEPT ![r] = "next"]
  /\ UNCHANGED <<deviceVars, dev, failed, applied, letterVars, lastPushSeq>>

AtHand(r, o, place) == srv[r] = place /\ Taken(r, o)

(* Not a user who may act (403), or a reference to an operation that       *)
(* failed in this batch (424): neither touches the key.                    *)
Deny(r, o) ==
  /\ AtHand(r, o, "next") /\ Spend
  /\ Fail(r, o) /\ UNCHANGED record

FailFast(r, o) ==
  /\ AtHand(r, o, "next") /\ Broken(r, o)
  /\ Fail(r, o) /\ UNCHANGED <<record, faults>>

(* executeWithKey as far as the record goes (module Idempotency has every  *)
(* step of it): a free key is taken, a finished one replayed, a pending    *)
(* one refused.                                                            *)
KeyFreeAgain(o) == record[o] \in {"free", "pending"}  \* mutant: pending is no lock
KeyFree(o) == record[o] = "free"

Begin(r, o) ==
  /\ AtHand(r, o, "next") /\ ~Broken(r, o)
  /\ KeyFree(o)
  /\ record' = [record EXCEPT ![o] = "pending"]
  /\ srv' = [srv EXCEPT ![r] = "handler"]
  /\ UNCHANGED <<deviceVars, dev, answer, batchVars, applied, letterVars, lastPushSeq, faults>>

Replay(r, o) ==
  /\ AtHand(r, o, "next") /\ ~Broken(r, o)
  /\ \/ record[o] = "completed" /\ Succeed(r, o, "named")
     \/ record[o] = "saved" /\ Succeed(r, o, "unnamed")
  /\ UNCHANGED <<record, faults>>

Locked(r, o) ==
  /\ AtHand(r, o, "next") /\ ~Broken(r, o)
  /\ record[o] = "pending"
  /\ Fail(r, o) /\ UNCHANGED <<record, faults>>

(* runOp: references are resolved, the handler commits or refuses.  On     *)
(* this path a refusal leaves the record pending.                          *)
Commit(r, o) ==
  /\ AtHand(r, o, "handler") /\ Feasible(r, o)
  /\ applied' = [applied EXCEPT ![o] = @ + 1]
  /\ record' = [record EXCEPT ![o] = IF SavesOutcome(o) THEN "saved" ELSE @]
  /\ srv' = [srv EXCEPT ![r] = "final"]
  /\ UNCHANGED <<deviceVars, dev, answer, batchVars, letterVars, lastPushSeq, faults>>

Refuse(r, o) ==
  /\ AtHand(r, o, "handler")
  /\ IF Feasible(r, o) THEN Spend ELSE UNCHANGED faults
  /\ Fail(r, o) /\ UNCHANGED record

(* The record is completed with the body.  If that fails, an outcome saved *)
(* in the transaction is answered in its place, if it can be read.         *)
Complete(r, o) ==
  /\ AtHand(r, o, "final")
  /\ record' = [record EXCEPT ![o] = "completed"]
  /\ Succeed(r, o, "named") /\ UNCHANGED faults

CompleteFails(r, o) ==
  /\ AtHand(r, o, "final") /\ Spend
  /\ \/ record[o] = "saved" /\ Succeed(r, o, "unnamed")
     \/ Fail(r, o)
  /\ UNCHANGED record

(* The dead letter of an operation that fails cannot be written either.    *)
LoseLetter(r, o) ==
  /\ \/ AtHand(r, o, "next") /\ (Broken(r, o) \/ record[o] = "pending")
     \/ AtHand(r, o, "handler") /\ ~Feasible(r, o)
  /\ Spend
  /\ FailUnwritten(r, o) /\ UNCHANGED record

(* The maps of a batch are local variables of push.                        *)
ForgetBatch(r) ==
  /\ todo' = [todo EXCEPT ![r] = {}]
  /\ mapped' = [mapped EXCEPT ![r] = {}]
  /\ failed' = [failed EXCEPT ![r] = {}]
  /\ last' = [last EXCEPT ![r] = 0]

(* The end of the batch: lastPushSeq moves up (a failure of the update is  *)
(* swallowed), and the results are sent to whoever still waits.            *)
Reply(r) ==
  /\ srv[r] = "next" /\ todo[r] = {}
  /\ \/ /\ lastPushSeq' = IF lastPushSeq < last[r] THEN last[r] ELSE lastPushSeq
        /\ UNCHANGED faults
     \/ Spend /\ UNCHANGED lastPushSeq
  /\ srv' = [srv EXCEPT ![r] = IF dev[r] = "waiting" THEN "replied" ELSE "idle"]
  /\ answer' = [answer EXCEPT ![r] = IF dev[r] = "waiting" THEN @ ELSE NoAnswers]
  /\ ForgetBatch(r)
  /\ UNCHANGED <<deviceVars, dev, bookVars, letterVars>>

(* The server dies with the batch; what it has committed stays.            *)
Crash(r) ==
  /\ srv[r] \in {"next", "handler", "final"} /\ Spend
  /\ srv' = [srv EXCEPT ![r] = "idle"]
  /\ answer' = [answer EXCEPT ![r] = NoAnswers]
  /\ ForgetBatch(r)
  /\ UNCHANGED <<deviceVars, dev, bookVars, letterVars, lastPushSeq>>

----------------------------------------------------------------------------
ServerStep(r) ==
  \/ \E o \in Ops : \/ Deny(r, o) \/ FailFast(r, o) \/ Begin(r, o) \/ Replay(r, o)
                    \/ Locked(r, o) \/ Commit(r, o) \/ Refuse(r, o)
                    \/ Complete(r, o) \/ CompleteFails(r, o) \/ LoseLetter(r, o)
  \/ Reply(r)

DeviceStep(r) ==
  \/ Push(r)
  \/ Receive(r)
  \/ \E o \in Ops : Mark(r, o)
  \/ GiveUp(r)

Next ==
  \/ \E o \in Ops : Enqueue(o) \/ Retry(o)
  \/ \E r \in Requests : ServerStep(r) \/ DeviceStep(r) \/ Killed(r) \/ Crash(r)

(* The workers push as long as something is queued and mark what they are  *)
(* told; the server ends the batches it has received.                      *)
Spec == Init /\ [][Next]_vars
             /\ \A r \in Requests : WF_vars(ServerStep(r)) /\ WF_vars(DeviceStep(r))

----------------------------------------------------------------------------
(* Properties.                                                             *)

(* sync-push.service.ts and the queue keep the promise of OfflineDelivery: *)
(* however often a batch is pushed again, by however many workers, an      *)
(* operation takes effect once, after what it refers to; the device        *)
(* believes in success only for what was applied, and in a refusal only    *)
(* for what is dead-lettered (or was logged when that was impossible).     *)
Told == [o \in Ops |-> CASE status[o] = "pushed" -> "done"
                         [] status[o] = "failed" -> "refused"
                         [] OTHER -> "open"]
Delivery == INSTANCE OfflineDelivery WITH
  count <- applied, noted <- letters \cup unwritten, told <- Told
ImplementsDelivery == Delivery!Spec

(* The batches together handle operations in the order of deviceSeq (the   *)
(* order of nextBatch and the sort of push): when one has been applied or  *)
(* refused, all before it have been too, over every batch boundary, lost   *)
(* answer and overlap; lastPushSeq stands for a prefix of the queue.       *)
HandledInOrder ==
  /\ \A o, q \in Ops : Handled(o) /\ q < o => Handled(q)
  /\ \A q \in Ops : q <= lastPushSeq => Handled(q)

(* Everything the cashier has queued is answered in the end: no operation  *)
(* stays "waiting to push", whatever was lost on the way (SyncWorker       *)
(* retries what is queued; a refusal ends an operation's waiting too).     *)
EverythingSettles == <>[](Queued = {})

(* Sales and movements carry the local id of their shift; the comments in  *)
(* the app (CashSessionRepository.kt, "resolved server-side") and the      *)
(* clientIdMap of the batch are to make it the server's.  So a handler     *)
(* that runs after what it refers to was applied finds it.                 *)
ReferencesResolve ==
  \A r \in Requests, o \in Ops :
    AtHand(r, o, "handler") =>
      \A p \in Refs[o] : applied[p] > 0 => Resolves(r, o, p)
=============================================================================
