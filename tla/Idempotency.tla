---------------------------- MODULE Idempotency ----------------------------
(***************************************************************************)
(* The kernel's Idempotency-Key protocol (IdempotencyService) together     *)
(* with the money handler it protects.  Several requests carrying the same *)
(* key run concurrently: retries after a time-out, double clicks, replays  *)
(* of an offline queue.  Every database round trip of the service is a     *)
(* step of its own, because nothing holds the record between two of them.  *)
(*                                                                         *)
(* Route selects the rules the request's path falls under:                 *)
(*   "sale"    POST /pos/checkout and the settle routes: a pending record  *)
(*             is recovered by running the handler again;                  *)
(*   "outcome" the other OUTCOME_ROUTES (cash movements, transfers, ...):  *)
(*             a pending record is abandoned after two minutes;            *)
(*   "sync"    executeWithKey called by the sync push, whose path is the   *)
(*             operation type and matches neither expression: the pending  *)
(*             row is a lock that only an answer releases.                 *)
(***************************************************************************)
EXTENDS Integers, Sequences

CONSTANTS
  Attempts,    \* requests the server can be processing at the same time
  Keys,        \* Idempotency-Key values (per organisation)
  Payloads,    \* request bodies, told apart by requestHash
  Route,       \* which of the route expressions the path matches
  Handler,     \* "sale": three transactions; "single": one, such as a movement
  KeyGuarded,  \* the handler's own write is unique per key (treasury postingKey)
  Prompt,      \* a handler always ends within ABANDONED_AFTER_MS
  MaxFaults    \* bound: rejections, failures and crashes in one behaviour

ASSUME IdempotencyAssumption ==
  /\ Route \in {"sale", "outcome", "sync"}
  /\ Handler \in {"sale", "single"}
  /\ Route = "sale" => Handler = "sale"
  /\ KeyGuarded \in BOOLEAN
  /\ Prompt \in BOOLEAN
  /\ MaxFaults \in Nat

VARIABLES
  record,    \* the IdempotencyRecord row of each key
  effects,   \* how often each transaction of the handler has committed
  paid,      \* the bodies whose money has moved, in order, per key
  pc,        \* where each attempt is
  req,       \* the key and body each attempt carries
  err,       \* the class of the error an attempt is handling
  ans,       \* the answer an attempt is about to send
  told,      \* the answers clients have received
  faults     \* rejections, failures and crashes so far

vars == <<record, effects, paid, pc, req, err, ans, told, faults>>

----------------------------------------------------------------------------
(* The transactions of the handler.  A sale is three of them (create the   *)
(* order, bill it, take the payment); every other operation is one.        *)
Stages == IF Handler = "sale" THEN {"order", "invoice", "payment"}
                              ELSE {"payment"}

OutcomeRoute == Route \in {"sale", "outcome"}
NotRecoverable == Route = "sync"  \* mutant: the expression misses the path
RecoverableSale == Route = "sale"

Requests == [key : Keys, payload : Payloads]
Answers == {"ok", "safe", "busy", "conflict", "rejected", "failed"}
Positions == {"idle", "lookup", "insert", "clash", "release", "handler", "final",
              "catch", "cache", "reply"} \cup Stages

(* responseJson is abstracted to the set of outcomes merged into it.       *)
NoRecord == [status |-> "none", hash |-> {}, body |-> {}, code |-> 0, aged |-> FALSE]
Processing(p) ==  \* mutant: a status no reader knows
  [status |-> "processing", hash |-> {p}, body |-> {}, code |-> 0, aged |-> FALSE]
Pending(p) == [status |-> "pending", hash |-> {p}, body |-> {}, code |-> 0, aged |-> FALSE]

Records == [status : {"none", "pending", "business_completed", "completed"},
            hash : SUBSET Payloads,
            body : SUBSET (Stages \cup {"rejected"}),
            code : {0, 200, 201, 400},
            aged : BOOLEAN]

Write(r, status, code, body) ==
  [status |-> status, hash |-> r.hash, body |-> body, code |-> code, aged |-> r.aged]

Exists(r) == r.status # "none"
FinishedOrPending(r) == Exists(r)                \* mutant: any record is replayed
Finished(r) == r.status \in {"business_completed", "completed"}
Replayed(r) == IF r.code < 400 THEN "ok" ELSE "safe"
AbandonedAnywhere(r) == r.body = {} /\ r.aged    \* mutant: on every route
AbandonedSaved(r) == OutcomeRoute /\ r.body # {} /\ r.aged  \* mutant: the test inverted
Abandoned(r) == OutcomeRoute /\ r.body = {} /\ r.aged

KeyOf(a) == req[a].key
RecordOf(a) == record[KeyOf(a)]
Done(a, s) == s \in Stages /\ effects[KeyOf(a)][s] > 0

Running == {"handler", "order", "invoice", "payment", "final", "catch", "cache"}

----------------------------------------------------------------------------
TypeOK ==
  /\ record \in [Keys -> Records]
  /\ effects \in [Keys -> [Stages -> Nat]]
  /\ paid \in [Keys -> Seq(Payloads)]
  /\ pc \in [Attempts -> Positions]
  /\ req \in [Attempts -> Requests]
  /\ err \in [Attempts -> {"none", "client", "server"}]
  /\ ans \in [Attempts -> Answers \cup {"none"}]
  /\ \A a \in Attempts : pc[a] = "reply" => ans[a] \in Answers
  /\ told \subseteq [key : Keys, payload : Payloads, answer : Answers]
  /\ faults \in Nat

Init ==
  /\ record = [k \in Keys |-> NoRecord]
  /\ effects = [k \in Keys |-> [s \in Stages |-> 0]]
  /\ paid = [k \in Keys |-> <<>>]
  /\ pc = [a \in Attempts |-> "idle"]
  /\ req \in [Attempts -> Requests]
  /\ err = [a \in Attempts |-> "none"]
  /\ ans = [a \in Attempts |-> "none"]
  /\ told = {}
  /\ faults = 0

----------------------------------------------------------------------------
Goto(a, p) == pc' = [pc EXCEPT ![a] = p]

Move(a, from, to) ==
  /\ pc[a] = from
  /\ Goto(a, to)
  /\ UNCHANGED <<record, effects, paid, req, err, ans, told, faults>>

Respond(a, answer) ==
  /\ Goto(a, "reply")
  /\ ans' = [ans EXCEPT ![a] = answer]
  /\ UNCHANGED <<record, effects, paid, req, err, told, faults>>

Throw(a, class) ==
  /\ Goto(a, "catch")
  /\ err' = [err EXCEPT ![a] = class]

Spend == faults < MaxFaults /\ faults' = faults + 1

(* A client sends a request, or sends it again under the same key, whether *)
(* or not an earlier one is still being processed.                         *)
Start(a, r) ==
  /\ pc[a] = "idle"
  /\ Goto(a, "lookup")
  /\ req' = [req EXCEPT ![a] = r]
  /\ err' = [err EXCEPT ![a] = "none"]
  /\ ans' = [ans EXCEPT ![a] = "none"]
  /\ UNCHANGED <<record, effects, paid, told, faults>>

(* 1) Look for an existing record.                                         *)
AnyRequest(a) == Exists(RecordOf(a))  \* mutant: the hash is not compared
SameRequest(a) == RecordOf(a).hash = {req[a].payload}
AtPending(a) == pc[a] = "lookup" /\ SameRequest(a) /\ RecordOf(a).status = "pending"

LookupMiss(a) == ~Exists(RecordOf(a)) /\ Move(a, "lookup", "insert")

LookupMismatch(a) ==
  /\ pc[a] = "lookup"
  /\ Exists(RecordOf(a)) /\ ~SameRequest(a)
  /\ Respond(a, "conflict")

LookupReplay(a) ==
  /\ pc[a] = "lookup"
  /\ Finished(RecordOf(a)) /\ SameRequest(a)
  /\ Respond(a, Replayed(RecordOf(a)))

LookupRecover(a) ==
  /\ AtPending(a)
  /\ RecoverableSale
  /\ Move(a, "lookup", "handler")

LookupAbandoned(a) ==
  /\ AtPending(a)
  /\ ~RecoverableSale /\ Abandoned(RecordOf(a))
  /\ Move(a, "lookup", "release")

LookupBusy(a) ==
  /\ AtPending(a)
  /\ ~RecoverableSale /\ ~Abandoned(RecordOf(a))
  /\ Respond(a, "busy")

(* deleteMany names the key, the status and the empty body: it removes     *)
(* whichever pending row is there now, and then starts from the top.       *)
Release(a) ==
  /\ pc[a] = "release"
  /\ Goto(a, "lookup")
  /\ record' = IF RecordOf(a).status = "pending" /\ RecordOf(a).body = {}
               THEN [record EXCEPT ![KeyOf(a)] = NoRecord]
               ELSE record
  /\ UNCHANGED <<effects, paid, req, err, ans, told, faults>>

(* 2) Insert the pending row; the unique (organisation, key) decides.      *)
InsertOver(a) ==  \* mutant: an upsert
  /\ pc[a] = "insert"
  /\ record' = [record EXCEPT ![KeyOf(a)] = Pending(req[a].payload)]
  /\ Goto(a, "handler")
  /\ UNCHANGED <<effects, paid, req, err, ans, told, faults>>

InsertWon(a) ==
  /\ pc[a] = "insert"
  /\ ~Exists(RecordOf(a))
  /\ record' = [record EXCEPT ![KeyOf(a)] = Pending(req[a].payload)]
  /\ Goto(a, "handler")
  /\ UNCHANGED <<effects, paid, req, err, ans, told, faults>>

InsertLost(a) == Exists(RecordOf(a)) /\ Move(a, "insert", "clash")

(* Whatever made the insert fail, a conflict or the connection, the        *)
(* service looks for a winner's row and answers from it.                   *)
InsertFails(a) ==
  /\ pc[a] = "insert"
  /\ Spend
  /\ Goto(a, "clash")
  /\ UNCHANGED <<record, effects, paid, req, err, ans, told>>

ReadWinnerOnly(a) ==  \* mutant: the winner's answer, whatever its body
  /\ pc[a] = "clash"
  /\ Respond(a, IF Finished(RecordOf(a)) THEN Replayed(RecordOf(a)) ELSE "conflict")

ReadWinner(a) ==
  /\ pc[a] = "clash"
  /\ Respond(a, IF Finished(RecordOf(a)) /\ SameRequest(a)
                THEN Replayed(RecordOf(a))
                ELSE "conflict")

(* 3) The handler.  checkout() looks for the order an earlier attempt with *)
(* this key created (recovery.orderId, else Order.clientOperationKey).     *)
BeginHandler(a) ==
  Move(a, "handler",
       CASE Handler = "single" -> "payment"
         [] Handler = "sale" /\ Done(a, "order") -> "invoice"
         [] OTHER -> "order")

(* A committed transaction saves its outcome in the record it finds under  *)
(* the key, in the same transaction (recordBusinessOutcome).               *)
CommitUnsaved(a, s, status, code) ==  \* mutant: recordBusinessOutcome forgotten
  /\ effects' = [effects EXCEPT ![KeyOf(a)][s] = @ + 1]
  /\ UNCHANGED <<record, req, err, ans, told, faults>>

Commit(a, s, status, code) ==
  /\ Exists(RecordOf(a))
  /\ effects' = [effects EXCEPT ![KeyOf(a)][s] = @ + 1]
  /\ record' = [record EXCEPT ![KeyOf(a)] =
                  Write(RecordOf(a), status, code, RecordOf(a).body \cup {s})]
  /\ UNCHANGED <<req, err, ans, told, faults>>

CreateOrder(a) ==
  /\ pc[a] = "order"
  /\ ~Done(a, "order")
  /\ Commit(a, "order", RecordOf(a).status, RecordOf(a).code)
  /\ Goto(a, "invoice")
  /\ UNCHANGED paid

GenerateInvoice(a) ==
  /\ pc[a] = "invoice"
  /\ ~Done(a, "invoice")
  /\ Commit(a, "invoice", RecordOf(a).status, RecordOf(a).code)
  /\ Goto(a, "payment")
  /\ UNCHANGED paid

ReuseInvoice(a) == Done(a, "invoice") /\ Move(a, "invoice", "payment")

(* receivePayment refuses a paid invoice under the row lock; a treasury    *)
(* posting is unique per key; a plain cash movement is neither.            *)
PaymentUnchecked == Handler = "single" /\ KeyGuarded  \* mutant: the residual is not checked
PaymentUnkeyed == Handler = "sale"                    \* mutant: no key on the posting
PaymentGuarded == Handler = "sale" \/ KeyGuarded

TakePayment(a) ==
  /\ pc[a] = "payment"
  /\ PaymentGuarded => ~Done(a, "payment")
  /\ Commit(a, "payment", "business_completed", 201)
  /\ paid' = [paid EXCEPT ![KeyOf(a)] = Append(@, req[a].payload)]
  /\ Goto(a, "final")

(* The write is refused: a duplicate, or no record to save the outcome in. *)
RefuseCommit(a) ==
  /\ \/ pc[a] \in {"order", "invoice", "payment"} /\ ~Exists(RecordOf(a))
     \/ pc[a] = "order" /\ Done(a, "order")
     \/ pc[a] = "payment" /\ PaymentGuarded /\ Done(a, "payment")
  /\ ~(pc[a] = "invoice" /\ Done(a, "invoice"))
  /\ Throw(a, IF pc[a] = "payment" /\ Handler = "sale" THEN "client" ELSE "server")
  /\ UNCHANGED <<record, effects, paid, req, ans, told, faults>>

(* A business rule rejects the request: an expired approval, a changed     *)
(* price, a closed register, too little credit.                            *)
Reject(a) ==
  /\ pc[a] \in {"handler", "order", "invoice", "payment"}
  /\ Spend
  /\ Throw(a, "client")
  /\ UNCHANGED <<record, effects, paid, req, ans, told>>

(* A time-out or a lost connection, before the commit, after it, or while  *)
(* the response is being cached.                                           *)
Fail(a) ==
  /\ pc[a] \in {"handler", "order", "invoice", "payment", "final"}
  /\ Spend
  /\ Throw(a, "server")
  /\ UNCHANGED <<record, effects, paid, req, ans, told>>

(* The response is cached and the row completed; update() throws when the  *)
(* row is gone.                                                            *)
FinalWrite(a) ==
  /\ pc[a] = "final"
  /\ IF Exists(RecordOf(a))
     THEN /\ record' = [record EXCEPT ![KeyOf(a)] = Write(@, "completed", 200, Stages)]
          /\ Goto(a, "reply")
          /\ ans' = [ans EXCEPT ![a] = "ok"]
          /\ UNCHANGED err
     ELSE Throw(a, "server") /\ UNCHANGED <<record, ans>>
  /\ UNCHANGED <<effects, paid, req, told, faults>>

(* The catch block reads the record, then decides on what it read.         *)
CatchReplay(a) ==
  /\ pc[a] = "catch"
  /\ Finished(RecordOf(a))
  /\ Respond(a, Replayed(RecordOf(a)))

NothingSaved(a) == /\ OutcomeRoute
                   /\ err[a] = "client"
                   /\ Exists(RecordOf(a))
                   /\ RecordOf(a).body = {}

CatchDefinitive(a) ==
  /\ ~Finished(RecordOf(a)) /\ NothingSaved(a)
  /\ Move(a, "catch", "cache")

CatchRetain(a) ==
  /\ pc[a] = "catch"
  /\ ~Finished(RecordOf(a)) /\ ~NothingSaved(a)
  /\ Respond(a, IF err[a] = "client" THEN "rejected" ELSE "failed")

(* The rejection is cached with an update that names only the key.         *)
CacheRejection(a) ==
  /\ pc[a] = "cache"
  /\ Goto(a, "reply")
  /\ IF Exists(RecordOf(a))
     THEN /\ record' = [record EXCEPT ![KeyOf(a)] = Write(@, "completed", 400, {"rejected"})]
          /\ ans' = [ans EXCEPT ![a] = "safe"]
     ELSE /\ ans' = [ans EXCEPT ![a] = "failed"]
          /\ UNCHANGED record
  /\ UNCHANGED <<effects, paid, req, err, told, faults>>

(* The answer reaches the client.                                          *)
Reply(a) ==
  /\ pc[a] = "reply"
  /\ Goto(a, "idle")
  /\ told' = told \cup {[key |-> KeyOf(a), payload |-> req[a].payload, answer |-> ans[a]]}
  /\ UNCHANGED <<record, effects, paid, req, err, ans, faults>>

(* The process dies, or the answer is lost on its way.                     *)
Crash(a) ==
  /\ pc[a] # "idle"
  /\ Spend
  /\ Goto(a, "idle")
  /\ UNCHANGED <<record, effects, paid, req, err, ans, told>>

(* Two minutes pass over a pending record.                                 *)
Age(k) ==
  /\ record[k].status = "pending" /\ ~record[k].aged
  /\ Prompt => \A a \in Attempts : KeyOf(a) = k => pc[a] \notin Running
  /\ record' = [record EXCEPT ![k] = [@ EXCEPT !.aged = TRUE]]
  /\ UNCHANGED <<effects, paid, pc, req, err, ans, told, faults>>

----------------------------------------------------------------------------
(* What the server does with an attempt once it has been received.         *)
ServerStep(a) ==
  \/ LookupMiss(a) \/ LookupMismatch(a) \/ LookupReplay(a)
  \/ LookupRecover(a) \/ LookupAbandoned(a) \/ LookupBusy(a)
  \/ Release(a) \/ InsertWon(a) \/ InsertLost(a) \/ ReadWinner(a)
  \/ BeginHandler(a) \/ CreateOrder(a) \/ GenerateInvoice(a) \/ ReuseInvoice(a)
  \/ TakePayment(a) \/ RefuseCommit(a) \/ FinalWrite(a)
  \/ CatchReplay(a) \/ CatchDefinitive(a) \/ CatchRetain(a) \/ CacheRejection(a)

Fault(a) == InsertFails(a) \/ Reject(a) \/ Fail(a) \/ Crash(a)

(* The client has its definitive answer and sends nothing more.            *)
Answered(k) == \E p \in Payloads, w \in {"ok", "safe"} :
                 [key |-> k, payload |-> p, answer |-> w] \in told

Retry(a) == \E r \in Requests : ~Answered(r.key) /\ Start(a, r)

Next ==
  \/ \E a \in Attempts : Retry(a) \/ ServerStep(a) \/ Reply(a) \/ Fault(a)
  \/ \E k \in Keys : Age(k)

Spec == Init /\ [][Next]_vars

(* A client goes on retrying until it has a definitive answer, the server  *)
(* goes on processing what it received, and time passes.                   *)
Fairness ==
  /\ WF_vars(\E a \in Attempts : Retry(a))
  /\ \A a \in Attempts : WF_vars(ServerStep(a)) /\ WF_vars(Reply(a))
  /\ \A k \in Keys : WF_vars(Age(k))

FairSpec == Spec /\ Fairness
----------------------------------------------------------------------------
(* Retries, double clicks and recoveries commit each transaction of the    *)
(* handler at most once: idempotency.service.ts:46 calls the pending row a *)
(* distributed lock, and clientOperationKey, the re-check of invoiceId and *)
(* the residual check carry the sale routes, whose lock is not exclusive.  *)
AtMostOnce == \A k \in Keys, s \in Stages : effects[k][s] <= 1

(* The protocol keeps the promise of a key: money moves at most once, and  *)
(* a success answer, first-hand, replayed or recovered, is only given for  *)
(* money that moved for the body the caller sent.                          *)
Once == INSTANCE OncePerKey WITH moved <- paid
ImplementsOncePerKey == Once!Spec

(* At most one attempt per key is past the lock ("only one concurrent      *)
(* caller can hold the row, the rest see the conflict and 409").           *)
OneRunner ==
  \A a, b \in Attempts :
    pc[a] \in Running /\ pc[b] \in Running /\ KeyOf(a) = KeyOf(b) => a = b

(* Once the money has moved the record replays the success: "A             *)
(* transactionally saved outcome is replayable even when the final         *)
(* response-cache write failed" (idempotency.service.ts:198-200).          *)
PaidIsReplayable ==
  \A k \in Keys :
    effects[k]["payment"] > 0 => Finished(record[k]) /\ Replayed(record[k]) = "ok"

(* A finished record is never taken back: no step makes it pending again,  *)
(* removes it, or turns a stored success into a stored rejection.          *)
RecordStays ==
  [][\A k \in Keys : Finished(record[k]) =>
       Finished(record'[k]) /\ (Replayed(record[k]) = "ok" => Replayed(record'[k]) = "ok")]_vars

(* A client that keeps retrying a key is given a definitive answer: no     *)
(* crash, failure or rejection leaves the key blocked for good.            *)
EventuallyAnswered == \A k \in Keys : Exists(record[k]) ~> Answered(k)
=============================================================================
