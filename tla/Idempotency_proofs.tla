--------------------------- MODULE Idempotency_proofs ---------------------------
(***************************************************************************)
(* Proofs about the Idempotency-Key protocol, for any number of attempts,  *)
(* keys and bodies.  The type invariant holds on every route; on the sale  *)
(* routes and on the sync route, which never delete a record, the protocol *)
(* implements OncePerKey; with a guarded payment it does so on every       *)
(* route, for keys that carry one body.  A browser whose form waits for    *)
(* its request keeps a key until it is answered, and moves the money of an *)
(* action once unless a refusal comes beside a request that could yet pay. *)
(***************************************************************************)
EXTENDS IdempotentClient, FiniteSetTheorems, TLAPS

(* Without the "outcome" routes no record is ever released.                *)
NeverReleases == Route \in {"sale", "sync"}

(* The inductive invariant, part by part.                                  *)

(* No attempt has entered the release branch, and only a recoverable sale  *)
(* caches a rejection.                                                     *)
NoRelease == \A a \in Attempts : /\ pc[a] # "release"
                                 /\ pc[a] = "cache" => Route = "sale"

(* A key without a record has no body.                                     *)
NoRecordNoBody == \A k \in Keys : ~Exists(record[k]) => record[k].hash = {}

(* Attempts run only under a record that carries their body.               *)
RunsUnderRecord ==
  \A a \in Attempts :
    pc[a] \in Running => RecordOf(a).hash = {req[a].payload} /\ Exists(RecordOf(a))

(* The money that moved is the money of the recorded body, counted by the  *)
(* effect of the payment transaction.                                      *)
PaidCounted ==
  \A k \in Keys :
    \/ effects[k]["payment"] = 0 /\ paid[k] = <<>>
    \/ /\ effects[k]["payment"] = 1
       /\ \E p \in Payloads : paid[k] = <<p>> /\ record[k].hash = {p}

(* A stored success is the success of a payment that committed.            *)
SuccessIsPaid ==
  \A k \in Keys : Finished(record[k]) /\ record[k].code < 400 => paid[k] # <<>>

(* An attempt about to finish or to answer "ok" has seen the money move.   *)
FinishedIsPaid ==
  \A a \in Attempts : pc[a] = "final" => paid[KeyOf(a)] # <<>>

OkAnswerIsPaid ==
  /\ \A a \in Attempts :
       pc[a] = "reply" /\ ans[a] = "ok" => paid[KeyOf(a)] = <<req[a].payload>>
  /\ \A t \in told : t.answer = "ok" => paid[t.key] = <<t.payload>>

EachStageOnce ==
  \A k \in Keys, s \in Stages : effects[k][s] \in {0, 1}

(* On the sync route the record is a lock: one runner, and as long as that *)
(* runner has not paid nobody has.                                         *)
Exclusive ==
  Route = "sync" =>
    /\ OneRunner
    /\ \A a \in Attempts : pc[a] \in Unpaid => paid[KeyOf(a)] = <<>>
    /\ \A k \in Keys : record[k].status = "pending" <=>
                         Exists(record[k]) /\ paid[k] = <<>>
    /\ \A k \in Keys : record[k].code < 400

IInv ==
  /\ TypeOK
  /\ NoRelease
  /\ NoRecordNoBody
  /\ RunsUnderRecord
  /\ PaidCounted
  /\ SuccessIsPaid
  /\ FinishedIsPaid
  /\ OkAnswerIsPaid
  /\ EachStageOnce
  /\ Exclusive

----------------------------------------------------------------------------
(* Types.                                                                  *)

(* A record stays a record when the fields a handler writes are replaced.  *)
LEMMA WriteType ==
  ASSUME NEW r \in Records,
         NEW status \in {"none", "pending", "business_completed", "completed"},
         NEW code \in {0, 200, 201, 400},
         NEW body \in SUBSET (Stages \cup {"rejected"})
  PROVE  Write(r, status, code, body) \in Records
  BY DEF Records, Write

(* The rows the service writes are records.                                *)
LEMMA RecordTypes ==
  /\ NoRecord \in Records
  /\ \A p \in Payloads : Pending(p) \in Records
  /\ \A r \in Records : [r EXCEPT !.aged = TRUE] \in Records
<1>1. NoRecord \in Records
  BY DEF NoRecord, Records
<1>2. \A p \in Payloads : Pending(p) \in Records
  BY DEF Pending, Records
<1>3. ASSUME NEW r \in Records, NEW aged \in BOOLEAN
      PROVE  [r EXCEPT !.aged = aged] \in Records
  BY DEF Records
<1> QED
  BY <1>1, <1>2, <1>3

(* Base case and step of the type invariant.                               *)
LEMMA InitType == Init => TypeOK
<1> SUFFICES ASSUME Init PROVE TypeOK
  OBVIOUS
<1>1. record \in [Keys -> Records]
  BY RecordTypes DEF Init
<1>2. effects \in [Keys -> [Stages -> Nat]]
  BY DEF Init
<1> QED
  BY <1>1, <1>2 DEF Init, TypeOK, Positions

(* A request is sent.                                                      *)
LEMMA StartType ==
  ASSUME TypeOK, NEW a \in Attempts, NEW r \in Requests, Start(a, r)
  PROVE  TypeOK'
  BY DEF TypeOK, Start, Goto, Positions

(* Every step of the service and of its environment keeps the types.       *)
LEMMA TypeStep == TypeOK /\ [Next]_vars => TypeOK'
<1> SUFFICES ASSUME TypeOK, [Next]_vars
             PROVE  TypeOK'
  OBVIOUS
<1> USE DEF TypeOK
<1>1. ASSUME NEW a \in Attempts
      PROVE  /\ KeyOf(a) \in Keys /\ req[a].payload \in Payloads
             /\ RecordOf(a) \in Records
  BY DEF KeyOf, RecordOf, Requests
<1>2. ASSUME NEW a \in Attempts, NEW to \in Positions, Goto(a, to)
      PROVE  pc' \in [Attempts -> Positions]
  BY <1>2 DEF Goto
<1>3. ASSUME NEW a \in Attempts, NEW from, NEW to \in Positions \ {"reply"}, Move(a, from, to)
      PROVE  TypeOK'
  BY <1>2, <1>3 DEF Move, Goto
<1>4. ASSUME NEW a \in Attempts, NEW answer \in Answers, Respond(a, answer)
      PROVE  TypeOK'
  BY <1>2, <1>4 DEF Respond, Goto, Positions
<1>5. ASSUME NEW a \in Attempts, NEW class \in {"client", "server"}, Throw(a, class)
      PROVE  /\ pc' \in [Attempts -> Positions]
             /\ err' \in [Attempts -> {"none", "client", "server"}]
             /\ \A b \in Attempts : pc'[b] = "reply" => pc[b] = "reply"
  BY <1>2, <1>5 DEF Throw, Goto, Positions
<1>6. ASSUME NEW a \in Attempts PROVE Replayed(RecordOf(a)) \in Answers
  BY DEF Replayed, Answers
<1>7. ASSUME NEW a \in Attempts, NEW s \in Stages, NEW code \in {0, 200, 201, 400},
             NEW status \in {"none", "pending", "business_completed", "completed"},
             Commit(a, s, status, code)
      PROVE  /\ effects' \in [Keys -> [Stages -> Nat]]
             /\ record' \in [Keys -> Records]
  <2>1. effects' \in [Keys -> [Stages -> Nat]]
    BY <1>1, <1>7 DEF Commit
  <2>2. RecordOf(a).body \cup {s} \in SUBSET (Stages \cup {"rejected"})
    BY <1>1 DEF Records
  <2>3. Write(RecordOf(a), status, code, RecordOf(a).body \cup {s}) \in Records
    BY <1>1, <2>2, WriteType
  <2> QED
    BY <1>1, <1>7, <2>1, <2>3 DEF Commit
<1>14. ASSUME NEW a \in Attempts, NEW to \in Positions \ {"reply"}, Goto(a, to),
              record' \in [Keys -> Records], effects' \in [Keys -> [Stages -> Nat]],
              paid' \in [Keys -> Seq(Payloads)], UNCHANGED <<req, err, ans, told, faults>>
       PROVE  TypeOK'
  <2>1. pc' \in [Attempts -> Positions]
    BY <1>2, <1>14
  <2>2. \A b \in Attempts : pc'[b] = "reply" => pc[b] = "reply"
    BY <1>14 DEF Goto
  <2> QED
    BY <1>14, <2>1, <2>2
<1>8. ASSUME NEW a \in Attempts, Retry(a)
      PROVE  TypeOK'
  BY <1>8, StartType DEF Retry
<1>9. ASSUME NEW a \in Attempts, ServerStep(a)
      PROVE  TypeOK'
  <2>1. CASE \/ LookupMiss(a) \/ LookupRecover(a) \/ LookupAbandoned(a)
             \/ InsertLost(a) \/ CatchDefinitive(a)
    <3>1. {"insert", "handler", "release", "clash", "cache"} \subseteq Positions \ {"reply"}
      BY DEF Positions
    <3> QED
      BY <1>3, <2>1, <3>1 DEF LookupMiss, LookupRecover, LookupAbandoned, InsertLost,
                              CatchDefinitive
  <2>11. CASE BeginHandler(a)
    <3>1. CASE Handler = "single"
      BY <1>3, <2>11, <3>1 DEF BeginHandler, Positions, Stages
    <3>2. CASE Handler = "sale"
      <4>1. Stages = {"order", "invoice", "payment"}
        BY <3>2 DEF Stages
      <4> QED
        BY <1>3, <2>11, <3>2, <4>1 DEF BeginHandler, Positions
    <3> QED
      BY <3>1, <3>2, IdempotencyAssumption
  <2>12. CASE ReuseInvoice(a)
    <3>1. "payment" \in Positions \ {"reply"}
      BY DEF Positions, Stages
    <3> QED
      BY <1>3, <2>12, <3>1 DEF ReuseInvoice
  <2>2. CASE \/ LookupMismatch(a) \/ LookupReplay(a) \/ LookupBusy(a)
             \/ ReadWinner(a) \/ CatchReplay(a) \/ CatchRetain(a)
    BY <1>4, <1>6, <2>2 DEF LookupMismatch, LookupReplay, LookupBusy, ReadWinner,
                            CatchReplay, CatchRetain, Answers
  <2>3. CASE Release(a)
    BY <1>1, <1>2, <2>3, RecordTypes DEF Release, Goto, Positions
  <2>4. CASE InsertWon(a)
    BY <1>1, <1>2, <2>4, RecordTypes DEF InsertWon, Goto, Positions
  <2>5. CASE CreateOrder(a)
    <3>1. "order" \in Stages /\ "invoice" \in Stages
      BY <2>5 DEF CreateOrder, Positions, Stages
    <3>2. /\ RecordOf(a).status \in {"none", "pending", "business_completed", "completed"}
          /\ RecordOf(a).code \in {0, 200, 201, 400}
      BY <1>1 DEF Records
    <3>3. /\ effects' \in [Keys -> [Stages -> Nat]]
          /\ record' \in [Keys -> Records]
      BY <1>7, <2>5, <3>1, <3>2 DEF CreateOrder
    <3>4. "invoice" \in Positions \ {"reply"} /\ Goto(a, "invoice")
      BY <2>5, <3>1 DEF CreateOrder, Positions
    <3>5. UNCHANGED <<paid, req, err, ans, told, faults>>
      BY <2>5 DEF CreateOrder, Commit
    <3> QED
      BY <1>14, <3>3, <3>4, <3>5
  <2>6. CASE GenerateInvoice(a)
    <3>1. "payment" \in Stages /\ "invoice" \in Stages
      BY <2>6 DEF GenerateInvoice, Positions, Stages
    <3>2. /\ RecordOf(a).status \in {"none", "pending", "business_completed", "completed"}
          /\ RecordOf(a).code \in {0, 200, 201, 400}
      BY <1>1 DEF Records
    <3>3. /\ effects' \in [Keys -> [Stages -> Nat]]
          /\ record' \in [Keys -> Records]
      BY <1>7, <2>6, <3>1, <3>2 DEF GenerateInvoice
    <3>4. "payment" \in Positions \ {"reply"} /\ Goto(a, "payment")
      BY <2>6, <3>1 DEF GenerateInvoice, Positions
    <3>5. UNCHANGED <<paid, req, err, ans, told, faults>>
      BY <2>6 DEF GenerateInvoice, Commit
    <3> QED
      BY <1>14, <3>3, <3>4, <3>5
  <2>7. CASE TakePayment(a)
    <3>1. paid' \in [Keys -> Seq(Payloads)]
      BY <1>1, <2>7 DEF TakePayment
    <3>2. "payment" \in Stages
      BY DEF Stages
    <3>3. /\ effects' \in [Keys -> [Stages -> Nat]]
          /\ record' \in [Keys -> Records]
      BY <1>7, <2>7, <3>2 DEF TakePayment
    <3>4. "final" \in Positions \ {"reply"} /\ Goto(a, "final")
      BY <2>7 DEF TakePayment, Positions
    <3>5. UNCHANGED <<req, err, ans, told, faults>>
      BY <2>7 DEF TakePayment, Commit
    <3> QED
      BY <1>14, <3>1, <3>3, <3>4, <3>5
  <2>8. CASE RefuseCommit(a)
    BY <1>5, <2>8 DEF RefuseCommit
  <2>9. CASE FinalWrite(a)
    <3>1. CASE Exists(RecordOf(a))
      <4>1. Write(RecordOf(a), "completed", 200, Stages) \in Records
        BY <1>1, WriteType
      <4>2. /\ record' = [record EXCEPT ![KeyOf(a)] = Write(@, "completed", 200, Stages)]
            /\ Goto(a, "reply") /\ ans' = [ans EXCEPT ![a] = "ok"]
            /\ UNCHANGED <<err, effects, paid, req, told, faults>>
        BY <2>9, <3>1 DEF FinalWrite
      <4>3. record' \in [Keys -> Records]
        BY <1>1, <4>1, <4>2 DEF RecordOf
      <4>4. pc' \in [Attempts -> Positions]
        BY <1>2, <4>2 DEF Positions
      <4>5. /\ ans' \in [Attempts -> Answers \cup {"none"}]
            /\ ans'[a] \in Answers /\ \A b \in Attempts \ {a} : ans'[b] = ans[b]
        BY <4>2 DEF Answers
      <4>6. \A b \in Attempts : pc'[b] = "reply" => ans'[b] \in Answers
        BY <4>2, <4>5 DEF Goto
      <4> QED
        BY <4>2, <4>3, <4>4, <4>5, <4>6
    <3>2. CASE ~Exists(RecordOf(a))
      BY <1>5, <2>9, <3>2 DEF FinalWrite
    <3> QED
      BY <3>1, <3>2
  <2>10. CASE CacheRejection(a)
    <3>1. Write(RecordOf(a), "completed", 400, {"rejected"}) \in Records
      BY <1>1, WriteType
    <3>2. record' \in [Keys -> Records]
      <4> DEFINE written == Write(RecordOf(a), "completed", 400, {"rejected"})
      <4>1. record' = record \/ record' = [record EXCEPT ![KeyOf(a)] = written]
        BY <2>10 DEF CacheRejection, RecordOf
      <4>2. written \in Records
        BY <3>1
      <4> HIDE DEF written
      <4> QED
        BY <4>1, <4>2
    <3>3. /\ ans' \in [Attempts -> Answers \cup {"none"}]
          /\ ans'[a] \in Answers
          /\ \A b \in Attempts \ {a} : ans'[b] = ans[b]
      <4>1. \/ ans' = [ans EXCEPT ![a] = "safe"]
            \/ ans' = [ans EXCEPT ![a] = "failed"]
        BY <2>10 DEF CacheRejection
      <4> QED
        BY <4>1 DEF Answers
    <3>4. pc' \in [Attempts -> Positions]
      BY <1>2, <2>10 DEF CacheRejection, Positions
    <3> QED
      BY <2>10, <3>2, <3>3, <3>4 DEF CacheRejection, Goto
  <2> QED
    BY <1>9, <2>1, <2>2, <2>3, <2>4, <2>5, <2>6, <2>7, <2>8, <2>9, <2>10, <2>11,
       <2>12 DEF ServerStep
<1>10. ASSUME NEW a \in Attempts, Reply(a)
       PROVE  TypeOK'
  <2>1. pc' \in [Attempts -> Positions]
    BY <1>2, <1>10 DEF Reply, Positions
  <2>2. \A b \in Attempts : pc'[b] = "reply" => ans'[b] \in Answers
    BY <1>10 DEF Reply, Goto
  <2>3. ans[a] \in Answers
    BY <1>10 DEF Reply
  <2>4. [key |-> KeyOf(a), payload |-> req[a].payload, answer |-> ans[a]]
          \in [key : Keys, payload : Payloads, answer : Answers]
    BY <1>1, <2>3
  <2>5. told' \subseteq [key : Keys, payload : Payloads, answer : Answers]
    BY <1>10, <2>4 DEF Reply
  <2> QED
    BY <1>10, <2>1, <2>2, <2>5 DEF Reply
<1>11. ASSUME NEW a \in Attempts, Fault(a)
       PROVE  TypeOK'
  <2>1. CASE Reject(a) \/ Fail(a)
    BY <1>5, <2>1 DEF Reject, Fail, Spend
  <2>2. CASE Crash(a)
    BY <1>2, <2>2 DEF Crash, Spend, Goto, Positions
  <2>3. CASE InsertFails(a)
    BY <1>2, <2>3 DEF InsertFails, Spend, Goto, Positions
  <2> QED
    BY <1>11, <2>1, <2>2, <2>3 DEF Fault
<1>12. ASSUME NEW k \in Keys, Age(k)
       PROVE  TypeOK'
  <2>1. [record[k] EXCEPT !.aged = TRUE] \in Records
    BY RecordTypes
  <2>2. record' \in [Keys -> Records]
    BY <1>12, <2>1 DEF Age
  <2> QED
    BY <1>12, <2>2 DEF Age
<1>13. CASE UNCHANGED vars
  BY <1>13 DEF vars
<1> QED
  BY <1>8, <1>9, <1>10, <1>11, <1>12, <1>13 DEF Next

(* The state stays well-typed on every route.                              *)
THEOREM TypeCorrect == Spec => []TypeOK
<1>1. Init => TypeOK
  BY InitType
<1>2. TypeOK /\ [Next]_vars => TypeOK'
  BY TypeStep
<1> QED
  BY <1>1, <1>2, PTL DEF Spec

----------------------------------------------------------------------------
(* The inductive invariant.                                                *)

(* The invariant holds before any request has been sent.                   *)
LEMMA InitInv == NeverReleases /\ Init => IInv
<1> SUFFICES ASSUME Init PROVE IInv
  OBVIOUS
<1>1. TypeOK
  BY InitType
<1>2. \A a \in Attempts : pc[a] = "idle"
  BY DEF Init
<1>3. \A k \in Keys : record[k] = NoRecord /\ paid[k] = <<>>
                     /\ \A s \in Stages : effects[k][s] = 0
  BY DEF Init
<1>4. "payment" \in Stages
  BY DEF Stages
<1>5. NoRelease /\ RunsUnderRecord /\ FinishedIsPaid /\ OneRunner
  BY <1>2 DEF NoRelease, RunsUnderRecord, FinishedIsPaid, OneRunner, Running
<1>6. NoRecordNoBody /\ PaidCounted /\ SuccessIsPaid /\ EachStageOnce
  BY <1>3, <1>4 DEF NoRecordNoBody, PaidCounted, SuccessIsPaid, EachStageOnce, Exists,
                    Finished, NoRecord
<1>7. OkAnswerIsPaid
  BY <1>2 DEF OkAnswerIsPaid, Init
<1>8. Exclusive
  BY <1>2, <1>3, <1>5 DEF Exclusive, Unpaid, Exists, NoRecord
<1> QED
  BY <1>1, <1>5, <1>6, <1>7, <1>8 DEF IInv

(* An attempt moves, and at most its error and its answer change.          *)
LEMMA AttemptMoves ==
  ASSUME IInv, TypeOK', NEW a \in Attempts, NEW to \in Positions, Goto(a, to),
         UNCHANGED <<record, effects, paid, req, told>>,
         \A b \in Attempts \ {a} : ans'[b] = ans[b],
         to # "release",
         to = "cache" => Route = "sale",
         to = "final" => pc[a] = "final",
         to \in Running => /\ RecordOf(a).hash = {req[a].payload}
                           /\ Exists(RecordOf(a))
                           /\ (Route = "sync" => pc[a] \in Running),
         to \in Unpaid => (Route = "sync" => pc[a] \in Unpaid),
         to = "reply" /\ ans'[a] = "ok" => paid[KeyOf(a)] = <<req[a].payload>>
  PROVE  IInv'
<1>1. /\ pc'[a] = to
      /\ \A b \in Attempts \ {a} : pc'[b] = pc[b]
  BY DEF Goto, IInv, TypeOK
<1>2. \A b \in Attempts : KeyOf(b)' = KeyOf(b) /\ RecordOf(b)' = RecordOf(b)
  BY DEF KeyOf, RecordOf
<1>3. NoRelease'
  BY <1>1 DEF NoRelease, IInv
<1>4. RunsUnderRecord'
  BY <1>1, <1>2 DEF RunsUnderRecord, IInv, Exists
<1>5. NoRecordNoBody' /\ PaidCounted' /\ SuccessIsPaid' /\ EachStageOnce'
  BY DEF NoRecordNoBody, PaidCounted, SuccessIsPaid, EachStageOnce, IInv, Exists, Finished
<1>6. FinishedIsPaid'
  BY <1>1, <1>2 DEF FinishedIsPaid, IInv
<1>7. OkAnswerIsPaid'
  BY <1>1, <1>2 DEF OkAnswerIsPaid, IInv
<1>8. Exclusive'
  <2> SUFFICES ASSUME Route = "sync" PROVE Exclusive'
    BY DEF Exclusive
  <2>1. OneRunner'
    BY <1>1, <1>2 DEF OneRunner, Exclusive, IInv
  <2>2. \A b \in Attempts : pc'[b] \in Unpaid => paid'[KeyOf(b)'] = <<>>
    BY <1>1, <1>2 DEF Exclusive, IInv
  <2> QED
    BY <2>1, <2>2 DEF Exclusive, IInv, Exists
<1> QED
  BY <1>3, <1>4, <1>5, <1>6, <1>7, <1>8 DEF IInv

(* A transaction of the handler commits under the record; only the payment *)
(* moves money, once.                                                      *)
LEMMA TransactionCommits ==
  ASSUME NeverReleases, IInv, TypeOK', NEW a \in Attempts, NEW s \in Stages \ {"payment"},
         pc[a] = s, ~Done(a, s), Commit(a, s, RecordOf(a).status, RecordOf(a).code),
         NEW to \in Unpaid, Goto(a, to), UNCHANGED paid
  PROVE  IInv'
<1> DEFINE k == KeyOf(a)
<1>1. /\ k \in Keys /\ RecordOf(a) \in Records /\ pc[a] \in Running /\ pc[a] \in Unpaid
      /\ "payment" \in Stages
  BY DEF IInv, TypeOK, KeyOf, RecordOf, Requests, Running, Unpaid, Stages
<1>2. /\ pc'[a] = to
      /\ \A b \in Attempts \ {a} : pc'[b] = pc[b]
      /\ to \in Running /\ to \notin {"release", "cache", "final", "reply"}
  BY DEF Goto, IInv, TypeOK, Unpaid, Running
<1>3. /\ record'[k].hash = record[k].hash /\ record'[k].status = record[k].status
      /\ record'[k].code = record[k].code
      /\ \A l \in Keys \ {k} : record'[l] = record[l]
  BY <1>1 DEF Commit, Write, RecordOf, IInv, TypeOK
<1>4. \A b \in Attempts : KeyOf(b)' = KeyOf(b) /\ KeyOf(b) \in Keys
  BY DEF KeyOf, Commit, IInv, TypeOK, Requests
<1>5. /\ effects'[k][s] = 1
      /\ \A l \in Keys, t \in Stages : l # k \/ t # s => effects'[l][t] = effects[l][t]
  <2>1. effects[k][s] = 0
    BY <1>1 DEF Done, IInv, EachStageOnce
  <2> QED
    BY <1>1, <2>1 DEF Commit, IInv, TypeOK
<1>6. UNCHANGED <<req, ans, told, paid>>
  BY DEF Commit
<1>7. NoRelease'
  BY <1>2 DEF NoRelease, IInv
<1>8. RunsUnderRecord'
  BY <1>1, <1>2, <1>3, <1>4, <1>6 DEF RunsUnderRecord, RecordOf, IInv, Exists
<1>9. NoRecordNoBody' /\ PaidCounted' /\ SuccessIsPaid' /\ EachStageOnce'
  <2>1. NoRecordNoBody' /\ SuccessIsPaid'
    BY <1>3, <1>6 DEF NoRecordNoBody, SuccessIsPaid, IInv, Exists, Finished
  <2>2. EachStageOnce'
    BY <1>1, <1>5 DEF EachStageOnce, IInv
  <2>3. \A l \in Keys : record'[l].hash = record[l].hash
                     /\ effects'[l]["payment"] = effects[l]["payment"]
    BY <1>1, <1>3, <1>5
  <2>4. PaidCounted'
    BY <1>6, <2>3 DEF PaidCounted, IInv
  <2> QED
    BY <2>1, <2>2, <2>4
<1>10. FinishedIsPaid' /\ OkAnswerIsPaid'
  BY <1>2, <1>4, <1>6 DEF FinishedIsPaid, OkAnswerIsPaid, IInv
<1>11. Exclusive'
  <2> SUFFICES ASSUME Route = "sync" PROVE Exclusive'
    BY DEF Exclusive
  <2>1. OneRunner'
    BY <1>1, <1>2, <1>4 DEF OneRunner, Exclusive, IInv
  <2>2. \A b \in Attempts : pc'[b] \in Unpaid => paid'[KeyOf(b)'] = <<>>
    BY <1>1, <1>2, <1>4, <1>6 DEF Exclusive, IInv
  <2>3. \A l \in Keys : /\ record'[l].status = record[l].status
                      /\ record'[l].code = record[l].code
    BY <1>3
  <2> QED
    BY <1>6, <2>1, <2>2, <2>3 DEF Exclusive, IInv, Exists
<1> QED
  BY <1>7, <1>8, <1>9, <1>10, <1>11 DEF IInv

(* The payment, committed under the record, moves the recorded body once.  *)
LEMMA PaymentCommits ==
  ASSUME NeverReleases, IInv, TypeOK', NEW a \in Attempts, TakePayment(a)
  PROVE  IInv'
<1> DEFINE k == KeyOf(a)
           p == req[a].payload
<1>1. /\ k \in Keys /\ p \in Payloads /\ RecordOf(a) \in Records
      /\ pc[a] \in Running /\ pc[a] \in Unpaid /\ "payment" \in Stages
  BY DEF TakePayment, IInv, TypeOK, KeyOf, RecordOf, Requests, Running, Unpaid, Stages
<1>2. /\ pc'[a] = "final"
      /\ \A b \in Attempts \ {a} : pc'[b] = pc[b]
  BY DEF TakePayment, Goto, IInv, TypeOK
<1>3. /\ record'[k].hash = record[k].hash /\ record'[k].status = "business_completed"
      /\ record'[k].code = 201
      /\ \A l \in Keys \ {k} : record'[l] = record[l]
  BY <1>1 DEF TakePayment, Commit, Write, RecordOf, IInv, TypeOK
<1>4. \A b \in Attempts : KeyOf(b)' = KeyOf(b) /\ KeyOf(b) \in Keys
  BY DEF TakePayment, KeyOf, Commit, IInv, TypeOK, Requests
<1>5. record[k].hash = {p} /\ Exists(record[k])
  BY <1>1 DEF RunsUnderRecord, IInv, RecordOf
<1>6. effects[k]["payment"] = 0 /\ paid[k] = <<>>
  <2>1. CASE Route = "sync"
    <3>1. paid[k] = <<>>
      BY <1>1, <2>1 DEF Exclusive, IInv
    <3>2. \A q \in Payloads : <<q>> # <<>>
      OBVIOUS
    <3> QED
      BY <1>1, <3>1, <3>2 DEF PaidCounted, IInv
  <2>2. CASE Route = "sale"
    <3>1. ~Done(a, "payment")
      BY <2>2, IdempotencyAssumption DEF TakePayment, PaymentGuarded
    <3>2. effects[k]["payment"] = 0
      BY <1>1, <3>1 DEF Done, IInv, EachStageOnce
    <3> QED
      BY <1>1, <3>2 DEF PaidCounted, IInv
  <2> QED
    BY <2>1, <2>2 DEF NeverReleases
<1>7. /\ effects'[k]["payment"] = 1
      /\ \A l \in Keys, t \in Stages :
           l # k \/ t # "payment" => effects'[l][t] = effects[l][t]
  BY <1>1, <1>6 DEF TakePayment, Commit, IInv, TypeOK
<1>8. /\ paid'[k] = <<p>>
      /\ \A l \in Keys \ {k} : paid'[l] = paid[l]
  <2>1. Append(<<>>, p) = <<p>>
    BY <1>1
  <2> QED
    BY <1>1, <1>6, <2>1 DEF TakePayment, IInv, TypeOK
<1>9. <<p>> # <<>>
  BY <1>1
<1>10. UNCHANGED <<req, ans, told>>
  BY DEF TakePayment, Commit
<1>11. NoRelease'
  BY <1>2 DEF NoRelease, IInv
<1>12. RunsUnderRecord'
  BY <1>1, <1>2, <1>3, <1>4, <1>5, <1>10 DEF RunsUnderRecord, RecordOf, IInv, Exists, Running
<1>13. NoRecordNoBody' /\ SuccessIsPaid'
  BY <1>1, <1>3, <1>8, <1>9 DEF NoRecordNoBody, SuccessIsPaid, IInv, Exists, Finished
<1>14. EachStageOnce'
  BY <1>1, <1>7 DEF EachStageOnce, IInv
<1>15. PaidCounted'
  <2>1. \A l \in Keys \ {k} : /\ effects'[l]["payment"] = effects[l]["payment"]
                             /\ paid'[l] = paid[l] /\ record'[l] = record[l]
    BY <1>1, <1>3, <1>7, <1>8
  <2>2. record'[k].hash = {p}
    BY <1>3, <1>5
  <2> QED
    BY <1>1, <1>7, <1>8, <2>1, <2>2 DEF PaidCounted, IInv
<1>16. FinishedIsPaid'
  BY <1>1, <1>2, <1>4, <1>8, <1>9 DEF FinishedIsPaid, IInv
<1>17. OkAnswerIsPaid'
  <2>1. \A b \in Attempts : pc'[b] = "reply" /\ ans'[b] = "ok" =>
                              paid'[KeyOf(b)'] = <<req'[b].payload>>
    <3> TAKE b \in Attempts
    <3> HAVE pc'[b] = "reply" /\ ans'[b] = "ok"
    <3>1. b # a /\ paid[KeyOf(b)] = <<req[b].payload>>
      BY <1>2, <1>10 DEF OkAnswerIsPaid, IInv
    <3>2. <<req[b].payload>> # <<>>
      OBVIOUS
    <3>3. KeyOf(b) # k
      BY <1>6, <3>1, <3>2
    <3> QED
      BY <1>4, <1>8, <1>10, <3>1, <3>3
  <2>2. \A t \in told : t.answer = "ok" => t.key \in Keys \ {k}
    <3> TAKE t \in told
    <3> HAVE t.answer = "ok"
    <3>1. paid[t.key] = <<t.payload>> /\ t.key \in Keys
      BY DEF OkAnswerIsPaid, IInv, TypeOK
    <3>2. <<t.payload>> # <<>>
      OBVIOUS
    <3> QED
      BY <1>6, <3>1, <3>2
  <2>3. \A t \in told' : t.answer = "ok" => paid'[t.key] = <<t.payload>>
    BY <1>8, <1>10, <2>2 DEF OkAnswerIsPaid, IInv
  <2> QED
    BY <2>1, <2>3 DEF OkAnswerIsPaid
<1>18. Exclusive'
  <2> SUFFICES ASSUME Route = "sync" PROVE Exclusive'
    BY DEF Exclusive
  <2>1. OneRunner'
    BY <1>1, <1>2, <1>4 DEF OneRunner, Exclusive, IInv
  <2>2. \A b \in Attempts : pc'[b] \in Unpaid => paid'[KeyOf(b)'] = <<>>
    <3> TAKE b \in Attempts
    <3> HAVE pc'[b] \in Unpaid
    <3>1. b # a /\ pc[b] \in Unpaid /\ pc[b] \in Running
      BY <1>2 DEF Unpaid, Running
    <3>2. KeyOf(b) # k
      BY <1>1, <3>1 DEF OneRunner, Exclusive, IInv
    <3> QED
      BY <1>4, <1>8, <3>1, <3>2 DEF Exclusive, IInv
  <2>3. \A l \in Keys : record'[l].status = "pending" <=>
                        Exists(record'[l]) /\ paid'[l] = <<>>
    BY <1>1, <1>3, <1>8, <1>9 DEF Exclusive, IInv, Exists
  <2>4. \A l \in Keys : record'[l].code < 400
    BY <1>3 DEF Exclusive, IInv
  <2> QED
    BY <2>1, <2>2, <2>3, <2>4 DEF Exclusive, Exists
<1> QED
  BY <1>11, <1>12, <1>13, <1>14, <1>15, <1>16, <1>17, <1>18 DEF IInv

(* A new pending row makes its attempt the only runner of the key.         *)
LEMMA InsertWins ==
  ASSUME NeverReleases, IInv, TypeOK', NEW a \in Attempts, InsertWon(a)
  PROVE  IInv'
<1> DEFINE k == KeyOf(a)
           p == req[a].payload
<1>1. /\ k \in Keys /\ p \in Payloads /\ record[k].hash = {} /\ ~Exists(record[k])
  BY DEF InsertWon, IInv, TypeOK, KeyOf, RecordOf, Requests, NoRecordNoBody
<1>2. /\ pc'[a] = "handler"
      /\ \A b \in Attempts \ {a} : pc'[b] = pc[b]
  BY DEF InsertWon, Goto, IInv, TypeOK
<1>3. /\ record'[k] = Pending(p)
      /\ \A l \in Keys \ {k} : record'[l] = record[l]
  BY <1>1 DEF InsertWon, IInv, TypeOK
<1>4. \A b \in Attempts : KeyOf(b)' = KeyOf(b) /\ KeyOf(b) \in Keys
  BY DEF InsertWon, KeyOf, IInv, TypeOK, Requests
<1>5. UNCHANGED <<effects, paid, req, ans, told>>
  BY DEF InsertWon
<1>6. effects[k]["payment"] = 0 /\ paid[k] = <<>>
  BY <1>1 DEF PaidCounted, IInv
<1>7. \A b \in Attempts : pc[b] \in Running => KeyOf(b) # k
  BY <1>1 DEF RunsUnderRecord, RecordOf, IInv
<1>8. NoRelease'
  BY <1>2 DEF NoRelease, IInv
<1>9. RunsUnderRecord'
  <2>1. \A b \in Attempts \ {a} : pc'[b] \in Running =>
          /\ RecordOf(b)' = RecordOf(b)
          /\ RecordOf(b).hash = {req[b].payload} /\ Exists(RecordOf(b))
    BY <1>2, <1>3, <1>4, <1>7 DEF RunsUnderRecord, RecordOf, IInv
  <2>2. RecordOf(a)' = Pending(p)
    BY <1>3, <1>4 DEF RecordOf
  <2> QED
    BY <1>5, <2>1, <2>2 DEF RunsUnderRecord, Exists, Pending
<1>10. NoRecordNoBody' /\ SuccessIsPaid' /\ EachStageOnce'
  BY <1>3, <1>5 DEF NoRecordNoBody, SuccessIsPaid, EachStageOnce, IInv, Exists, Finished,
                    Pending
<1>11. PaidCounted'
  BY <1>3, <1>5, <1>6 DEF PaidCounted, IInv
<1>12. FinishedIsPaid' /\ OkAnswerIsPaid'
  BY <1>2, <1>4, <1>5 DEF FinishedIsPaid, OkAnswerIsPaid, IInv
<1>13. Exclusive'
  <2> SUFFICES ASSUME Route = "sync" PROVE Exclusive'
    BY DEF Exclusive
  <2>1. OneRunner'
    BY <1>2, <1>4, <1>7 DEF OneRunner, Exclusive, IInv
  <2>2. \A b \in Attempts : pc'[b] \in Unpaid => paid'[KeyOf(b)'] = <<>>
    BY <1>2, <1>4, <1>5, <1>6 DEF Exclusive, IInv
  <2>3. \A l \in Keys : record'[l].status = "pending" <=>
                        Exists(record'[l]) /\ paid'[l] = <<>>
    BY <1>3, <1>5, <1>6 DEF Exclusive, IInv, Exists, Pending
  <2>4. \A l \in Keys : record'[l].code < 400
    BY <1>3 DEF Exclusive, IInv, Pending
  <2> QED
    BY <2>1, <2>2, <2>3, <2>4 DEF Exclusive, Exists
<1> QED
  BY <1>8, <1>9, <1>10, <1>11, <1>12, <1>13 DEF IInv

(* The response, or on a sale route a rejection, is cached in the record.  *)
LEMMA OutcomeCached ==
  ASSUME NeverReleases, IInv, TypeOK', NEW a \in Attempts,
         Exists(RecordOf(a)), FinalWrite(a) \/ CacheRejection(a)
  PROVE  IInv'
<1> DEFINE k == KeyOf(a)
<1>1. /\ k \in Keys /\ pc[a] \in Running /\ pc[a] \in {"final", "cache"}
      /\ Exists(record[k]) /\ record[k].hash = {req[a].payload}
  BY DEF FinalWrite, CacheRejection, IInv, TypeOK, KeyOf, RecordOf, Requests, Running,
         RunsUnderRecord
<1>2. /\ pc'[a] = "reply"
      /\ \A b \in Attempts \ {a} : pc'[b] = pc[b] /\ ans'[b] = ans[b]
  BY DEF FinalWrite, CacheRejection, Goto, IInv, TypeOK
<1>3. /\ record'[k].hash = record[k].hash /\ record'[k].status = "completed"
      /\ \/ pc[a] = "final" /\ record'[k].code = 200
         \/ pc[a] = "cache" /\ record'[k].code = 400 /\ ans'[a] = "safe"
      /\ \A l \in Keys \ {k} : record'[l] = record[l]
  BY <1>1 DEF FinalWrite, CacheRejection, Write, RecordOf, IInv, TypeOK
<1>4. \A b \in Attempts : KeyOf(b)' = KeyOf(b) /\ KeyOf(b) \in Keys
  BY DEF FinalWrite, CacheRejection, KeyOf, IInv, TypeOK, Requests
<1>5. UNCHANGED <<effects, paid, req, told>>
  BY DEF FinalWrite, CacheRejection
<1>6. pc[a] = "final" => paid[k] # <<>>
  BY DEF FinishedIsPaid, IInv
<1>7. NoRelease'
  BY <1>2 DEF NoRelease, IInv
<1>8. RunsUnderRecord'
  BY <1>1, <1>2, <1>3, <1>4, <1>5 DEF RunsUnderRecord, RecordOf, IInv, Exists, Running
<1>9. NoRecordNoBody' /\ SuccessIsPaid' /\ EachStageOnce'
  BY <1>1, <1>3, <1>5, <1>6 DEF NoRecordNoBody, SuccessIsPaid, EachStageOnce, IInv, Exists,
                                Finished
<1>10. PaidCounted'
  <2>1. \A l \in Keys : record'[l].hash = record[l].hash
    BY <1>3
  <2> QED
    BY <1>5, <2>1 DEF PaidCounted, IInv
<1>11. FinishedIsPaid'
  BY <1>2, <1>4, <1>5 DEF FinishedIsPaid, IInv
<1>12. OkAnswerIsPaid'
  <2>1. pc[a] = "final" => paid[k] = <<req[a].payload>>
    <3>1. CASE effects[k]["payment"] = 0 /\ paid[k] = <<>>
      BY <1>6, <3>1
    <3>2. CASE \E p \in Payloads : paid[k] = <<p>> /\ record[k].hash = {p}
      BY <1>1, <3>2
    <3> QED
      BY <1>1, <3>1, <3>2 DEF PaidCounted, IInv
  <2> QED
    BY <1>2, <1>3, <1>4, <1>5, <2>1 DEF OkAnswerIsPaid, IInv
<1>13. Exclusive'
  <2> SUFFICES ASSUME Route = "sync" PROVE Exclusive'
    BY DEF Exclusive
  <2>1. pc[a] = "final"
    BY <1>1 DEF NoRelease, IInv
  <2>2. OneRunner'
    BY <1>1, <1>2, <1>4 DEF OneRunner, Exclusive, IInv, Running
  <2>3. \A b \in Attempts : pc'[b] \in Unpaid => paid'[KeyOf(b)'] = <<>>
    BY <1>2, <1>4, <1>5 DEF Exclusive, IInv, Unpaid
  <2>4. \A l \in Keys : record'[l].status = "pending" <=>
                        Exists(record'[l]) /\ paid'[l] = <<>>
    BY <1>1, <1>3, <1>5, <1>6, <2>1 DEF Exclusive, IInv, Exists
  <2>5. \A l \in Keys : record'[l].code < 400
    BY <1>3, <2>1 DEF Exclusive, IInv
  <2> QED
    BY <2>2, <2>3, <2>4, <2>5 DEF Exclusive, Exists
<1> QED
  BY <1>7, <1>8, <1>9, <1>10, <1>11, <1>12, <1>13 DEF IInv

(* The age of a record decides nothing where records are never released.  *)
LEMMA RecordAges ==
  ASSUME IInv, TypeOK', NEW k \in Keys, Age(k)
  PROVE  IInv'
<1>1. \A l \in Keys : /\ record'[l].status = record[l].status
                    /\ record'[l].hash = record[l].hash
                    /\ record'[l].code = record[l].code
  BY DEF Age, IInv, TypeOK, Records
<1>2. UNCHANGED <<effects, paid, pc, req, ans, told>>
  BY DEF Age
<1>3. \A b \in Attempts : KeyOf(b)' = KeyOf(b) /\ KeyOf(b) \in Keys
  BY <1>2 DEF KeyOf, IInv, TypeOK, Requests
<1>4. RunsUnderRecord'
  BY <1>1, <1>2, <1>3 DEF RunsUnderRecord, IInv, Exists, RecordOf
<1>5. NoRecordNoBody' /\ PaidCounted' /\ SuccessIsPaid'
  BY <1>1, <1>2 DEF NoRecordNoBody, PaidCounted, SuccessIsPaid, IInv, Exists, Finished
<1>6. NoRelease' /\ FinishedIsPaid' /\ OkAnswerIsPaid' /\ EachStageOnce'
  BY <1>2, <1>3 DEF NoRelease, FinishedIsPaid, OkAnswerIsPaid, EachStageOnce, IInv
<1>7. Exclusive'
  BY <1>1, <1>2, <1>3 DEF Exclusive, OneRunner, Exists, IInv
<1> QED
  BY <1>4, <1>5, <1>6, <1>7 DEF IInv

(* A request that has only been sent changes no record and no effect.     *)
LEMMA RequestStarts ==
  ASSUME IInv, TypeOK', NEW a \in Attempts, NEW r \in Requests, Start(a, r)
  PROVE  IInv'
<1>1. /\ pc'[a] = "lookup" /\ pc[a] = "idle"
      /\ \A b \in Attempts \ {a} : /\ pc'[b] = pc[b] /\ ans'[b] = ans[b]
                                  /\ req'[b] = req[b] /\ KeyOf(b)' = KeyOf(b)
  BY DEF Start, Goto, KeyOf, IInv, TypeOK
<1>2. UNCHANGED <<record, effects, paid, told>>
  BY DEF Start
<1>3. \A b \in Attempts \ {a} : RecordOf(b)' = RecordOf(b)
  BY <1>1, <1>2 DEF RecordOf
<1>4. NoRelease' /\ RunsUnderRecord' /\ FinishedIsPaid'
  BY <1>1, <1>2, <1>3 DEF NoRelease, RunsUnderRecord, FinishedIsPaid, Exists, Running, IInv
<1>5. NoRecordNoBody' /\ PaidCounted' /\ SuccessIsPaid' /\ EachStageOnce'
  BY <1>2 DEF NoRecordNoBody, PaidCounted, SuccessIsPaid, EachStageOnce, IInv, Exists, Finished
<1>6. OkAnswerIsPaid'
  BY <1>1, <1>2 DEF OkAnswerIsPaid, IInv
<1>7. Exclusive'
  BY <1>1, <1>2 DEF Exclusive, OneRunner, Exists, Running, Unpaid, IInv
<1> QED
  BY <1>4, <1>5, <1>6, <1>7 DEF IInv

(* What a client is told was true of the answer about to be sent.          *)
LEMMA AnswerReceived ==
  ASSUME IInv, TypeOK', NEW a \in Attempts, Reply(a)
  PROVE  IInv'
<1>1. /\ pc'[a] = "idle" /\ pc[a] = "reply"
      /\ \A b \in Attempts \ {a} : pc'[b] = pc[b]
  BY DEF Reply, Goto, IInv, TypeOK
<1>2. UNCHANGED <<record, effects, paid, req, ans>>
  BY DEF Reply
<1>3. \A b \in Attempts : KeyOf(b)' = KeyOf(b) /\ RecordOf(b)' = RecordOf(b)
  BY <1>2 DEF KeyOf, RecordOf
<1>4. NoRelease' /\ RunsUnderRecord' /\ FinishedIsPaid'
  BY <1>1, <1>2, <1>3 DEF NoRelease, RunsUnderRecord, FinishedIsPaid, Exists, Running, IInv
<1>5. NoRecordNoBody' /\ PaidCounted' /\ SuccessIsPaid' /\ EachStageOnce'
  BY <1>2 DEF NoRecordNoBody, PaidCounted, SuccessIsPaid, EachStageOnce, IInv, Exists, Finished
<1>6. OkAnswerIsPaid'
  <2>1. \A t \in told' : t \in told \/ t = [key |-> KeyOf(a), payload |-> req[a].payload,
                                         answer |-> ans[a]]
    BY DEF Reply
  <2> QED
    BY <1>1, <1>2, <1>3, <2>1 DEF OkAnswerIsPaid, IInv
<1>7. Exclusive'
  BY <1>1, <1>2, <1>3 DEF Exclusive, OneRunner, Exists, Running, Unpaid, IInv
<1> QED
  BY <1>4, <1>5, <1>6, <1>7 DEF IInv

(* Every step keeps the invariant: one case per action.                    *)
LEMMA InvStep == NeverReleases /\ IInv /\ [Next]_vars => IInv'
<1> SUFFICES ASSUME NeverReleases, IInv, [Next]_vars
             PROVE  IInv'
  OBVIOUS
<1>1. TypeOK'
  BY TypeStep DEF IInv
<1>2. ASSUME NEW a \in Attempts
      PROVE  /\ KeyOf(a) \in Keys /\ RecordOf(a) \in Records
             /\ pc[a] # "release"
             /\ pc[a] \in Running => /\ RecordOf(a).hash = {req[a].payload}
                                     /\ Exists(RecordOf(a))
             /\ Finished(RecordOf(a)) /\ RecordOf(a).hash = {req[a].payload}
                  /\ Replayed(RecordOf(a)) = "ok" => paid[KeyOf(a)] = <<req[a].payload>>
  <2>1. KeyOf(a) \in Keys /\ RecordOf(a) \in Records
    BY DEF IInv, TypeOK, KeyOf, RecordOf, Requests
  <2>2. pc[a] # "release"
    BY DEF IInv, NoRelease
  <2>3. pc[a] \in Running => RecordOf(a).hash = {req[a].payload} /\ Exists(RecordOf(a))
    BY DEF IInv, RunsUnderRecord
  <2>4. ASSUME Finished(RecordOf(a)), RecordOf(a).hash = {req[a].payload},
               Replayed(RecordOf(a)) = "ok"
        PROVE  paid[KeyOf(a)] = <<req[a].payload>>
    <3>1. paid[KeyOf(a)] # <<>>
      BY <2>1, <2>4 DEF IInv, SuccessIsPaid, Replayed, RecordOf
    <3>2. PICK p \in Payloads : paid[KeyOf(a)] = <<p>> /\ RecordOf(a).hash = {p}
      BY <2>1, <3>1 DEF IInv, PaidCounted, RecordOf
    <3> QED
      BY <2>4, <3>2
  <2> QED
    BY <2>1, <2>2, <2>3, <2>4
<1>3. ASSUME NEW a \in Attempts, NEW answer \in Answers, Respond(a, answer),
             answer = "ok" => paid[KeyOf(a)] = <<req[a].payload>>
      PROVE  IInv'
  <2>1. /\ ans'[a] = answer /\ \A b \in Attempts \ {a} : ans'[b] = ans[b]
        /\ Goto(a, "reply") /\ UNCHANGED <<record, effects, paid, req, told>>
    BY <1>3 DEF Respond, IInv, TypeOK
  <2>2. "reply" \in Positions /\ "reply" \notin Running /\ "reply" \notin Unpaid
    BY DEF Positions, Running, Unpaid
  <2> QED
    BY <1>1, <1>3, <2>1, <2>2, AttemptMoves
<1>4. ASSUME NEW a \in Attempts, NEW class, Throw(a, class), pc[a] \in Running,
             UNCHANGED <<record, effects, paid, req, ans, told>>
      PROVE  IInv'
  <2>1. "catch" \in Positions /\ "catch" \in Running /\ "catch" \notin Unpaid
    BY DEF Positions, Running, Unpaid
  <2> QED
    BY <1>1, <1>2, <1>4, <2>1, AttemptMoves DEF Throw
<1>5. ASSUME NEW a \in Attempts, NEW from, NEW to \in Positions, Move(a, from, to),
             to \notin {"release", "final", "reply"},
             to = "cache" => Route = "sale",
             to \in Running => /\ RecordOf(a).hash = {req[a].payload}
                               /\ Exists(RecordOf(a))
                               /\ (Route = "sync" => pc[a] \in Running),
             to \in Unpaid => (Route = "sync" => pc[a] \in Unpaid)
      PROVE  IInv'
  BY <1>1, <1>5, AttemptMoves DEF Move
<1>6. ASSUME NEW a \in Attempts, Retry(a) PROVE IInv'
  BY <1>1, <1>6, RequestStarts DEF Retry
<1>7. ASSUME NEW a \in Attempts, ServerStep(a) PROVE IInv'
  <2>1. CASE LookupMiss(a) \/ InsertLost(a)
    <3>1. /\ {"insert", "clash"} \subseteq Positions
          /\ {"insert", "clash"} \cap (Running \cup Unpaid) = {}
      BY DEF Positions, Running, Unpaid
    <3> QED
      BY <1>5, <2>1, <3>1 DEF LookupMiss, InsertLost
  <2>2. CASE LookupRecover(a)
    <3>1. "handler" \in Positions
      BY DEF Positions
    <3>2. Route = "sale"
      BY <2>2 DEF LookupRecover, RecoverableSale
    <3>3. RecordOf(a).hash = {req[a].payload} /\ Exists(RecordOf(a))
      BY <2>2 DEF LookupRecover, AtPending, SameRequest, Exists
    <3> QED
      BY <1>5, <2>2, <3>1, <3>2, <3>3 DEF LookupRecover
  <2>3. CASE LookupAbandoned(a)
    BY <2>3 DEF LookupAbandoned, RecoverableSale, Abandoned, OutcomeRoute, NeverReleases
  <2>4. CASE Release(a)
    BY <1>2, <2>4 DEF Release
  <2>5. CASE LookupMismatch(a) \/ LookupBusy(a)
    BY <1>3, <2>5 DEF LookupMismatch, LookupBusy, Answers
  <2>6. CASE LookupReplay(a) \/ ReadWinner(a) \/ CatchReplay(a) \/ CatchRetain(a)
    <3>1. Replayed(RecordOf(a)) \in {"ok", "safe"}
      BY DEF Replayed
    <3>2. /\ {"ok", "safe", "conflict", "rejected", "failed"} \subseteq Answers
          /\ "catch" \in Running
      BY DEF Answers, Running
    <3>3. CASE LookupReplay(a)
      BY <1>2, <1>3, <3>1, <3>2, <3>3 DEF LookupReplay, SameRequest
    <3>4. CASE ReadWinner(a)
      BY <1>2, <1>3, <3>1, <3>2, <3>4 DEF ReadWinner, SameRequest
    <3>5. CASE CatchReplay(a)
      BY <1>2, <1>3, <3>1, <3>2, <3>5 DEF CatchReplay
    <3>6. CASE CatchRetain(a)
      BY <1>3, <3>2, <3>6 DEF CatchRetain
    <3> QED
      BY <2>6, <3>3, <3>4, <3>5, <3>6
  <2>7. CASE InsertWon(a)
    BY <1>1, <2>7, InsertWins
  <2>8. CASE BeginHandler(a)
    <3>1. PICK to \in Stages : Move(a, "handler", to)
      <4>1. CASE Handler = "single"
        BY <2>8, <4>1 DEF BeginHandler, Stages
      <4>2. CASE Handler = "sale"
        BY <2>8, <4>2 DEF BeginHandler, Stages
      <4> QED
        BY <4>1, <4>2, IdempotencyAssumption
    <3>2. /\ to \in Positions /\ to \in Unpaid /\ to \in Running
          /\ to \notin {"release", "final", "reply", "cache"}
      BY DEF Positions, Unpaid, Running, Stages
    <3>3. pc[a] \in Running /\ pc[a] \in Unpaid
      BY <3>1 DEF Move, Running, Unpaid
    <3> QED
      BY <1>2, <1>5, <3>1, <3>2, <3>3
  <2>9. CASE CreateOrder(a)
    <3>1. "order" \in Stages \ {"payment"} /\ "invoice" \in Unpaid
      BY <2>9 DEF CreateOrder, IInv, TypeOK, Positions, Stages, Unpaid
    <3> QED
      BY <1>1, <2>9, <3>1, TransactionCommits DEF CreateOrder
  <2>10. CASE GenerateInvoice(a)
    <3>1. "invoice" \in Stages \ {"payment"} /\ "payment" \in Unpaid
      BY <2>10 DEF GenerateInvoice, IInv, TypeOK, Positions, Stages, Unpaid
    <3> QED
      BY <1>1, <2>10, <3>1, TransactionCommits DEF GenerateInvoice
  <2>11. CASE ReuseInvoice(a)
    <3>1. /\ "payment" \in Positions /\ {"payment", "invoice"} \subseteq Unpaid
          /\ {"payment", "invoice"} \subseteq Running
      BY DEF Positions, Unpaid, Running, Stages
    <3>2. pc[a] = "invoice"
      BY <2>11 DEF ReuseInvoice, Move
    <3> QED
      BY <1>2, <1>5, <2>11, <3>1, <3>2 DEF ReuseInvoice
  <2>12. CASE TakePayment(a)
    BY <1>1, <2>12, PaymentCommits
  <2>13. CASE RefuseCommit(a)
    <3>1. pc[a] \in Running
      BY <2>13 DEF RefuseCommit, Running
    <3> QED
      BY <1>4, <2>13, <3>1 DEF RefuseCommit
  <2>14. CASE FinalWrite(a) \/ CacheRejection(a)
    <3>1. pc[a] \in Running
      BY <2>14 DEF FinalWrite, CacheRejection, Running
    <3> QED
      BY <1>1, <1>2, <2>14, <3>1, OutcomeCached
  <2>15. CASE CatchDefinitive(a)
    <3>1. "cache" \in Positions /\ "cache" \notin Unpaid /\ "catch" \in Running
      BY DEF Positions, Unpaid, Running
    <3>2. Route = "sale" /\ pc[a] = "catch"
      BY <2>15 DEF CatchDefinitive, NothingSaved, OutcomeRoute, NeverReleases, Move
    <3> QED
      BY <1>2, <1>5, <2>15, <3>1, <3>2 DEF CatchDefinitive
  <2> QED
    BY <1>7, <2>1, <2>2, <2>3, <2>4, <2>5, <2>6, <2>7, <2>8, <2>9, <2>10, <2>11,
       <2>12, <2>13, <2>14, <2>15 DEF ServerStep
<1>8. ASSUME NEW a \in Attempts, Reply(a) PROVE IInv'
  BY <1>1, <1>8, AnswerReceived
<1>9. ASSUME NEW a \in Attempts, Fault(a) PROVE IInv'
  <2>1. CASE Reject(a) \/ Fail(a)
    <3>1. pc[a] \in Running
      BY <2>1 DEF Reject, Fail, Running
    <3> QED
      BY <1>4, <2>1, <3>1 DEF Reject, Fail
  <2>2. CASE Crash(a) \/ InsertFails(a)
    <3>1. /\ {"idle", "clash"} \subseteq Positions
          /\ {"idle", "clash"} \cap (Running \cup Unpaid) = {}
      BY DEF Positions, Running, Unpaid
    <3> QED
      BY <1>1, <2>2, <3>1, AttemptMoves DEF Crash, InsertFails
  <2> QED
    BY <1>9, <2>1, <2>2 DEF Fault
<1>10. ASSUME NEW k \in Keys, Age(k) PROVE IInv'
  BY <1>1, <1>10, RecordAges
<1>11. CASE UNCHANGED vars
  <2>1. \A b \in Attempts : KeyOf(b)' = KeyOf(b) /\ RecordOf(b)' = RecordOf(b)
    BY <1>11 DEF vars, KeyOf, RecordOf
  <2> QED
    BY <1>1, <1>11, <2>1 DEF vars, IInv, NoRelease, NoRecordNoBody, RunsUnderRecord, PaidCounted,
       SuccessIsPaid, FinishedIsPaid, OkAnswerIsPaid, EachStageOnce, Exclusive, OneRunner,
       Exists, Finished
<1> QED
  BY <1>6, <1>7, <1>8, <1>9, <1>10, <1>11 DEF Next

(* The inductive invariant holds throughout, wherever records stay.        *)
LEMMA Invariant == NeverReleases => (Spec => []IInv)
<1> SUFFICES ASSUME NeverReleases PROVE Spec => []IInv
  OBVIOUS
<1>1. Init => IInv
  BY InitInv
<1>2. IInv /\ [Next]_vars => IInv'
  BY InvStep
<1> QED
  BY <1>1, <1>2, PTL DEF Spec

----------------------------------------------------------------------------
(* However many attempts race, retry and crash, the sale routes and the    *)
(* sync route commit each transaction of the handler at most once.         *)
THEOREM CommitsAtMostOnce == NeverReleases => (Spec => []AtMostOnce)
<1>1. IInv => AtMostOnce
  BY DEF IInv, EachStageOnce, AtMostOnce
<1> QED
  BY <1>1, Invariant, PTL

(* Where the payment carries a key of its own (the treasury postingKey, or *)
(* the residual of an invoice), each transaction commits at most once on   *)
(* every route, whatever happens to the record and however long it takes.  *)
THEOREM GuardedAtMostOnce == PaymentGuarded => (Spec => []AtMostOnce)
<1> SUFFICES ASSUME PaymentGuarded PROVE Spec => []AtMostOnce
  OBVIOUS
<1> DEFINE Inv == TypeOK /\ EachStageOnce
<1>1. Init => Inv
  BY InitType DEF Init, EachStageOnce
<1>2. ASSUME Inv, [Next]_vars PROVE Inv'
  <2>1. TypeOK'
    BY <1>2, TypeStep
  <2>2. ASSUME NEW a \in Attempts, NEW s \in Stages, NEW status, NEW code,
               ~Done(a, s), Commit(a, s, status, code)
        PROVE  EachStageOnce'
    <3>1. effects' = [effects EXCEPT ![KeyOf(a)][s] = @ + 1] /\ KeyOf(a) \in Keys
      BY <1>2, <2>2 DEF Commit, KeyOf, TypeOK, Requests
    <3>2. effects[KeyOf(a)][s] = 0
      BY <1>2, <2>2, <3>1 DEF Done, EachStageOnce
    <3> QED
      BY <1>2, <3>1, <3>2 DEF EachStageOnce, TypeOK
  <2>3. ASSUME NEW a \in Attempts, CreateOrder(a) \/ GenerateInvoice(a) \/ TakePayment(a)
        PROVE  EachStageOnce'
    <3>1. CASE CreateOrder(a)
      <4>1. pc[a] = "order" /\ pc[a] \in Positions
        BY <1>2, <3>1 DEF CreateOrder, TypeOK
      <4>2. "order" \in Stages
        BY <4>1 DEF Positions
      <4> QED
        BY <2>2, <3>1, <4>2 DEF CreateOrder
    <3>2. CASE GenerateInvoice(a)
      <4>1. pc[a] = "invoice" /\ pc[a] \in Positions
        BY <1>2, <3>2 DEF GenerateInvoice, TypeOK
      <4>2. "invoice" \in Stages
        BY <4>1 DEF Positions
      <4> QED
        BY <2>2, <3>2, <4>2 DEF GenerateInvoice
    <3>3. CASE TakePayment(a)
      <4>1. "payment" \in Stages
        BY DEF Stages
      <4> QED
        BY <2>2, <3>3, <4>1 DEF TakePayment
    <3> QED
      BY <2>3, <3>1, <3>2, <3>3
  <2>4. ASSUME UNCHANGED effects PROVE EachStageOnce'
    BY <1>2, <2>4 DEF EachStageOnce
  <2>5. ASSUME NEW a \in Attempts, ServerStep(a) PROVE EachStageOnce'
    BY <2>3, <2>4, <2>5 DEF ServerStep, LookupMiss, LookupMismatch, LookupReplay,
       LookupRecover, LookupAbandoned, LookupBusy, Release, InsertWon, InsertLost,
       ReadWinner, BeginHandler, ReuseInvoice, RefuseCommit, FinalWrite, CatchReplay,
       CatchDefinitive, CatchRetain, CacheRejection, Move, Respond
  <2>6. ASSUME NEW a \in Attempts, Retry(a) \/ Reply(a) \/ Fault(a) PROVE EachStageOnce'
    BY <2>4, <2>6 DEF Retry, Start, Reply, Fault, InsertFails, Reject, Fail, Crash
  <2>7. ASSUME NEW k \in Keys, Age(k) PROVE EachStageOnce'
    BY <2>4, <2>7 DEF Age
  <2>8. ASSUME UNCHANGED vars PROVE EachStageOnce'
    BY <2>4, <2>8 DEF vars
  <2>9. EachStageOnce'
    BY <1>2, <2>5, <2>6, <2>7, <2>8 DEF Next
  <2> QED
    BY <2>1, <2>9
<1>3. Inv => AtMostOnce
  BY DEF EachStageOnce, AtMostOnce
<1> QED
  BY <1>1, <1>2, <1>3, PTL DEF Spec

(* On the sync route the pending row is the lock it is said to be.         *)
THEOREM SyncLocks == Route = "sync" => (Spec => []OneRunner)
<1> SUFFICES ASSUME Route = "sync" PROVE Spec => []OneRunner
  OBVIOUS
<1>1. IInv => OneRunner
  BY DEF IInv, Exclusive
<1>2. NeverReleases
  BY DEF NeverReleases
<1> QED
  BY <1>1, <1>2, Invariant, PTL

(* On the sync route a payment that committed is always replayed.          *)
THEOREM SyncReplays == Route = "sync" => (Spec => []PaidIsReplayable)
<1> SUFFICES ASSUME Route = "sync" PROVE Spec => []PaidIsReplayable
  OBVIOUS
<1>1. ASSUME IInv PROVE PaidIsReplayable
  <2> SUFFICES ASSUME NEW k \in Keys, effects[k]["payment"] > 0
               PROVE  Finished(record[k]) /\ Replayed(record[k]) = "ok"
    BY DEF PaidIsReplayable
  <2>1. PICK p \in Payloads : paid[k] = <<p>> /\ record[k].hash = {p}
    BY <1>1 DEF IInv, PaidCounted
  <2>2. Exists(record[k]) /\ paid[k] # <<>>
    BY <1>1, <2>1 DEF IInv, NoRecordNoBody
  <2>3. record[k].status # "pending" /\ record[k].code < 400
    BY <1>1, <2>2 DEF IInv, Exclusive
  <2>4. record[k] \in Records
    BY <1>1 DEF IInv, TypeOK
  <2> QED
    BY <2>2, <2>3, <2>4 DEF Finished, Exists, Records, Replayed
<1>2. NeverReleases
  BY DEF NeverReleases
<1> QED
  BY <1>1, <1>2, Invariant, PTL

RecordKept ==
  \A k \in Keys : Finished(record[k]) =>
    Finished(record'[k]) /\ (Replayed(record[k]) = "ok" => Replayed(record'[k]) = "ok")

(* Where an attempt that has not paid finds the record pending and a       *)
(* rejection is never cached, whoever writes a finished record finishes it *)
(* again, with a success.                                                  *)
LEMMA SyncRecordKept ==
  ASSUME Route = "sync", IInv, [Next]_vars
  PROVE  RecordKept
<1>1. CASE UNCHANGED record
  BY <1>1 DEF RecordKept
<1>2. ASSUME NEW a \in Attempts, NEW r, record' = [record EXCEPT ![KeyOf(a)] = r],
             Finished(RecordOf(a)) => Finished(r) /\ r.code < 400
      PROVE  RecordKept
  BY <1>2 DEF RecordKept, Replayed, RecordOf, IInv, TypeOK
<1>3. ASSUME NEW a \in Attempts, pc[a] \in Unpaid, Exists(RecordOf(a))
      PROVE  ~Finished(RecordOf(a))
  <2>1. paid[KeyOf(a)] = <<>> /\ KeyOf(a) \in Keys
    BY <1>3 DEF IInv, Exclusive, TypeOK, KeyOf, Requests
  <2> QED
    BY <1>3, <2>1 DEF IInv, Exclusive, Finished, RecordOf
<1>4. ASSUME NEW a \in Attempts, ServerStep(a)
      PROVE  RecordKept
  <2>1. CASE CreateOrder(a) \/ GenerateInvoice(a) \/ TakePayment(a)
    <3>1. PICK s, status, code : Commit(a, s, status, code)
      BY <2>1 DEF CreateOrder, GenerateInvoice, TakePayment
    <3>2. pc[a] \in Unpaid
      BY <2>1 DEF CreateOrder, GenerateInvoice, TakePayment, Unpaid
    <3> QED
      BY <1>2, <1>3, <3>1, <3>2 DEF Commit
  <2>2. CASE InsertWon(a)
    BY <1>2, <2>2 DEF InsertWon, Exists, Finished
  <2>3. CASE FinalWrite(a)
    <3>1. CASE Exists(RecordOf(a))
      <4> DEFINE r == Write(RecordOf(a), "completed", 200, Stages)
      <4>1. Finished(r) /\ r.code < 400
        BY DEF Write, Finished
      <4>2. record' = [record EXCEPT ![KeyOf(a)] = r]
        BY <2>3, <3>1 DEF FinalWrite, RecordOf
      <4> QED
        BY <1>2, <4>1, <4>2
    <3>2. CASE ~Exists(RecordOf(a))
      BY <1>1, <2>3, <3>2 DEF FinalWrite
    <3> QED
      BY <3>1, <3>2
  <2>4. CASE Release(a) \/ CacheRejection(a)
    BY <2>4 DEF IInv, NoRelease, Release, CacheRejection
  <2> QED
    BY <1>1, <1>4, <2>1, <2>2, <2>3, <2>4 DEF ServerStep, LookupMiss, LookupMismatch,
       LookupReplay, LookupRecover, LookupAbandoned, LookupBusy, InsertLost, ReadWinner,
       BeginHandler, ReuseInvoice, RefuseCommit, CatchReplay, CatchDefinitive, CatchRetain,
       Move, Respond
<1>5. ASSUME NEW a \in Attempts, Retry(a) \/ Reply(a) \/ Fault(a)
      PROVE  RecordKept
  BY <1>1, <1>5 DEF Retry, Start, Reply, Fault, InsertFails, Reject, Fail, Crash
<1>6. ASSUME NEW k \in Keys, Age(k)
      PROVE  RecordKept
  BY <1>6 DEF Age, RecordKept, Finished, Replayed, IInv, TypeOK
<1>7. CASE UNCHANGED vars
  BY <1>1, <1>7 DEF vars
<1> QED
  BY <1>4, <1>5, <1>6, <1>7 DEF Next

(* On the sync route a finished record is final: it is never removed, made *)
(* pending again, or turned from a success into a rejection.               *)
THEOREM SyncRecordStays == Route = "sync" => (Spec => RecordStays)
<1> SUFFICES ASSUME Route = "sync" PROVE Spec => RecordStays
  OBVIOUS
<1>1. IInv /\ [Next]_vars => [RecordKept]_vars
  BY SyncRecordKept
<1>2. NeverReleases
  BY DEF NeverReleases
<1> QED
  BY <1>1, <1>2, Invariant, PTL DEF Spec, RecordStays, RecordKept

(* A step of the service is a step of the abstract specification, if an    *)
(* attempt only pays for a key nobody has paid for and an "ok" on its way  *)
(* is backed by money that moved for its body.                             *)
LEMMA StepMaps ==
  ASSUME TypeOK, [Next]_vars,
         \A a \in Attempts : TakePayment(a) => paid[KeyOf(a)] = <<>>,
         \A a \in Attempts :
           pc[a] = "reply" /\ ans[a] = "ok" => paid[KeyOf(a)] = <<req[a].payload>>
  PROVE  [Once!Next]_(Once!vars)
<1>1. ASSUME NEW a \in Attempts, TakePayment(a) PROVE Once!Next
  <2>1. KeyOf(a) \in Keys /\ req[a].payload \in Payloads /\ UNCHANGED told
    BY <1>1 DEF TakePayment, Commit, KeyOf, TypeOK, Requests
  <2>2. /\ paid' = [paid EXCEPT ![KeyOf(a)] = Append(@, req[a].payload)]
        /\ paid[KeyOf(a)] = <<>>
    BY <1>1 DEF TakePayment
  <2>3. Append(<<>>, req[a].payload) = <<req[a].payload>>
    BY <2>1
  <2>4. Once!Move(KeyOf(a), req[a].payload)
    BY <2>1, <2>2, <2>3 DEF Once!Move
  <2> QED
    BY <2>1, <2>4 DEF Once!Next
<1>2. ASSUME NEW a \in Attempts, Reply(a) PROVE Once!Next
  <2>1. /\ KeyOf(a) \in Keys /\ req[a].payload \in Payloads /\ ans[a] \in Answers
        /\ ans[a] = "ok" => paid[KeyOf(a)] = <<req[a].payload>>
    BY <1>2 DEF Reply, KeyOf, TypeOK, Requests
  <2>2. Once!Tell(KeyOf(a), req[a].payload, ans[a])
    BY <1>2, <2>1 DEF Reply, Once!Tell
  <2> QED
    BY <2>1, <2>2 DEF Once!Next
<1>3. ASSUME NEW a \in Attempts, ServerStep(a), ~TakePayment(a)
      PROVE  UNCHANGED <<paid, told>>
  BY <1>3 DEF ServerStep, LookupMiss, LookupMismatch, LookupReplay, LookupRecover,
     LookupAbandoned, LookupBusy, Release, InsertWon, InsertLost, ReadWinner,
     BeginHandler, CreateOrder, GenerateInvoice, ReuseInvoice, RefuseCommit,
     FinalWrite, CatchReplay, CatchDefinitive, CatchRetain, CacheRejection,
     Move, Respond, Commit
<1>4. ASSUME NEW a \in Attempts, Retry(a) \/ Fault(a)
      PROVE  UNCHANGED <<paid, told>>
  BY <1>4 DEF Retry, Start, Fault, InsertFails, Reject, Fail, Crash
<1>5. ASSUME NEW k \in Keys, Age(k) PROVE UNCHANGED <<paid, told>>
  BY <1>5 DEF Age
<1>6. CASE UNCHANGED vars
  BY <1>6 DEF vars, Once!vars
<1> QED
  BY <1>1, <1>2, <1>3, <1>4, <1>5, <1>6 DEF Next, Once!vars

(* The protocol keeps the promise of a key: every step of it moves money   *)
(* for the first time, tells an answer the money backs, or is invisible.   *)
THEOREM KeepsThePromise == NeverReleases => (Spec => ImplementsOncePerKey)
<1> SUFFICES ASSUME NeverReleases PROVE Spec => Once!Spec
  BY DEF ImplementsOncePerKey
<1>1. Init => Once!Init
  BY DEF Init, Once!Init
<1>2. ASSUME IInv, IInv', [Next]_vars PROVE [Once!Next]_(Once!vars)
  <2>1. ASSUME NEW a \in Attempts, TakePayment(a) PROVE paid[KeyOf(a)] = <<>>
    <3>1. /\ KeyOf(a) \in Keys /\ req[a].payload \in Payloads
          /\ paid' = [paid EXCEPT ![KeyOf(a)] = Append(@, req[a].payload)]
          /\ paid \in [Keys -> Seq(Payloads)]
      BY <1>2, <2>1 DEF TakePayment, KeyOf, IInv, TypeOK, Requests
    <3>2. paid'[KeyOf(a)] = Append(paid[KeyOf(a)], req[a].payload)
      BY <3>1
    <3>3. Len(paid'[KeyOf(a)]) \in {0, 1}
      <4>1. \/ paid'[KeyOf(a)] = <<>>
            \/ \E p \in Payloads : paid'[KeyOf(a)] = <<p>>
        BY <1>2, <3>1 DEF IInv, PaidCounted
      <4>2. Len(<<>>) = 0 /\ \A p \in Payloads : Len(<<p>>) = 1
        OBVIOUS
      <4> QED
        BY <4>1, <4>2
    <3> QED
      BY <3>1, <3>2, <3>3
  <2> QED
    BY <1>2, <2>1, StepMaps DEF IInv, OkAnswerIsPaid
<1> QED
  BY <1>1, <1>2, Invariant, PTL DEF Spec, Once!Spec

----------------------------------------------------------------------------
(* The outcome routes.  A pending record may be released under a runner,   *)
(* so none of the above is left but the guard of the payment itself.       *)

(* Every request under a key carries the same body: the browser stores the *)
(* key under the fingerprint of the method, the URL and the body.          *)
OneBody == \A p, q \in Payloads : p = q

PaidOnce ==
  \A k \in Keys :
    \/ effects[k]["payment"] = 0 /\ paid[k] = <<>>
    \/ effects[k]["payment"] = 1 /\ \E p \in Payloads : paid[k] = <<p>>

GuardedInv ==
  /\ TypeOK
  /\ PaidOnce
  /\ SuccessIsPaid
  /\ FinishedIsPaid
  /\ OkAnswerIsPaid

(* Records and money stay, and an attempt moves.                           *)
LEMMA GuardedMoves ==
  ASSUME GuardedInv, TypeOK', NEW a \in Attempts, NEW to \in Positions, Goto(a, to),
         UNCHANGED <<record, effects, paid, req, told>>,
         \A b \in Attempts \ {a} : ans'[b] = ans[b],
         to = "final" => pc[a] = "final",
         to = "reply" /\ ans'[a] = "ok" => paid[KeyOf(a)] = <<req[a].payload>>
  PROVE  GuardedInv'
<1>1. /\ pc'[a] = to
      /\ \A b \in Attempts \ {a} : pc'[b] = pc[b]
  BY DEF Goto, GuardedInv, TypeOK
<1>2. \A b \in Attempts : KeyOf(b)' = KeyOf(b)
  BY DEF KeyOf
<1>3. PaidOnce' /\ SuccessIsPaid'
  BY DEF PaidOnce, SuccessIsPaid, GuardedInv, Finished
<1>4. FinishedIsPaid'
  BY <1>1, <1>2 DEF FinishedIsPaid, GuardedInv
<1>5. OkAnswerIsPaid'
  BY <1>1, <1>2 DEF OkAnswerIsPaid, GuardedInv
<1> QED
  BY <1>3, <1>4, <1>5 DEF GuardedInv

(* A record is written under an attempt that then moves: a success needs   *)
(* money that has moved.                                                   *)
LEMMA GuardedWrites ==
  ASSUME GuardedInv, TypeOK', NEW a \in Attempts, NEW r, NEW to \in Positions, Goto(a, to),
         record' = [record EXCEPT ![KeyOf(a)] = r],
         UNCHANGED <<effects, paid, req, told>>,
         \A b \in Attempts \ {a} : ans'[b] = ans[b],
         Finished(r) /\ r.code < 400 => paid[KeyOf(a)] # <<>>,
         to # "final",
         to = "reply" /\ ans'[a] = "ok" => paid[KeyOf(a)] = <<req[a].payload>>
  PROVE  GuardedInv'
<1>1. /\ pc'[a] = to
      /\ \A b \in Attempts \ {a} : pc'[b] = pc[b]
  BY DEF Goto, GuardedInv, TypeOK
<1>2. \A b \in Attempts : KeyOf(b)' = KeyOf(b)
  BY DEF KeyOf
<1>3. PaidOnce'
  BY DEF PaidOnce, GuardedInv
<1>4. SuccessIsPaid'
  BY DEF SuccessIsPaid, GuardedInv, TypeOK, Finished
<1>5. FinishedIsPaid'
  BY <1>1, <1>2 DEF FinishedIsPaid, GuardedInv
<1>6. OkAnswerIsPaid'
  BY <1>1, <1>2 DEF OkAnswerIsPaid, GuardedInv
<1> QED
  BY <1>3, <1>4, <1>5, <1>6 DEF GuardedInv

(* A guarded payment is taken for a key nobody has paid for.               *)
LEMMA GuardedPayment ==
  ASSUME PaymentGuarded, GuardedInv, NEW a \in Attempts, TakePayment(a)
  PROVE  /\ paid[KeyOf(a)] = <<>>
         /\ effects[KeyOf(a)]["payment"] = 0
<1>1. KeyOf(a) \in Keys /\ "payment" \in Stages
  BY DEF GuardedInv, TypeOK, KeyOf, Requests, Stages
<1>2. ~(effects[KeyOf(a)]["payment"] > 0)
  BY <1>1 DEF TakePayment, Done
<1> QED
  BY <1>1, <1>2 DEF GuardedInv, PaidOnce

(* A transaction commits: the order and the bill leave the status of the   *)
(* record and the money alone, the payment finishes the one and moves the  *)
(* other.                                                                  *)
LEMMA GuardedCommits ==
  ASSUME PaymentGuarded, OneBody, GuardedInv, TypeOK', NEW a \in Attempts,
         CreateOrder(a) \/ GenerateInvoice(a) \/ TakePayment(a)
  PROVE  GuardedInv'
<1>1. /\ KeyOf(a) \in Keys /\ req[a].payload \in Payloads
      /\ RecordOf(a) \in Records
  BY DEF GuardedInv, TypeOK, KeyOf, Requests, RecordOf
<1>2. \A b \in Attempts : KeyOf(b)' = KeyOf(b)
  BY DEF KeyOf, CreateOrder, GenerateInvoice, TakePayment, Commit
<1>3. /\ UNCHANGED <<ans, told, req>>
      /\ \A b \in Attempts \ {a} : pc'[b] = pc[b]
      /\ pc'[a] # "reply"
  BY DEF CreateOrder, GenerateInvoice, TakePayment, Commit, Goto, GuardedInv, TypeOK
<1>4. CASE CreateOrder(a) \/ GenerateInvoice(a)
  <2>1. PICK s \in Stages \ {"payment"} : Commit(a, s, RecordOf(a).status, RecordOf(a).code)
    BY <1>4 DEF CreateOrder, GenerateInvoice, GuardedInv, TypeOK, Positions, Stages
  <2>2. UNCHANGED paid /\ pc'[a] # "final"
    BY <1>4 DEF CreateOrder, GenerateInvoice, Goto, GuardedInv, TypeOK
  <2>3. PaidOnce'
    <3>1. effects' = [effects EXCEPT ![KeyOf(a)][s] = @ + 1]
      BY <2>1 DEF Commit
    <3>2. \A k \in Keys : effects'[k]["payment"] = effects[k]["payment"]
      BY <1>1, <2>1, <3>1 DEF GuardedInv, TypeOK, Stages
    <3> QED
      BY <2>2, <3>2 DEF PaidOnce, GuardedInv
  <2>4. SuccessIsPaid'
    <3>1. \A k \in Keys : /\ record'[k].status = record[k].status
                         /\ record'[k].code = record[k].code
      BY <1>1, <2>1 DEF Commit, Write, RecordOf, GuardedInv, TypeOK
    <3> QED
      BY <2>2, <3>1 DEF SuccessIsPaid, GuardedInv, Finished
  <2>5. FinishedIsPaid' /\ OkAnswerIsPaid'
    BY <1>2, <1>3, <2>2 DEF FinishedIsPaid, OkAnswerIsPaid, GuardedInv
  <2> QED
    BY <2>3, <2>4, <2>5 DEF GuardedInv
<1>5. CASE TakePayment(a)
  <2>1. /\ paid[KeyOf(a)] = <<>>
        /\ effects[KeyOf(a)]["payment"] = 0
    BY <1>5, GuardedPayment
  <2>2. Append(<<>>, req[a].payload) = <<req[a].payload>>
    BY <1>1
  <2>3. paid' = [paid EXCEPT ![KeyOf(a)] = <<req[a].payload>>]
    BY <1>1, <1>5, <2>1, <2>2 DEF TakePayment, GuardedInv, TypeOK
  <2>4. \A p \in Payloads : <<p>> # <<>>
    OBVIOUS
  <2>5. PaidOnce'
    <3>1. effects' = [effects EXCEPT ![KeyOf(a)]["payment"] = @ + 1] /\ "payment" \in Stages
      BY <1>5 DEF TakePayment, Commit, Stages
    <3>2. \A k \in Keys : effects'[k]["payment"] = IF k = KeyOf(a) THEN 1
                                                   ELSE effects[k]["payment"]
      BY <1>1, <2>1, <3>1 DEF GuardedInv, TypeOK
    <3> QED
      BY <1>1, <2>3, <3>2 DEF PaidOnce, GuardedInv, TypeOK
  <2>6. \A k \in Keys : paid[k] # <<>> => paid'[k] = paid[k]
    BY <2>1, <2>3 DEF GuardedInv, TypeOK
  <2>7. paid'[KeyOf(a)] # <<>>
    BY <1>1, <2>3, <2>4 DEF GuardedInv, TypeOK
  <2>8. SuccessIsPaid'
    <3>1. \A k \in Keys \ {KeyOf(a)} : record'[k] = record[k]
      BY <1>5 DEF TakePayment, Commit, GuardedInv, TypeOK
    <3> QED
      BY <2>6, <2>7, <3>1 DEF SuccessIsPaid, GuardedInv, Finished
  <2>9. FinishedIsPaid'
    <3>1. \A b \in Attempts : KeyOf(b) \in Keys
      BY DEF GuardedInv, TypeOK, KeyOf, Requests
    <3> QED
      BY <1>2, <1>3, <2>6, <2>7, <3>1 DEF FinishedIsPaid, GuardedInv
  <2>10. OkAnswerIsPaid'
    <3>1. \A b \in Attempts : KeyOf(b) \in Keys
      BY DEF GuardedInv, TypeOK, KeyOf, Requests
    <3>2. \A t \in told : t.key \in Keys
      BY DEF GuardedInv, TypeOK
    <3>3. ASSUME NEW b \in Attempts, pc'[b] = "reply", ans'[b] = "ok"
          PROVE  paid'[KeyOf(b)'] = <<req'[b].payload>>
      <4>1. /\ b # a /\ pc[b] = "reply" /\ ans[b] = "ok"
            /\ KeyOf(b)' = KeyOf(b) /\ req'[b] = req[b]
        BY <1>2, <1>3, <3>3
      <4>2. paid[KeyOf(b)] = <<req[b].payload>>
        BY <4>1 DEF GuardedInv, OkAnswerIsPaid
      <4>3. KeyOf(b) # KeyOf(a)
        BY <2>1, <2>4, <4>2 DEF GuardedInv, TypeOK, Requests
      <4> QED
        BY <2>3, <3>1, <4>1, <4>2, <4>3 DEF GuardedInv, TypeOK
    <3>4. ASSUME NEW t \in told', t.answer = "ok"
          PROVE  paid'[t.key] = <<t.payload>>
      <4>1. paid[t.key] = <<t.payload>> /\ t \in told
        BY <1>3, <3>4 DEF GuardedInv, OkAnswerIsPaid
      <4>2. t.key # KeyOf(a)
        BY <2>1, <2>4, <4>1 DEF GuardedInv, TypeOK
      <4> QED
        BY <2>3, <3>2, <4>1, <4>2 DEF GuardedInv, TypeOK
    <3> QED
      BY <3>3, <3>4 DEF OkAnswerIsPaid
  <2> QED
    BY <2>5, <2>8, <2>9, <2>10 DEF GuardedInv
<1> QED
  BY <1>4, <1>5

(* The success a record replays is backed by the only body there is.       *)
LEMMA ReplayIsPaid ==
  ASSUME OneBody, GuardedInv, NEW a \in Attempts,
         Finished(RecordOf(a)), Replayed(RecordOf(a)) = "ok"
  PROVE  paid[KeyOf(a)] = <<req[a].payload>>
<1>1. KeyOf(a) \in Keys /\ req[a].payload \in Payloads
  BY DEF GuardedInv, TypeOK, KeyOf, Requests
<1>2. RecordOf(a).code < 400
  BY DEF Replayed
<1>3. paid[KeyOf(a)] # <<>>
  BY <1>1, <1>2 DEF GuardedInv, SuccessIsPaid, RecordOf
<1> QED
  BY <1>1, <1>3 DEF GuardedInv, PaidOnce, OneBody

(* Every step keeps the invariant, a release under a runner included.      *)
LEMMA GuardedStep == PaymentGuarded /\ OneBody /\ GuardedInv /\ [Next]_vars => GuardedInv'
<1> SUFFICES ASSUME PaymentGuarded, OneBody, GuardedInv, [Next]_vars
             PROVE  GuardedInv'
  OBVIOUS
<1>1. TypeOK'
  BY TypeStep DEF GuardedInv
<1>2. ASSUME NEW a \in Attempts, NEW to \in Positions \ {"final", "reply"},
             NEW from, Move(a, from, to)
      PROVE  GuardedInv'
  BY <1>1, <1>2, GuardedMoves DEF Move
<1>3. ASSUME NEW a \in Attempts, NEW answer, Respond(a, answer),
             answer = "ok" => paid[KeyOf(a)] = <<req[a].payload>>
      PROVE  GuardedInv'
  BY <1>1, <1>3, GuardedMoves DEF Respond, Positions, GuardedInv, TypeOK
<1>4. ASSUME NEW a \in Attempts, NEW class, Throw(a, class),
             UNCHANGED <<record, effects, paid, req, ans, told>>
      PROVE  GuardedInv'
  BY <1>1, <1>4, GuardedMoves DEF Throw, Positions
<1>5. {"lookup", "insert", "handler", "release", "clash", "cache", "idle"} \cup Stages
        \subseteq Positions \ {"final", "reply"}
  BY DEF Positions, Stages
<1>6. ASSUME NEW a \in Attempts, Retry(a) PROVE GuardedInv'
  <2>1. PICK r \in Requests : Start(a, r)
    BY <1>6 DEF Retry
  <2>2. pc' = [pc EXCEPT ![a] = "lookup"] /\ pc[a] = "idle"
    BY <2>1 DEF Start, Goto
  <2>3. /\ UNCHANGED <<record, effects, paid, told>>
        /\ \A b \in Attempts \ {a} : pc'[b] = pc[b] /\ ans'[b] = ans[b] /\ req'[b] = req[b]
        /\ pc'[a] = "lookup"
    BY <2>1, <2>2 DEF Start, GuardedInv, TypeOK
  <2>4. PaidOnce' /\ SuccessIsPaid'
    BY <2>3 DEF PaidOnce, SuccessIsPaid, GuardedInv, Finished
  <2>5. FinishedIsPaid'
    BY <2>3 DEF FinishedIsPaid, GuardedInv, KeyOf
  <2>6. OkAnswerIsPaid'
    BY <2>3 DEF OkAnswerIsPaid, GuardedInv, KeyOf
  <2> QED
    BY <1>1, <2>4, <2>5, <2>6 DEF GuardedInv
<1>7. ASSUME NEW a \in Attempts, ServerStep(a) PROVE GuardedInv'
  <2>1. CASE \/ LookupMiss(a) \/ LookupRecover(a) \/ LookupAbandoned(a)
             \/ InsertLost(a) \/ CatchDefinitive(a)
    BY <1>2, <1>5, <2>1 DEF LookupMiss, LookupRecover, LookupAbandoned, InsertLost,
                            CatchDefinitive
  <2>2. CASE BeginHandler(a)
    <3>1. PICK to \in Stages : Move(a, "handler", to)
      <4>1. CASE Handler = "single"
        BY <2>2, <4>1 DEF BeginHandler, Stages
      <4>2. CASE Handler = "sale"
        BY <2>2, <4>2 DEF BeginHandler, Stages
      <4> QED
        BY <4>1, <4>2, IdempotencyAssumption
    <3> QED
      BY <1>2, <1>5, <3>1
  <2>3. CASE ReuseInvoice(a)
    <3>1. "payment" \in Stages
      BY DEF Stages
    <3> QED
      BY <1>2, <1>5, <2>3, <3>1 DEF ReuseInvoice
  <2>4. CASE \/ LookupMismatch(a) \/ LookupReplay(a) \/ LookupBusy(a)
             \/ ReadWinner(a) \/ CatchReplay(a) \/ CatchRetain(a)
    <3>1. PICK answer : /\ Respond(a, answer)
                        /\ answer = "ok" => /\ Finished(RecordOf(a))
                                            /\ Replayed(RecordOf(a)) = "ok"
      BY <2>4 DEF LookupMismatch, LookupReplay, LookupBusy, ReadWinner, CatchReplay,
                  CatchRetain
    <3> QED
      BY <1>3, <3>1, ReplayIsPaid
  <2>5. CASE Release(a)
    <3>1. CASE RecordOf(a).status = "pending" /\ RecordOf(a).body = {}
      BY <1>1, <1>5, <2>5, <3>1, GuardedWrites DEF Release, Finished, NoRecord
    <3>2. CASE ~(RecordOf(a).status = "pending" /\ RecordOf(a).body = {})
      BY <1>1, <1>5, <2>5, <3>2, GuardedMoves DEF Release
    <3> QED
      BY <3>1, <3>2
  <2>6. CASE InsertWon(a)
    BY <1>1, <1>5, <2>6, GuardedWrites DEF InsertWon, Finished, Pending
  <2>7. CASE CreateOrder(a) \/ GenerateInvoice(a) \/ TakePayment(a)
    BY <1>1, <2>7, GuardedCommits
  <2>8. CASE RefuseCommit(a)
    BY <1>4, <2>8 DEF RefuseCommit
  <2>9. CASE FinalWrite(a)
    <3>1. CASE Exists(RecordOf(a))
      <4>1. KeyOf(a) \in Keys /\ req[a].payload \in Payloads
        BY DEF GuardedInv, TypeOK, KeyOf, Requests
      <4>2. paid[KeyOf(a)] # <<>>
        BY <2>9 DEF FinalWrite, GuardedInv, FinishedIsPaid
      <4>3. paid[KeyOf(a)] = <<req[a].payload>>
        BY <4>1, <4>2 DEF GuardedInv, PaidOnce, OneBody
      <4>4. /\ record' = [record EXCEPT ![KeyOf(a)] =
                            Write(RecordOf(a), "completed", 200, Stages)]
            /\ "reply" \in Positions
        BY <2>9, <3>1 DEF FinalWrite, RecordOf, Positions
      <4>5. \A b \in Attempts \ {a} : ans'[b] = ans[b]
        BY <2>9, <3>1 DEF FinalWrite, GuardedInv, TypeOK
      <4> QED
        BY <1>1, <2>9, <3>1, <4>2, <4>3, <4>4, <4>5, GuardedWrites DEF FinalWrite
    <3>2. CASE ~Exists(RecordOf(a))
      BY <1>4, <2>9, <3>2 DEF FinalWrite
    <3> QED
      BY <3>1, <3>2
  <2>10. CASE CacheRejection(a)
    <3>1. /\ "reply" \in Positions
          /\ \A b \in Attempts \ {a} : ans'[b] = ans[b]
          /\ ans'[a] # "ok"
      BY <2>10 DEF CacheRejection, GuardedInv, TypeOK, Positions
    <3>2. CASE Exists(RecordOf(a))
      <4> DEFINE r == Write(RecordOf(a), "completed", 400, {"rejected"})
      <4>1. /\ record' = [record EXCEPT ![KeyOf(a)] = r]
            /\ Goto(a, "reply")
            /\ UNCHANGED <<effects, paid, req, told>>
        BY <2>10, <3>2 DEF CacheRejection, RecordOf
      <4>2. ~(r.code < 400)
        BY DEF Write
      <4> HIDE DEF r
      <4> QED
        BY <1>1, <3>1, <4>1, <4>2, GuardedWrites
    <3>3. CASE ~Exists(RecordOf(a))
      BY <1>1, <2>10, <3>1, <3>3, GuardedMoves DEF CacheRejection
    <3> QED
      BY <3>2, <3>3
  <2> QED
    BY <1>7, <2>1, <2>2, <2>3, <2>4, <2>5, <2>6, <2>7, <2>8, <2>9, <2>10 DEF ServerStep
<1>8. ASSUME NEW a \in Attempts, Reply(a) PROVE GuardedInv'
  <2>1. /\ UNCHANGED <<record, effects, paid, req, ans>>
        /\ \A b \in Attempts : pc'[b] # "idle" => pc'[b] = pc[b]
        /\ pc[a] = "reply"
        /\ told' = told \cup {[key |-> KeyOf(a), payload |-> req[a].payload,
                               answer |-> ans[a]]}
    BY <1>8 DEF Reply, Goto, GuardedInv, TypeOK
  <2>2. \A b \in Attempts : KeyOf(b)' = KeyOf(b)
    BY <2>1 DEF KeyOf
  <2>3. PaidOnce' /\ SuccessIsPaid' /\ FinishedIsPaid'
    BY <2>1, <2>2 DEF PaidOnce, SuccessIsPaid, FinishedIsPaid, GuardedInv, Finished
  <2>4. OkAnswerIsPaid'
    BY <2>1, <2>2 DEF OkAnswerIsPaid, GuardedInv
  <2> QED
    BY <1>1, <2>3, <2>4 DEF GuardedInv
<1>9. ASSUME NEW a \in Attempts, Fault(a) PROVE GuardedInv'
  BY <1>1, <1>4, <1>5, <1>9, GuardedMoves DEF Fault, InsertFails, Reject, Fail, Crash
<1>10. ASSUME NEW k \in Keys, Age(k) PROVE GuardedInv'
  <2>1. /\ UNCHANGED <<effects, paid, pc, req, ans, told>>
        /\ \A j \in Keys : /\ record'[j].status = record[j].status
                           /\ record'[j].code = record[j].code
    BY <1>10 DEF Age, GuardedInv, TypeOK, Records
  <2>2. \A b \in Attempts : KeyOf(b)' = KeyOf(b)
    BY <2>1 DEF KeyOf
  <2> QED
    BY <1>1, <2>1, <2>2 DEF GuardedInv, PaidOnce, SuccessIsPaid, FinishedIsPaid,
                            OkAnswerIsPaid, Finished
<1>11. CASE UNCHANGED vars
  <2>1. \A b \in Attempts : KeyOf(b)' = KeyOf(b)
    BY <1>11 DEF vars, KeyOf
  <2> QED
    BY <1>1, <1>11, <2>1 DEF vars, GuardedInv, PaidOnce, SuccessIsPaid, FinishedIsPaid,
                             OkAnswerIsPaid, Finished
<1> QED
  BY <1>6, <1>7, <1>8, <1>9, <1>10, <1>11 DEF Next

LEMMA InitGuarded == Init => GuardedInv
<1> SUFFICES ASSUME Init PROVE GuardedInv
  OBVIOUS
<1>1. TypeOK
  BY InitType
<1>2. \A k \in Keys : record[k] = NoRecord /\ paid[k] = <<>> /\ effects[k]["payment"] = 0
  BY DEF Init, Stages
<1>3. PaidOnce /\ SuccessIsPaid
  BY <1>2 DEF PaidOnce, SuccessIsPaid, Finished, NoRecord
<1>4. FinishedIsPaid /\ OkAnswerIsPaid
  BY DEF Init, FinishedIsPaid, OkAnswerIsPaid
<1> QED
  BY <1>1, <1>3, <1>4 DEF GuardedInv

(* A payment with a guard of its own keeps the promise of a key on every   *)
(* route, even where the record is released under the attempt that holds   *)
(* it, as long as the key carries one body.                                *)
THEOREM GuardedKeepsThePromise ==
  PaymentGuarded /\ OneBody => (Spec => ImplementsOncePerKey)
<1> SUFFICES ASSUME PaymentGuarded, OneBody PROVE Spec => Once!Spec
  BY DEF ImplementsOncePerKey
<1>1. Init => Once!Init
  BY DEF Init, Once!Init
<1>2. Init => GuardedInv
  BY InitGuarded
<1>3. GuardedInv /\ [Next]_vars => GuardedInv'
  BY GuardedStep
<1>4. GuardedInv /\ [Next]_vars => [Once!Next]_(Once!vars)
  <2> SUFFICES ASSUME GuardedInv, [Next]_vars PROVE [Once!Next]_(Once!vars)
    OBVIOUS
  <2>1. \A a \in Attempts : TakePayment(a) => paid[KeyOf(a)] = <<>>
    BY GuardedPayment
  <2> QED
    BY <2>1, StepMaps DEF GuardedInv, OkAnswerIsPaid
<1> QED
  BY <1>1, <1>2, <1>3, <1>4, PTL DEF Spec, Once!Spec

----------------------------------------------------------------------------
(* The browser.                                                            *)

SlotHoldsOne == slot = {} \/ \E k \in Keys : slot = {k}

BrowserTypes ==
  /\ TypeOK
  /\ slot \subseteq used /\ SlotHoldsOne
  /\ used \subseteq Keys
  /\ waiting \subseteq {a \in Attempts : pc[a] # "idle"}

(* What the server does with the requests it has received and what befalls *)
(* them, as the browser's steps contain it.                                *)
ServerSide ==
  \/ \E a \in Attempts : ServerStep(a) \/ InsertFails(a) \/ Reject(a) \/ Fail(a)
  \/ \E k \in Keys : Age(k)

LEMMA ServerSideStep ==
  ASSUME TypeOK, ServerSide
  PROVE  /\ TypeOK'
         /\ \A a \in Attempts : pc[a] # "idle" => pc'[a] # "idle"
         /\ UNCHANGED told
<1>1. [Next]_vars
  BY DEF ServerSide, Next, Fault
<1>2. TypeOK'
  BY <1>1, TypeStep
<1>3. ASSUME NEW a \in Attempts, NEW to, to # "idle", Goto(a, to)
      PROVE  \A b \in Attempts : pc[b] # "idle" => pc'[b] # "idle"
  BY <1>3 DEF Goto, TypeOK
<1>4. ASSUME NEW a \in Attempts, ServerStep(a)
      PROVE  UNCHANGED told /\ \E to : to # "idle" /\ Goto(a, to)
  <2>1. CASE BeginHandler(a)
    BY <2>1, IdempotencyAssumption DEF BeginHandler, Move
  <2>2. CASE ~BeginHandler(a)
    BY <1>4, <2>2 DEF ServerStep, LookupMiss, LookupMismatch, LookupReplay, LookupRecover,
       LookupAbandoned, LookupBusy, Release, InsertWon, InsertLost, ReadWinner,
       CreateOrder, GenerateInvoice, ReuseInvoice, TakePayment, RefuseCommit, FinalWrite,
       CatchReplay, CatchDefinitive, CatchRetain, CacheRejection, Move, Respond, Throw,
       Commit
  <2> QED
    BY <2>1, <2>2
<1>5. ASSUME NEW a \in Attempts, InsertFails(a) \/ Reject(a) \/ Fail(a)
      PROVE  UNCHANGED told /\ \E to : to # "idle" /\ Goto(a, to)
  BY <1>5 DEF InsertFails, Reject, Fail, Throw
<1>6. ASSUME NEW k \in Keys, Age(k)
      PROVE  UNCHANGED <<pc, told>>
  BY <1>6 DEF Age
<1> QED
  BY <1>2, <1>3, <1>4, <1>5, <1>6 DEF ServerSide

(* A step is one of the browser's own, or leaves the browser alone.        *)
LEMMA BrowserSteps ==
  ASSUME [ClientNext]_allVars
  PROVE  \/ \E a \in Attempts : \/ Submit(a) \/ Receive(a) \/ TimeOut(a) \/ Discard(a)
                                \/ ClientCrash(a)
         \/ ServerSide /\ UNCHANGED clientVars
         \/ UNCHANGED allVars
  BY DEF ClientNext, ServerSide

(* Noting that a refusal came too early changes nothing else.              *)
LEMMA NotedStep ==
  ASSUME hasty \in BOOLEAN, [ClientNext /\ Noted]_<<allVars, hasty>>
  PROVE  /\ hasty' \in BOOLEAN
         /\ [ClientNext]_allVars
         /\ ~hasty' => ~hasty /\ [ClientNext /\ RefusedLast]_allVars
<1>1. CASE ClientNext /\ Noted
  <2>1. hasty' = (hasty \/ ~RefusedLast)
    BY <1>1 DEF Noted
  <2>2. hasty' \in BOOLEAN
    BY <2>1, Zenon
  <2>3. ~hasty' => ~hasty /\ RefusedLast
    BY <2>1, Zenon
  <2> QED  BY <1>1, <2>2, <2>3
<1>2. CASE UNCHANGED <<allVars, hasty>>
  BY <1>2
<1> QED  BY <1>1, <1>2

LEMMA SubmitPicks ==
  ASSUME NEW a \in Attempts, Submit(a)
  PROVE  /\ \E r \in Requests : /\ Start(a, r)
                                /\ IF slot = {} THEN r.key \notin used ELSE r.key \in slot
                                /\ slot' = {r.key} /\ used' = used \cup {r.key}
         /\ waiting' = waiting \cup {a}
         /\ ~Succeeded
         /\ Serial => waiting = {}
  BY DEF Submit, Requests

LEMMA BrowserTypeStep ==
  ASSUME BrowserTypes, [ClientNext]_allVars
  PROVE  BrowserTypes'
<1> USE DEF BrowserTypes, SlotHoldsOne
<1>1. ASSUME NEW a \in Attempts, Submit(a)
      PROVE  BrowserTypes'
  <2>1. PICK r \in Requests : Start(a, r) /\ slot' = {r.key} /\ used' = used \cup {r.key}
    BY <1>1, SubmitPicks
  <2>2. TypeOK' /\ r.key \in Keys
    BY <2>1, StartType DEF Requests
  <2>3. \A b \in Attempts : b = a \/ pc[b] # "idle" => pc'[b] # "idle"
    BY <2>1 DEF Start, Goto, TypeOK
  <2>4. waiting' = waiting \cup {a}
    BY <1>1, SubmitPicks
  <2> QED
    BY <2>1, <2>2, <2>3, <2>4
<1>2. ASSUME NEW a \in Attempts, Receive(a)
      PROVE  BrowserTypes'
  <2>1. TypeOK'
    BY <1>2, TypeStep DEF Receive, Next
  <2>2. \A b \in Attempts \ {a} : pc'[b] = pc[b]
    BY <1>2 DEF Receive, Reply, Goto, TypeOK
  <2> QED
    BY <1>2, <2>1, <2>2 DEF Receive
<1>3. ASSUME NEW a \in Attempts, TimeOut(a)
      PROVE  BrowserTypes'
  <2>1. TypeOK'
    BY <1>3 DEF TimeOut, GiveUp, Spend, TypeOK
  <2> QED
    BY <1>3, <2>1 DEF TimeOut, GiveUp
<1>4. ASSUME NEW a \in Attempts, Discard(a)
      PROVE  BrowserTypes'
  <2>1. TypeOK'
    BY <1>4 DEF Discard, Move, Goto, TypeOK, Positions
  <2>2. \A b \in Attempts \ {a} : pc'[b] = pc[b]
    BY <1>4 DEF Discard, Move, Goto, TypeOK
  <2> QED
    BY <1>4, <2>1, <2>2 DEF Discard, clientVars
<1>5. ASSUME NEW a \in Attempts, ClientCrash(a)
      PROVE  BrowserTypes'
  <2>1. TypeOK'
    BY <1>5, TypeStep DEF ClientCrash, Next, Fault
  <2>2. \A b \in Attempts \ {a} : pc'[b] = pc[b]
    BY <1>5 DEF ClientCrash, Crash, Goto, TypeOK
  <2> QED
    BY <1>5, <2>1, <2>2 DEF ClientCrash
<1>6. ASSUME ServerSide, UNCHANGED clientVars
      PROVE  BrowserTypes'
  BY <1>6, ServerSideStep DEF clientVars
<1>7. CASE UNCHANGED allVars
  <2>1. TypeOK'
    BY <1>7, TypeStep DEF allVars
  <2> QED
    BY <1>7, <2>1 DEF allVars, vars, clientVars
<1> QED
  BY <1>1, <1>2, <1>3, <1>4, <1>5, <1>6, <1>7, BrowserSteps

(* The browser's state is well-typed: at most one key in the store, only   *)
(* keys that were submitted, and it waits only for requests under way.     *)
THEOREM ClientTypeCorrect == ClientSpec => []ClientTypeOK
<1>1. ClientInit => BrowserTypes
  BY InitType DEF ClientInit, BrowserTypes, SlotHoldsOne
<1> DEFINE TInv == BrowserTypes /\ hasty \in BOOLEAN
<1>0. ClientInit => TInv
  BY <1>1 DEF ClientInit
<1>2. TInv /\ [ClientNext /\ Noted]_<<allVars, hasty>> => TInv'
  BY NotedStep, BrowserTypeStep
<1>3. ASSUME TInv PROVE ClientTypeOK
  <2>1. Cardinality(slot) <= 1
    <3>1. Cardinality({}) = 0 /\ \A k \in Keys : Cardinality({k}) = 1
      BY FS_EmptySet, FS_Singleton
    <3> QED
      BY <1>3, <3>1 DEF BrowserTypes, SlotHoldsOne
  <2> QED
    BY <1>3, <2>1 DEF BrowserTypes, ClientTypeOK
<1> HIDE DEF TInv
<1> QED
  BY <1>0, <1>2, <1>3, PTL DEF ClientSpec

----------------------------------------------------------------------------
(* A form that is disabled while its request is outstanding.               *)

OneAtATime ==
  /\ \A a, b \in waiting : a = b
  /\ \A a \in waiting : slot = {KeyOf(a)}

SerialInv == BrowserTypes /\ OneAtATime /\ KeyStaysUntilAnswered

(* Nobody changes the request of an attempt that is under way.             *)
LEMMA RequestsStay ==
  ASSUME TypeOK, ServerSide
  PROVE  UNCHANGED req
<1>1. ASSUME NEW a \in Attempts, ServerStep(a) PROVE UNCHANGED req
  BY <1>1 DEF ServerStep, LookupMiss, LookupMismatch, LookupReplay, LookupRecover,
     LookupAbandoned, LookupBusy, Release, InsertWon, InsertLost, ReadWinner,
     BeginHandler, CreateOrder, GenerateInvoice, ReuseInvoice, TakePayment, RefuseCommit,
     FinalWrite, CatchReplay, CatchDefinitive, CatchRetain, CacheRejection, Move, Respond,
     Commit
<1> QED
  BY <1>1 DEF ServerSide, InsertFails, Reject, Fail, Age

LEMMA OneAtATimeStep ==
  ASSUME Serial, BrowserTypes, OneAtATime, [ClientNext]_allVars
  PROVE  OneAtATime'
<1> USE DEF OneAtATime, KeyOf
<1>1. ASSUME NEW a \in Attempts, Submit(a) PROVE OneAtATime'
  <2>1. PICK r \in Requests : Start(a, r) /\ slot' = {r.key}
    BY <1>1, SubmitPicks
  <2>2. req'[a] = r
    BY <2>1 DEF Start, BrowserTypes, TypeOK
  <2>3. waiting' = {a}
    BY <1>1, SubmitPicks
  <2> QED
    BY <2>1, <2>2, <2>3
<1>2. ASSUME NEW a \in Attempts, Receive(a) PROVE OneAtATime'
  BY <1>2 DEF Receive
<1>3. ASSUME NEW a \in Attempts, TimeOut(a) \/ Discard(a) \/ ClientCrash(a)
      PROVE  OneAtATime'
  BY <1>3 DEF TimeOut, GiveUp, Discard, ClientCrash, Move, Crash, clientVars
<1>4. ASSUME ServerSide, UNCHANGED clientVars PROVE OneAtATime'
  BY <1>4, RequestsStay DEF clientVars, BrowserTypes
<1>5. CASE UNCHANGED allVars
  BY <1>5 DEF allVars, vars, clientVars
<1> QED
  BY <1>1, <1>2, <1>3, <1>4, <1>5, BrowserSteps

LEMMA KeyStaysStep ==
  ASSUME Serial, SerialInv, [ClientNext]_allVars
  PROVE  KeyStaysUntilAnswered'
<1> USE DEF SerialInv
<1>1. ASSUME NEW a \in Attempts, Submit(a) PROVE KeyStaysUntilAnswered'
  <2>1. PICK r \in Requests : /\ Start(a, r)
                              /\ IF slot = {} THEN r.key \notin used ELSE r.key \in slot
                              /\ slot' = {r.key} /\ used' = used \cup {r.key}
    BY <1>1, SubmitPicks
  <2>2. used' \ slot' \subseteq used \ slot
    BY <2>1 DEF BrowserTypes, SlotHoldsOne
  <2>3. UNCHANGED told
    BY <2>1 DEF Start
  <2> QED
    BY <2>2, <2>3 DEF KeyStaysUntilAnswered
<1>2. ASSUME NEW a \in Attempts, Receive(a) PROVE KeyStaysUntilAnswered'
  <2>1. /\ slot = {KeyOf(a)} /\ UNCHANGED used
        /\ slot' = IF Definitive(ans[a]) THEN {} ELSE slot
        /\ told' = told \cup {[key |-> KeyOf(a), payload |-> req[a].payload,
                               answer |-> ans[a]]}
    BY <1>2 DEF Receive, Reply, OneAtATime
  <2>2. CASE Definitive(ans[a])
    <3> SUFFICES ASSUME NEW k \in used
                 PROVE  \E t \in told' : t.key = k /\ Definitive(t.answer)
      BY <2>1, <2>2 DEF KeyStaysUntilAnswered
    <3>1. CASE k = KeyOf(a)
      <4> DEFINE t == [key |-> KeyOf(a), payload |-> req[a].payload, answer |-> ans[a]]
      <4>1. t \in told' /\ t.key = k /\ Definitive(t.answer)
        BY <2>1, <2>2, <3>1
      <4> QED
        BY <4>1
    <3>2. CASE k # KeyOf(a)
      BY <2>1, <3>2 DEF KeyStaysUntilAnswered
    <3> QED
      BY <3>1, <3>2
  <2>3. CASE ~Definitive(ans[a])
    BY <2>1, <2>3 DEF KeyStaysUntilAnswered
  <2> QED
    BY <2>2, <2>3
<1>3. ASSUME UNCHANGED <<slot, used, told>> PROVE KeyStaysUntilAnswered'
  BY <1>3 DEF KeyStaysUntilAnswered
<1>4. ASSUME NEW a \in Attempts, TimeOut(a) \/ Discard(a) \/ ClientCrash(a)
      PROVE  UNCHANGED <<slot, used, told>>
  BY <1>4 DEF TimeOut, GiveUp, Discard, ClientCrash, Move, Crash, clientVars
<1>5. ASSUME ServerSide, UNCHANGED clientVars PROVE UNCHANGED <<slot, used, told>>
  BY <1>5, ServerSideStep DEF clientVars, BrowserTypes
<1>6. CASE UNCHANGED allVars
  BY <1>3, <1>6 DEF allVars, vars, clientVars
<1> QED
  BY <1>1, <1>2, <1>3, <1>4, <1>5, <1>6, BrowserSteps

(* On every route, a form that is disabled while its request is out gives  *)
(* up a key only after the server has answered it definitively, however    *)
(* many requests time out, die or are answered late.                       *)
THEOREM KeyStays == Serial => (ClientSpec => []KeyStaysUntilAnswered)
<1> SUFFICES ASSUME Serial PROVE ClientSpec => []KeyStaysUntilAnswered
  OBVIOUS
<1> DEFINE SInv == SerialInv /\ hasty \in BOOLEAN
<1>1. ClientInit => SInv
  BY InitType DEF ClientInit, SerialInv, BrowserTypes, SlotHoldsOne, OneAtATime,
                  KeyStaysUntilAnswered
<1>2. SInv /\ [ClientNext /\ Noted]_<<allVars, hasty>> => SInv'
  BY NotedStep, BrowserTypeStep, OneAtATimeStep, KeyStaysStep DEF SerialInv
<1>3. SInv => KeyStaysUntilAnswered
  BY DEF SerialInv
<1> HIDE DEF SInv
<1> QED
  BY <1>1, <1>2, <1>3, PTL DEF ClientSpec

----------------------------------------------------------------------------
(* The money of an action.  Requests of one key may be anywhere at once:   *)
(* the browser gives up on one wherever it is, sales recover each other's  *)
(* pending records, and old records are released under their runner.  What *)
(* a key that was given up must not have is a request that could still pay *)
(* and only a refusal can leave one behind.                                *)

NobodyOn(k, places) == \A a \in Attempts : KeyOf(a) = k => pc[a] \notin places

(* No money has moved under the key, and nobody is left who could move it: *)
(* a finished record stops those who have yet to reach the handler.        *)
Dead(k) ==
  /\ paid[k] = <<>> /\ NobodyOn(k, Unpaid)
  /\ Finished(record[k]) \/ NobodyOn(k, Ahead)

UsedKeys ==
  /\ \A a \in Attempts : pc[a] # "idle" => KeyOf(a) \in used
  /\ \A k \in Keys : paid[k] # <<>> => k \in used

BodyRecorded == \A k \in Keys : Exists(record[k]) => \E p \in Payloads : record[k].hash = {p}

RejectionEnds ==
  \A k \in Keys : Finished(record[k]) /\ record[k].code >= 400 =>
                    paid[k] = <<>> /\ NobodyOn(k, Unpaid)

PaidIsStored ==
  \A k \in Keys : paid[k] # <<>> => Finished(record[k]) /\ record[k].code < 400

(* A definitive answer on its way to the browser is a success, or the      *)
(* key's end.                                                              *)
LastWord ==
  \A a \in waiting : pc[a] = "reply" /\ Definitive(ans[a]) =>
                       ans[a] = "ok" \/ Dead(KeyOf(a))

OneLiveKey == \A k, l \in used : k = l \/ Dead(k) \/ Dead(l)

LeftBehind == \A k \in used \ slot : Dead(k) \/ Succeeded

SuccessEnds == Succeeded => slot = {}

KeyMoney ==
  /\ UsedKeys /\ BodyRecorded /\ RejectionEnds /\ PaidIsStored
  /\ LastWord /\ OneLiveKey /\ LeftBehind /\ SuccessEnds

MoneyInv == BrowserTypes /\ OneAtATime /\ KeyMoney

(* A form that waits, and one body under every key.                        *)
CarefulForm == Serial /\ OneBody

(* An attempt goes on, and of the records and the money touches only those *)
(* of its own key.                                                         *)
LEMMA AttemptOnOwnKey ==
  ASSUME MoneyInv, NEW a \in Attempts, NEW to, Goto(a, to), pc[a] # "idle", to # "idle",
         UNCHANGED <<req, told, clientVars>>,
         \A b \in Attempts \ {a} : ans'[b] = ans[b],
         \A k \in Keys \ {KeyOf(a)} : record'[k] = record[k] /\ paid'[k] = paid[k],
         to \in Ahead => pc[a] \in Ahead,
         to \in Unpaid => pc[a] \in Unpaid \/ ~Finished(RecordOf(a)),
         paid' = paid \/ pc[a] \in Unpaid,
         Finished(RecordOf(a)) => Finished(record'[KeyOf(a)]),
         Exists(record'[KeyOf(a)]) => \E p \in Payloads : record'[KeyOf(a)].hash = {p},
         Finished(record'[KeyOf(a)]) /\ record'[KeyOf(a)].code >= 400 =>
           /\ paid'[KeyOf(a)] = <<>> /\ to \notin Unpaid
           /\ \A b \in Attempts \ {a} : KeyOf(b) = KeyOf(a) => pc[b] \notin Unpaid,
         paid'[KeyOf(a)] # <<>> =>
           Finished(record'[KeyOf(a)]) /\ record'[KeyOf(a)].code < 400,
         to = "reply" /\ Definitive(ans'[a]) =>
           \/ ans'[a] = "ok"
           \/ /\ paid'[KeyOf(a)] = <<>>
              /\ \A b \in Attempts \ {a} : KeyOf(b) = KeyOf(a) => pc[b] \notin Unpaid
              /\ \/ Finished(record'[KeyOf(a)])
                 \/ \A b \in Attempts \ {a} : KeyOf(b) = KeyOf(a) => pc[b] \notin Ahead
  PROVE  KeyMoney'
<1>1. /\ pc'[a] = to
      /\ \A b \in Attempts \ {a} : pc'[b] = pc[b]
  BY DEF Goto, MoneyInv, BrowserTypes, TypeOK
<1>2. /\ \A b \in Attempts : /\ KeyOf(b)' = KeyOf(b) /\ KeyOf(b) \in Keys
                             /\ RecordOf(b) = record[KeyOf(b)]
      /\ UNCHANGED <<slot, used, waiting>>
  BY DEF KeyOf, RecordOf, clientVars, MoneyInv, BrowserTypes, TypeOK, Requests
<1>3. UsedKeys'
  <2>1. KeyOf(a) \in used
    BY DEF UsedKeys, MoneyInv, KeyMoney
  <2>2. \A k \in Keys : paid'[k] # <<>> => k \in used
    BY <2>1 DEF UsedKeys, MoneyInv, KeyMoney
  <2> QED
    BY <1>1, <1>2, <2>1, <2>2 DEF UsedKeys, MoneyInv, KeyMoney
<1>4. BodyRecorded'
  BY <1>2 DEF BodyRecorded, Exists, MoneyInv, KeyMoney
<1>5. RejectionEnds'
  <2> SUFFICES ASSUME NEW k \in Keys, Finished(record'[k]), record'[k].code >= 400
               PROVE  paid'[k] = <<>> /\ NobodyOn(k, Unpaid)'
    BY DEF RejectionEnds, Finished
  <2>1. CASE k = KeyOf(a)
    BY <1>1, <1>2, <2>1 DEF NobodyOn
  <2>2. CASE k # KeyOf(a)
    <3>1. paid[k] = <<>> /\ NobodyOn(k, Unpaid)
      BY <2>2 DEF RejectionEnds, MoneyInv, KeyMoney
    <3> QED
      BY <1>1, <1>2, <2>2, <3>1 DEF NobodyOn
  <2> QED
    BY <2>1, <2>2
<1>6. PaidIsStored'
  BY <1>2 DEF PaidIsStored, Finished, MoneyInv, KeyMoney
<1>7. ASSUME NEW k \in Keys, Dead(k) PROVE Dead(k)'
  <2>1. k = KeyOf(a) => /\ to \notin Unpaid /\ paid' = paid
                        /\ Finished(record'[k]) \/ to \notin Ahead
    <3> SUFFICES ASSUME k = KeyOf(a)
                 PROVE  /\ to \notin Unpaid /\ paid' = paid
                        /\ Finished(record'[k]) \/ to \notin Ahead
      OBVIOUS
    <3>1. pc[a] \notin Unpaid /\ (Finished(record[k]) \/ pc[a] \notin Ahead)
      BY <1>7 DEF Dead, NobodyOn
    <3>2. Unpaid \subseteq Ahead
      BY DEF Ahead
    <3>3. Finished(record[k]) => Finished(record'[k]) /\ to \notin Unpaid
      BY <1>2, <3>1
    <3> QED
      BY <3>1, <3>2, <3>3
  <2>2. paid'[k] = <<>>
    BY <1>7, <2>1 DEF Dead
  <2>3. NobodyOn(k, Unpaid)'
    BY <1>1, <1>2, <1>7, <2>1 DEF Dead, NobodyOn
  <2>4. CASE Finished(record[k])
    <3>1. Finished(record'[k])
      BY <1>2, <2>4
    <3> QED
      BY <2>2, <2>3, <3>1 DEF Dead, Finished
  <2>5. CASE ~Finished(record[k]) /\ k = KeyOf(a)
    <3>1. Finished(record'[k]) \/ NobodyOn(k, Ahead)'
      BY <1>1, <1>2, <1>7, <2>1, <2>5 DEF Dead, NobodyOn
    <3> QED
      BY <2>2, <2>3, <3>1 DEF Dead, Finished
  <2>6. CASE ~Finished(record[k]) /\ k # KeyOf(a)
    <3>1. NobodyOn(k, Ahead)'
      BY <1>1, <1>2, <1>7, <2>6 DEF Dead, NobodyOn
    <3> QED
      BY <2>2, <2>3, <3>1 DEF Dead
  <2> QED
    BY <2>4, <2>5, <2>6
<1>8. LastWord'
  <2> SUFFICES ASSUME NEW b \in waiting', pc'[b] = "reply", Definitive(ans'[b]),
                      ans'[b] # "ok"
               PROVE  Dead(KeyOf(b))'
    BY DEF LastWord, Definitive
  <2>1. b \in Attempts /\ b \in waiting
    BY <1>2 DEF MoneyInv, BrowserTypes
  <2>2. PICK k \in Keys : k = KeyOf(b) /\ k = KeyOf(b)'
    BY <1>2, <2>1
  <2>3. CASE b = a
    <3>1. "reply" \notin Ahead /\ "reply" \notin Unpaid
      BY DEF Ahead, Unpaid
    <3>2. paid'[k] = <<>> /\ NobodyOn(k, Unpaid)'
      BY <1>1, <1>2, <2>2, <2>3, <3>1 DEF NobodyOn
    <3>3. Finished(record'[k]) \/ NobodyOn(k, Ahead)'
      BY <1>1, <1>2, <2>2, <2>3, <3>1 DEF NobodyOn
    <3>4. Dead(k)'
      BY <3>2, <3>3 DEF Dead, Finished
    <3> QED
      BY <2>2, <3>4 DEF Dead, NobodyOn, Finished
  <2>4. CASE b # a
    <3>1. Dead(KeyOf(b))
      BY <1>1, <2>1, <2>4 DEF LastWord, MoneyInv, KeyMoney
    <3>2. Dead(k)'
      BY <1>7, <2>2, <3>1
    <3> QED
      BY <2>2, <3>2 DEF Dead, NobodyOn, Finished
  <2> QED
    BY <2>3, <2>4
<1>9. OneLiveKey' /\ LeftBehind' /\ SuccessEnds'
  <2>1. used \subseteq Keys /\ Succeeded' = Succeeded
    BY DEF Succeeded, MoneyInv, BrowserTypes
  <2>2. OneLiveKey'
    BY <1>2, <1>7, <2>1 DEF OneLiveKey, MoneyInv, KeyMoney
  <2>3. LeftBehind'
    BY <1>2, <1>7, <2>1 DEF LeftBehind, MoneyInv, KeyMoney
  <2>4. SuccessEnds'
    BY <1>2, <2>1 DEF SuccessEnds, MoneyInv, KeyMoney
  <2> QED
    BY <2>2, <2>3, <2>4
<1> QED
  BY <1>3, <1>4, <1>5, <1>6, <1>8, <1>9 DEF KeyMoney

(* What every attempt on its way knows about its key.                      *)
LEMMA MoneyFacts ==
  ASSUME CarefulForm, MoneyInv, NEW a \in Attempts
  PROVE  /\ KeyOf(a) \in Keys /\ RecordOf(a) = record[KeyOf(a)] /\ RecordOf(a) \in Records
         /\ req[a].payload \in Payloads
         /\ Exists(RecordOf(a)) => /\ SameRequest(a)
                                   /\ \E p \in Payloads : RecordOf(a).hash = {p}
         /\ paid[KeyOf(a)] # <<>> => Finished(RecordOf(a)) /\ RecordOf(a).code < 400
         /\ Finished(RecordOf(a)) /\ RecordOf(a).code >= 400 =>
              /\ paid[KeyOf(a)] = <<>>
              /\ \A b \in Attempts : KeyOf(b) = KeyOf(a) => pc[b] \notin Unpaid
         /\ Finished(RecordOf(a)) => Exists(RecordOf(a))
<1>1. /\ KeyOf(a) \in Keys /\ RecordOf(a) = record[KeyOf(a)] /\ RecordOf(a) \in Records
      /\ req[a].payload \in Payloads
  BY DEF KeyOf, RecordOf, MoneyInv, BrowserTypes, TypeOK, Requests
<1>2. Exists(RecordOf(a)) => \E p \in Payloads : RecordOf(a).hash = {p}
  BY <1>1 DEF BodyRecorded, MoneyInv, KeyMoney
<1>3. Exists(RecordOf(a)) => SameRequest(a)
  BY <1>1, <1>2 DEF SameRequest, CarefulForm, OneBody
<1>4. paid[KeyOf(a)] # <<>> => Finished(RecordOf(a)) /\ RecordOf(a).code < 400
  BY <1>1 DEF PaidIsStored, MoneyInv, KeyMoney
<1>5. Finished(RecordOf(a)) /\ RecordOf(a).code >= 400 =>
        /\ paid[KeyOf(a)] = <<>>
        /\ \A b \in Attempts : KeyOf(b) = KeyOf(a) => pc[b] \notin Unpaid
  BY <1>1 DEF RejectionEnds, NobodyOn, MoneyInv, KeyMoney
<1>6. Finished(RecordOf(a)) => Exists(RecordOf(a))
  BY DEF Finished, Exists
<1> QED
  BY <1>1, <1>2, <1>3, <1>4, <1>5, <1>6

(* An attempt goes on and leaves records and money alone.                  *)
LEMMA MoneyGoesOn ==
  ASSUME CarefulForm, MoneyInv, NEW a \in Attempts, NEW to, Goto(a, to),
         pc[a] # "idle", to # "idle",
         UNCHANGED <<record, paid, req, told, clientVars>>,
         \A b \in Attempts \ {a} : ans'[b] = ans[b],
         to \in Ahead => pc[a] \in Ahead,
         to \in Unpaid => pc[a] \in Unpaid \/ ~Finished(RecordOf(a)),
         to = "reply" /\ Definitive(ans'[a]) =>
           \/ ans'[a] = "ok"
           \/ /\ paid[KeyOf(a)] = <<>>
              /\ \A b \in Attempts \ {a} : KeyOf(b) = KeyOf(a) => pc[b] \notin Unpaid
              /\ \/ Finished(RecordOf(a))
                 \/ \A b \in Attempts \ {a} : KeyOf(b) = KeyOf(a) => pc[b] \notin Ahead
  PROVE  KeyMoney'
<1>1. record'[KeyOf(a)] = RecordOf(a)
  BY MoneyFacts
<1>2. Finished(RecordOf(a)) /\ RecordOf(a).code >= 400 => to \notin Unpaid
  BY MoneyFacts
<1> QED
  BY <1>1, <1>2, MoneyFacts, AttemptOnOwnKey

(* An attempt writes the record of its key and moves no money.             *)
LEMMA MoneyWrites ==
  ASSUME CarefulForm, MoneyInv, NEW a \in Attempts, NEW to, Goto(a, to),
         NEW r, record'[KeyOf(a)] = r,
         \A k \in Keys \ {KeyOf(a)} : record'[k] = record[k],
         UNCHANGED <<paid, req, told, clientVars>>,
         \A b \in Attempts \ {a} : ans'[b] = ans[b],
         pc[a] # "idle", to # "idle", to \in Ahead => pc[a] \in Ahead,
         to \in Unpaid => pc[a] \in Unpaid \/ ~Finished(RecordOf(a)),
         Finished(RecordOf(a)) => Finished(r),
         Exists(r) => \E p \in Payloads : r.hash = {p},
         Finished(r) /\ r.code >= 400 =>
           /\ paid[KeyOf(a)] = <<>> /\ to \notin Unpaid
           /\ \A b \in Attempts \ {a} : KeyOf(b) = KeyOf(a) => pc[b] \notin Unpaid,
         paid[KeyOf(a)] # <<>> => Finished(r) /\ r.code < 400,
         to = "reply" /\ Definitive(ans'[a]) =>
           \/ ans'[a] = "ok"
           \/ /\ paid[KeyOf(a)] = <<>> /\ Finished(r)
              /\ \A b \in Attempts \ {a} : KeyOf(b) = KeyOf(a) => pc[b] \notin Unpaid
  PROVE  KeyMoney'
BY AttemptOnOwnKey

(* The steps of the server that leave records and money alone.             *)
LEMMA MoneyReads ==
  ASSUME CarefulForm, MoneyInv, RefusedLast, NEW a \in Attempts,
         \/ LookupMiss(a) \/ LookupMismatch(a) \/ LookupReplay(a)
         \/ LookupRecover(a) \/ LookupAbandoned(a) \/ LookupBusy(a)
         \/ InsertLost(a) \/ ReadWinner(a)
         \/ BeginHandler(a) \/ ReuseInvoice(a) \/ RefuseCommit(a)
         \/ CatchReplay(a) \/ CatchDefinitive(a) \/ CatchRetain(a)
         \/ InsertFails(a) \/ Reject(a) \/ Fail(a),
         UNCHANGED clientVars
  PROVE  KeyMoney'
<1>1. /\ Ahead = {"lookup", "release", "insert", "handler", "order", "invoice", "payment"}
      /\ Unpaid = {"handler", "order", "invoice", "payment"}
  BY DEF Ahead, Unpaid
<1>2. ASSUME NEW from \in Unpaid, NEW to \in Unpaid, Move(a, from, to)
      PROVE  KeyMoney'
  <2>1. /\ to # "idle" /\ pc[a] # "idle" /\ to # "reply"
        /\ pc[a] \in Ahead /\ pc[a] \in Unpaid
    BY <1>1, <1>2 DEF Move
  <2> QED
    BY <1>2, <2>1, MoneyGoesOn DEF Move
<1>3. ASSUME NEW to \in {"clash", "catch", "cache"}, Goto(a, to), pc[a] # "idle",
             UNCHANGED <<record, paid, req, ans, told>>
      PROVE  KeyMoney'
  <2>1. to \notin Unpaid \cup Ahead /\ to # "idle" /\ to # "reply"
    BY <1>1
  <2> QED
    BY <1>3, <2>1, MoneyGoesOn
<1>4. ASSUME NEW answer, Respond(a, answer), pc[a] # "idle",
             Definitive(answer) =>
               \/ answer = "ok"
               \/ /\ paid[KeyOf(a)] = <<>>
                  /\ \A b \in Attempts \ {a} : KeyOf(b) = KeyOf(a) => pc[b] \notin Unpaid
                  /\ \/ Finished(RecordOf(a))
                     \/ \A b \in Attempts \ {a} : KeyOf(b) = KeyOf(a) => pc[b] \notin Ahead
      PROVE  KeyMoney'
  <2>1. "reply" \notin Unpaid \cup Ahead
    BY <1>1
  <2>2. ans'[a] = answer /\ \A b \in Attempts \ {a} : ans'[b] = ans[b]
    BY <1>4 DEF Respond, MoneyInv, BrowserTypes, TypeOK
  <2> QED
    BY <1>4, <2>1, <2>2, MoneyGoesOn DEF Respond
<1>5. ASSUME Finished(RecordOf(a)), Respond(a, Replayed(RecordOf(a))), pc[a] # "idle"
      PROVE  KeyMoney'
  <2>1. CASE RecordOf(a).code < 400
    BY <1>4, <1>5, <2>1 DEF Replayed
  <2>2. CASE ~(RecordOf(a).code < 400)
    <3>1. RecordOf(a).code >= 400
      BY <2>2, MoneyFacts DEF Records
    <3> QED
      BY <1>4, <1>5, <3>1, MoneyFacts
  <2> QED
    BY <2>1, <2>2
<1>6. ASSUME ~Finished(RecordOf(a)), NEW answer, Respond(a, answer), Refuses(a), pc[a] # "idle",
             ~CacheRejection(a)
      PROVE  KeyMoney'
  <2>1. \A b \in Attempts \ {a} : KeyOf(b) = KeyOf(a) => pc[b] \notin Ahead
    BY <1>6 DEF RefusedLast
  <2>2. Unpaid \subseteq Ahead
    BY <1>1
  <2>3. paid[KeyOf(a)] = <<>>
    BY <1>6, MoneyFacts
  <2> QED
    BY <1>4, <1>6, <2>1, <2>2, <2>3
<1>7. CASE LookupMiss(a) \/ LookupAbandoned(a)
  <2>1. PICK to \in {"insert", "release"} : Move(a, "lookup", to)
    BY <1>7 DEF LookupMiss, LookupAbandoned
  <2>2. to \notin Unpaid /\ "lookup" \in Ahead
    BY <1>1
  <2> QED
    BY <2>1, <2>2, MoneyGoesOn DEF Move
<1>8. CASE LookupMismatch(a)
  BY <1>8, MoneyFacts DEF LookupMismatch
<1>9. CASE LookupReplay(a)
  BY <1>5, <1>9 DEF LookupReplay
<1>10. CASE LookupRecover(a)
  <2>1. "lookup" \in Ahead /\ ~Finished(RecordOf(a))
    BY <1>1, <1>10 DEF LookupRecover, AtPending, Finished
  <2> QED
    BY <1>10, <2>1, MoneyGoesOn DEF LookupRecover, Move
<1>11. CASE LookupBusy(a)
  BY <1>4, <1>11 DEF LookupBusy, AtPending, Definitive
<1>12. CASE InsertLost(a) \/ InsertFails(a)
  BY <1>3, <1>12 DEF InsertLost, InsertFails, Move
<1>13. CASE ReadWinner(a)
  <2>1. CASE Finished(RecordOf(a))
    BY <1>5, <1>13, <2>1, MoneyFacts DEF ReadWinner
  <2>2. CASE ~Finished(RecordOf(a))
    BY <1>6, <1>13, <2>2 DEF ReadWinner, Refuses, CacheRejection
  <2> QED
    BY <2>1, <2>2
<1>14. CASE BeginHandler(a)
  <2>1. PICK to \in Unpaid : Move(a, "handler", to)
    BY <1>1, <1>14, IdempotencyAssumption DEF BeginHandler
  <2> QED
    BY <1>1, <1>2, <2>1
<1>15. CASE ReuseInvoice(a)
  BY <1>1, <1>2, <1>15 DEF ReuseInvoice
<1>16. CASE RefuseCommit(a) \/ Reject(a) \/ Fail(a)
  <2>1. pc[a] # "idle"
    BY <1>16 DEF RefuseCommit, Reject, Fail
  <2> QED
    BY <1>3, <1>16, <2>1 DEF RefuseCommit, Reject, Fail, Throw
<1>17. CASE CatchReplay(a)
  BY <1>5, <1>17 DEF CatchReplay
<1>18. CASE CatchDefinitive(a)
  BY <1>3, <1>18 DEF CatchDefinitive, Move
<1>19. CASE CatchRetain(a)
  <2>1. CASE err[a] = "client"
    BY <1>6, <1>19, <2>1 DEF CatchRetain, Refuses, CacheRejection
  <2>2. CASE err[a] # "client"
    BY <1>4, <1>19, <2>2 DEF CatchRetain, Definitive
  <2> QED
    BY <2>1, <2>2
<1> QED
  BY <1>7, <1>8, <1>9, <1>10, <1>11, <1>12, <1>13, <1>14, <1>15, <1>16, <1>17, <1>18, <1>19

(* The steps of the server that write the record.                          *)
LEMMA MoneyCommits ==
  ASSUME CarefulForm, MoneyInv, RefusedLast, NEW a \in Attempts,
         \/ InsertWon(a) \/ Release(a) \/ CreateOrder(a) \/ GenerateInvoice(a)
         \/ TakePayment(a) \/ FinalWrite(a) \/ CacheRejection(a),
         UNCHANGED clientVars
  PROVE  KeyMoney'
<1>1. /\ Ahead = {"lookup", "release", "insert", "handler", "order", "invoice", "payment"}
      /\ Unpaid = {"handler", "order", "invoice", "payment"}
  BY DEF Ahead, Unpaid
<1>2. ASSUME NEW r, record' = [record EXCEPT ![KeyOf(a)] = r]
      PROVE  /\ record'[KeyOf(a)] = r
             /\ \A k \in Keys \ {KeyOf(a)} : record'[k] = record[k]
  BY <1>2, MoneyFacts DEF MoneyInv, BrowserTypes, TypeOK
<1>3. CASE InsertWon(a)
  <2> DEFINE r == Pending(req[a].payload)
  <2>1. /\ record' = [record EXCEPT ![KeyOf(a)] = r]
        /\ UNCHANGED <<paid, req, ans, told>>
        /\ Goto(a, "handler") /\ pc[a] = "insert"
        /\ ~Finished(RecordOf(a))
    BY <1>3 DEF InsertWon, Exists, Finished
  <2>2. /\ \E p \in Payloads : r.hash = {p}
        /\ ~Finished(r)
    BY MoneyFacts DEF Pending, Finished
  <2> HIDE DEF r
  <2>3. paid[KeyOf(a)] = <<>>
    BY <2>1, MoneyFacts
  <2>4. /\ record'[KeyOf(a)] = r
        /\ \A k \in Keys \ {KeyOf(a)} : record'[k] = record[k]
    BY <1>2, <2>1
  <2> QED
    BY <1>1, <2>1, <2>2, <2>3, <2>4, MoneyWrites
<1>4. CASE Release(a)
  <2>1. /\ pc[a] = "release" /\ Goto(a, "lookup")
        /\ UNCHANGED <<paid, req, ans, told>>
        /\ "release" \in Ahead /\ "lookup" \notin Unpaid
    BY <1>1, <1>4 DEF Release
  <2>2. CASE RecordOf(a).status = "pending" /\ RecordOf(a).body = {}
    <3>1. record' = [record EXCEPT ![KeyOf(a)] = NoRecord] /\ ~Finished(RecordOf(a))
      BY <1>4, <2>2 DEF Release, Finished
    <3>2. /\ record'[KeyOf(a)] = NoRecord
          /\ \A k \in Keys \ {KeyOf(a)} : record'[k] = record[k]
      BY <1>2, <3>1
    <3>3. ~Exists(NoRecord) /\ ~Finished(NoRecord)
      BY DEF NoRecord, Exists, Finished
    <3>4. paid[KeyOf(a)] = <<>>
      BY <3>1, MoneyFacts
    <3> QED
      BY <2>1, <3>1, <3>2, <3>3, <3>4, MoneyWrites
  <2>3. CASE ~(RecordOf(a).status = "pending" /\ RecordOf(a).body = {})
    BY <1>4, <2>1, <2>3, MoneyGoesOn DEF Release
  <2> QED
    BY <2>2, <2>3
<1>5. CASE CreateOrder(a) \/ GenerateInvoice(a)
  <2> DEFINE r == Write(RecordOf(a), RecordOf(a).status, RecordOf(a).code,
                        RecordOf(a).body \cup {pc[a]})
  <2>1. PICK to \in {"invoice", "payment"} :
           /\ Goto(a, to) /\ pc[a] \in {"order", "invoice"}
           /\ record' = [record EXCEPT ![KeyOf(a)] = r]
           /\ UNCHANGED <<paid, req, ans, told>>
           /\ Exists(RecordOf(a))
    BY <1>5 DEF CreateOrder, GenerateInvoice, Commit
  <2>2. /\ r.hash = RecordOf(a).hash /\ r.status = RecordOf(a).status
        /\ r.code = RecordOf(a).code
    BY DEF Write
  <2> HIDE DEF r
  <2>3. /\ Finished(r) => Finished(RecordOf(a))
        /\ Finished(RecordOf(a)) => Finished(r)
    BY <2>2 DEF Finished
  <2>4. ~(Finished(r) /\ r.code >= 400)
    BY <1>1, <2>1, <2>2, <2>3, MoneyFacts
  <2>5. \E p \in Payloads : r.hash = {p}
    BY <2>1, <2>2, MoneyFacts
  <2>6. paid[KeyOf(a)] # <<>> => Finished(r) /\ r.code < 400
    BY <2>2, <2>3, MoneyFacts
  <2>7. /\ record'[KeyOf(a)] = r
        /\ \A k \in Keys \ {KeyOf(a)} : record'[k] = record[k]
    BY <1>2, <2>1
  <2> QED
    BY <1>1, <2>1, <2>3, <2>4, <2>5, <2>6, <2>7, MoneyWrites
<1>6. CASE TakePayment(a)
  <2> DEFINE r == Write(RecordOf(a), "business_completed", 201,
                        RecordOf(a).body \cup {"payment"})
  <2>1. /\ record' = [record EXCEPT ![KeyOf(a)] = r]
        /\ UNCHANGED <<req, ans, told>>
        /\ Goto(a, "final") /\ pc[a] = "payment"
        /\ Exists(RecordOf(a))
    BY <1>6 DEF TakePayment, Commit
  <2>2. /\ r.hash = RecordOf(a).hash /\ Finished(r) /\ r.code < 400 /\ ~(r.code >= 400)
    BY DEF Write, Finished
  <2> HIDE DEF r
  <2>3. /\ record'[KeyOf(a)] = r
        /\ \A k \in Keys \ {KeyOf(a)} : record'[k] = record[k] /\ paid'[k] = paid[k]
    BY <1>6, <2>1, MoneyFacts DEF TakePayment, MoneyInv, BrowserTypes, TypeOK
  <2>4. \E p \in Payloads : r.hash = {p}
    BY <2>1, <2>2, MoneyFacts
  <2>5. "final" \notin Ahead /\ "final" \notin Unpaid /\ pc[a] \in Unpaid
    BY <1>1, <2>1
  <2> QED
    BY <2>1, <2>2, <2>3, <2>4, <2>5, AttemptOnOwnKey
<1>7. CASE FinalWrite(a) /\ Exists(RecordOf(a))
  <2> DEFINE r == Write(RecordOf(a), "completed", 200, Stages)
  <2>1. /\ record' = [record EXCEPT ![KeyOf(a)] = r]
        /\ UNCHANGED <<paid, req, told>>
        /\ Goto(a, "reply") /\ pc[a] # "idle"
        /\ ans' = [ans EXCEPT ![a] = "ok"]
    BY <1>7 DEF FinalWrite, RecordOf
  <2>2. /\ r.hash = RecordOf(a).hash /\ Finished(r) /\ r.code < 400 /\ ~(r.code >= 400)
    BY DEF Write, Finished
  <2> HIDE DEF r
  <2>3. ans'[a] = "ok" /\ \A b \in Attempts \ {a} : ans'[b] = ans[b]
    BY <2>1 DEF MoneyInv, BrowserTypes, TypeOK
  <2>4. \E p \in Payloads : r.hash = {p}
    BY <1>7, <2>2, MoneyFacts
  <2>5. /\ record'[KeyOf(a)] = r
        /\ \A k \in Keys \ {KeyOf(a)} : record'[k] = record[k]
    BY <1>2, <2>1
  <2> QED
    BY <1>1, <2>1, <2>2, <2>3, <2>4, <2>5, MoneyWrites
<1>8. CASE CacheRejection(a) /\ Exists(RecordOf(a))
  <2>1. /\ pc[a] = "cache" /\ ~Finished(RecordOf(a))
        /\ \A b \in Attempts \ {a} : KeyOf(b) = KeyOf(a) => pc[b] \notin Unpaid
    BY <1>8 DEF CacheRejection, RefusedLast, Refuses
  <2> DEFINE r == Write(RecordOf(a), "completed", 400, {"rejected"})
  <2>2. /\ record' = [record EXCEPT ![KeyOf(a)] = r]
        /\ UNCHANGED <<paid, req, told>>
        /\ Goto(a, "reply")
        /\ ans' = [ans EXCEPT ![a] = "safe"]
    BY <1>8 DEF CacheRejection, RecordOf
  <2>3. r.hash = RecordOf(a).hash /\ Finished(r)
    BY DEF Write, Finished
  <2> HIDE DEF r
  <2>4. \A b \in Attempts \ {a} : ans'[b] = ans[b]
    BY <2>2 DEF MoneyInv, BrowserTypes, TypeOK
  <2>5. \E p \in Payloads : r.hash = {p}
    BY <1>8, <2>3, MoneyFacts
  <2>6. paid[KeyOf(a)] = <<>>
    BY <2>1, MoneyFacts
  <2>7. /\ record'[KeyOf(a)] = r
        /\ \A k \in Keys \ {KeyOf(a)} : record'[k] = record[k]
    BY <1>2, <2>2
  <2> QED
    BY <1>1, <2>1, <2>2, <2>3, <2>4, <2>5, <2>6, <2>7, MoneyWrites
<1>9. CASE FinalWrite(a) /\ ~Exists(RecordOf(a))
  <2>1. Goto(a, "catch") /\ pc[a] # "idle" /\ UNCHANGED <<record, paid, req, ans, told>>
    BY <1>9 DEF FinalWrite, Throw
  <2> QED
    BY <1>1, <2>1, MoneyGoesOn
<1>10. CASE CacheRejection(a) /\ ~Exists(RecordOf(a))
  <2>1. /\ Goto(a, "reply") /\ pc[a] # "idle" /\ UNCHANGED <<record, paid, req, told>>
        /\ ans' = [ans EXCEPT ![a] = "failed"]
    BY <1>10 DEF CacheRejection
  <2>2. ans'[a] = "failed" /\ \A b \in Attempts \ {a} : ans'[b] = ans[b]
    BY <2>1 DEF MoneyInv, BrowserTypes, TypeOK
  <2>3. ~Definitive("failed")
    BY DEF Definitive
  <2> QED
    BY <1>1, <2>1, <2>2, <2>3, MoneyGoesOn
<1> QED
  BY <1>3, <1>4, <1>5, <1>6, <1>7, <1>8, <1>9, <1>10

(* Two minutes pass over a record.                                         *)
LEMMA MoneyAges ==
  ASSUME MoneyInv, NEW j \in Keys, Age(j), UNCHANGED clientVars
  PROVE  KeyMoney'
<1>1. /\ UNCHANGED <<paid, pc, req, ans, told, slot, used, waiting>>
      /\ \A k \in Keys : /\ record'[k].status = record[k].status
                         /\ record'[k].hash = record[k].hash
                         /\ record'[k].code = record[k].code
  BY DEF Age, MoneyInv, BrowserTypes, TypeOK, Records, clientVars
<1>2. \A b \in Attempts : KeyOf(b)' = KeyOf(b) /\ KeyOf(b) \in Keys
  BY <1>1 DEF KeyOf, MoneyInv, BrowserTypes, TypeOK, Requests
<1>3. \A k \in Keys : /\ Exists(record'[k]) = Exists(record[k])
                      /\ Finished(record'[k]) = Finished(record[k])
  BY <1>1 DEF Exists, Finished
<1>4. \A k \in Keys : \A places : NobodyOn(k, places) => NobodyOn(k, places)'
  BY <1>1, <1>2 DEF NobodyOn
<1>5. ASSUME NEW k \in Keys, Dead(k) PROVE Dead(k)'
  BY <1>1, <1>3, <1>4, <1>5 DEF Dead, Finished
<1>6. UsedKeys' /\ SuccessEnds'
  BY <1>1, <1>2 DEF UsedKeys, SuccessEnds, Succeeded, MoneyInv, KeyMoney
<1>7. BodyRecorded'
  BY <1>1, <1>3 DEF BodyRecorded, Exists, MoneyInv, KeyMoney
<1>8. RejectionEnds' /\ PaidIsStored'
  BY <1>1, <1>3, <1>4 DEF RejectionEnds, PaidIsStored, Finished, MoneyInv, KeyMoney
<1>9. LastWord'
  <2> SUFFICES ASSUME NEW b \in waiting, pc[b] = "reply", Definitive(ans[b]), ans[b] # "ok"
               PROVE  Dead(KeyOf(b))'
    BY <1>1 DEF LastWord, Definitive
  <2>1. b \in Attempts /\ Dead(KeyOf(b))
    BY DEF LastWord, MoneyInv, KeyMoney, BrowserTypes
  <2>2. PICK k \in Keys : k = KeyOf(b) /\ k = KeyOf(b)'
    BY <1>2, <2>1
  <2>3. Dead(k)'
    BY <1>5, <2>1, <2>2
  <2> QED
    BY <2>2, <2>3 DEF Dead, NobodyOn, Finished
<1>10. OneLiveKey' /\ LeftBehind'
  <2>1. used \subseteq Keys /\ Succeeded' = Succeeded
    BY <1>1 DEF Succeeded, MoneyInv, BrowserTypes
  <2>2. OneLiveKey'
    BY <1>1, <1>5, <2>1 DEF OneLiveKey, MoneyInv, KeyMoney
  <2>3. LeftBehind'
    BY <1>1, <1>5, <2>1 DEF LeftBehind, MoneyInv, KeyMoney
  <2> QED
    BY <2>2, <2>3
<1> QED
  BY <1>6, <1>7, <1>8, <1>9, <1>10 DEF KeyMoney

(* A request is submitted: the stored key is the only live one, and a new  *)
(* one is only taken when there is none.                                   *)
LEMMA MoneySubmitted ==
  ASSUME Serial, MoneyInv, NEW a \in Attempts, Submit(a)
  PROVE  KeyMoney'
<1>1. PICK r \in Requests : /\ Start(a, r)
                            /\ IF slot = {} THEN r.key \notin used ELSE r.key \in slot
                            /\ slot' = {r.key} /\ used' = used \cup {r.key}
  BY SubmitPicks
<1>2. /\ waiting = {} /\ waiting' = {a} /\ ~Succeeded /\ r.key \in Keys
      /\ UNCHANGED <<record, paid, told>>
  BY <1>1, SubmitPicks DEF Start, Requests
<1>3. /\ pc[a] = "idle" /\ pc'[a] = "lookup" /\ KeyOf(a)' = r.key
      /\ \A b \in Attempts \ {a} : pc'[b] = pc[b] /\ KeyOf(b)' = KeyOf(b)
  BY <1>1 DEF Start, Goto, KeyOf, MoneyInv, BrowserTypes, TypeOK
<1>4. "lookup" \notin Unpaid
  BY DEF Unpaid
<1>5. UsedKeys'
  BY <1>1, <1>2, <1>3 DEF UsedKeys, MoneyInv, KeyMoney
<1>6. BodyRecorded' /\ PaidIsStored'
  BY <1>2 DEF BodyRecorded, PaidIsStored, Exists, Finished, MoneyInv, KeyMoney
<1>7. RejectionEnds'
  <2>1. ASSUME NEW k \in Keys, NobodyOn(k, Unpaid) PROVE NobodyOn(k, Unpaid)'
    BY <1>3, <1>4, <2>1 DEF NobodyOn
  <2> QED
    BY <1>2, <2>1 DEF RejectionEnds, Finished, MoneyInv, KeyMoney
<1>8. LastWord'
  BY <1>2, <1>3 DEF LastWord
<1>9. ASSUME NEW k \in used', k # r.key PROVE Dead(k)'
  <2>1. k \in used \ slot
    BY <1>1, <1>9 DEF MoneyInv, BrowserTypes, SlotHoldsOne
  <2>2. Dead(k)
    BY <1>2, <2>1 DEF LeftBehind, MoneyInv, KeyMoney
  <2>3. ASSUME NEW places, NobodyOn(k, places) PROVE NobodyOn(k, places)'
    BY <1>3, <1>9, <2>3 DEF NobodyOn
  <2> QED
    BY <1>2, <2>2, <2>3 DEF Dead, Finished
<1>10. OneLiveKey' /\ LeftBehind'
  BY <1>1, <1>9 DEF OneLiveKey, LeftBehind
<1>11. SuccessEnds'
  BY <1>2 DEF SuccessEnds, Succeeded
<1> QED
  BY <1>5, <1>6, <1>7, <1>8, <1>10, <1>11 DEF KeyMoney

(* An attempt ends or is given up on, and the slot keeps its key unless    *)
(* the answer was the last word.                                           *)
LEMMA MoneyAnswered ==
  ASSUME MoneyInv, NEW a \in Attempts,
         Receive(a) \/ TimeOut(a) \/ Discard(a) \/ ClientCrash(a)
  PROVE  KeyMoney'
<1>1. /\ UNCHANGED <<record, paid, req, ans, used>>
      /\ \A b \in Attempts \ {a} : pc'[b] = pc[b]
      /\ pc'[a] = "idle" \/ pc'[a] = pc[a]
      /\ waiting' = waiting \ {a}
  <2>1. CASE Receive(a)
    BY <2>1 DEF Receive, Reply, Goto, MoneyInv, BrowserTypes, TypeOK
  <2>2. CASE TimeOut(a)
    BY <2>2 DEF TimeOut, GiveUp
  <2>3. CASE Discard(a)
    BY <2>3 DEF Discard, Move, Goto, clientVars, MoneyInv, BrowserTypes, TypeOK
  <2>4. CASE ClientCrash(a)
    BY <2>4 DEF ClientCrash, Crash, Goto, MoneyInv, BrowserTypes, TypeOK
  <2> QED
    BY <2>1, <2>2, <2>3, <2>4
<1>2. \A b \in Attempts : KeyOf(b)' = KeyOf(b) /\ KeyOf(b) \in Keys
  BY <1>1 DEF KeyOf, MoneyInv, BrowserTypes, TypeOK, Requests
<1>3. "idle" \notin Unpaid /\ "idle" \notin Ahead
  BY DEF Unpaid, Ahead
<1>4. \A k \in Keys : \A places : NobodyOn(k, places) /\ "idle" \notin places
                                => NobodyOn(k, places)'
  BY <1>1, <1>2 DEF NobodyOn
<1>5. ASSUME NEW k \in Keys, Dead(k) PROVE Dead(k)'
  BY <1>1, <1>3, <1>4, <1>5 DEF Dead, Finished
<1>6. UsedKeys'
  BY <1>1, <1>2 DEF UsedKeys, MoneyInv, KeyMoney
<1>7. BodyRecorded' /\ PaidIsStored'
  BY <1>1 DEF BodyRecorded, PaidIsStored, Exists, Finished, MoneyInv, KeyMoney
<1>8. RejectionEnds'
  BY <1>1, <1>3, <1>4 DEF RejectionEnds, Finished, MoneyInv, KeyMoney
<1>9. LastWord'
  <2> SUFFICES ASSUME NEW b \in waiting', pc'[b] = "reply", Definitive(ans'[b]),
                      ans'[b] # "ok"
               PROVE  Dead(KeyOf(b))'
    BY DEF LastWord, Definitive
  <2>1. b \in Attempts /\ Dead(KeyOf(b))
    BY <1>1 DEF LastWord, MoneyInv, KeyMoney, BrowserTypes
  <2>2. PICK k \in Keys : k = KeyOf(b) /\ k = KeyOf(b)'
    BY <1>2, <2>1
  <2>3. Dead(k)'
    BY <1>5, <2>1, <2>2
  <2> QED
    BY <2>2, <2>3 DEF Dead, NobodyOn, Finished
<1>10. used \subseteq Keys
  BY DEF MoneyInv, BrowserTypes
<1>11. OneLiveKey'
  BY <1>1, <1>5, <1>10 DEF OneLiveKey, MoneyInv, KeyMoney
<1>12. LeftBehind' /\ SuccessEnds'
  <2>1. CASE Receive(a) /\ Definitive(ans[a])
    <3>1. /\ slot = {KeyOf(a)} /\ slot' = {}
          /\ told' = told \cup {[key |-> KeyOf(a), payload |-> req[a].payload,
                                 answer |-> ans[a]]}
          /\ ans[a] = "ok" \/ Dead(KeyOf(a))
      BY <2>1 DEF Receive, Reply, OneAtATime, LastWord, MoneyInv, KeyMoney
    <3>2. ans[a] = "ok" => Succeeded'
      <4> DEFINE t == [key |-> KeyOf(a), payload |-> req[a].payload, answer |-> ans[a]]
      <4>1. t \in told' /\ t.answer = ans[a]
        BY <3>1
      <4> QED
        BY <4>1 DEF Succeeded
    <3>3. Succeeded => Succeeded'
      BY <3>1 DEF Succeeded
    <3>4. \A k \in used : Dead(k) \/ Succeeded'
      BY <3>1, <3>2, <3>3 DEF LeftBehind, MoneyInv, KeyMoney
    <3> QED
      BY <1>1, <1>5, <1>10, <3>1, <3>4 DEF LeftBehind, SuccessEnds
  <2>2. CASE ~(Receive(a) /\ Definitive(ans[a]))
    <3>1. slot' = slot
      BY <2>2 DEF Receive, TimeOut, Discard, ClientCrash, clientVars
    <3>2. \/ told' = told
          \/ /\ told' = told \cup {[key |-> KeyOf(a), payload |-> req[a].payload,
                                     answer |-> ans[a]]}
             /\ ans[a] # "ok"
      <4>1. CASE Receive(a)
        BY <2>2, <4>1 DEF Receive, Reply, Definitive
      <4>2. CASE TimeOut(a) \/ Discard(a) \/ ClientCrash(a)
        BY <4>2 DEF TimeOut, GiveUp, Discard, ClientCrash, Move, Crash
      <4> QED
        BY <4>1, <4>2
    <3>3. Succeeded' = Succeeded
      BY <3>2 DEF Succeeded
    <3> QED
      BY <1>1, <1>5, <1>10, <3>1, <3>3 DEF LeftBehind, SuccessEnds, MoneyInv, KeyMoney
  <2> QED
    BY <2>1, <2>2
<1> QED
  BY <1>6, <1>7, <1>8, <1>9, <1>11, <1>12 DEF KeyMoney

(* Every step of the browser and of the server keeps the invariant, as     *)
(* long as refusals come last.                                             *)
LEMMA MoneyStep ==
  ASSUME CarefulForm, MoneyInv, [ClientNext /\ RefusedLast]_allVars
  PROVE  MoneyInv'
<1>1. [ClientNext]_allVars
  OBVIOUS
<1>2. BrowserTypes' /\ OneAtATime'
  BY <1>1, BrowserTypeStep, OneAtATimeStep DEF MoneyInv, CarefulForm
<1>3. ASSUME NEW a \in Attempts,
             Submit(a) \/ Receive(a) \/ TimeOut(a) \/ Discard(a) \/ ClientCrash(a)
      PROVE  KeyMoney'
  BY <1>3, MoneySubmitted, MoneyAnswered DEF CarefulForm
<1>4. CASE UNCHANGED allVars
  <2>1. UNCHANGED <<record, paid, pc, req, ans, told, slot, used, waiting>>
    BY <1>4 DEF allVars, vars, clientVars
  <2>2. \A b \in Attempts : KeyOf(b)' = KeyOf(b)
    BY <2>1 DEF KeyOf
  <2>3. \A k, places : NobodyOn(k, places) => NobodyOn(k, places)'
    BY <2>1, <2>2 DEF NobodyOn
  <2>4. \A k : Dead(k) => Dead(k)'
    BY <2>1, <2>3 DEF Dead, Finished
  <2>5. UsedKeys' /\ BodyRecorded' /\ SuccessEnds'
    BY <2>1, <2>2 DEF UsedKeys, BodyRecorded, SuccessEnds, Succeeded, Exists, MoneyInv,
                      KeyMoney
  <2>6. RejectionEnds' /\ PaidIsStored'
    BY <2>1, <2>3 DEF RejectionEnds, PaidIsStored, Finished, MoneyInv, KeyMoney
  <2>7. OneLiveKey' /\ LeftBehind'
    BY <2>1, <2>4 DEF OneLiveKey, LeftBehind, Succeeded, MoneyInv, KeyMoney
  <2>8. LastWord'
    <3>1. \A b \in waiting : Dead(KeyOf(b)) => Dead(KeyOf(b))'
      BY <2>1, <2>2 DEF Dead, NobodyOn, Finished, MoneyInv, BrowserTypes
    <3> QED
      BY <2>1, <3>1 DEF LastWord, MoneyInv, KeyMoney, Definitive
  <2> QED
    BY <1>2, <2>5, <2>6, <2>7, <2>8 DEF MoneyInv, KeyMoney
<1>5. CASE allVars' # allVars /\ ServerSide /\ UNCHANGED clientVars
  <2>1. RefusedLast
    BY <1>5
  <2>2. ASSUME NEW a \in Attempts, ServerStep(a) \/ InsertFails(a) \/ Reject(a) \/ Fail(a)
        PROVE  KeyMoney'
    BY <1>5, <2>1, <2>2, MoneyReads, MoneyCommits DEF ServerStep
  <2>3. KeyMoney'
    BY <1>5, <2>2, MoneyAges DEF ServerSide
  <2> QED
    BY <1>2, <2>3 DEF MoneyInv
<1>6. KeyMoney' => MoneyInv'
  BY <1>2 DEF MoneyInv
<1> QED
  BY <1>1, <1>3, <1>4, <1>5, <1>6, BrowserSteps

----------------------------------------------------------------------------
(* One payment under one key: what the server proves of itself, whatever   *)
(* the browser does.                                                       *)

KeyPaysOnce ==
  /\ PaymentGuarded => GuardedInv
  /\ Route = "sync" => IInv

(* A request that is given up changes nothing on the server.               *)
LEMMA GivingUp ==
  ASSUME TypeOK', UNCHANGED <<record, effects, paid, pc, req, err, ans, told>>, KeyPaysOnce
  PROVE  KeyPaysOnce'
<1>1. \A b \in Attempts : KeyOf(b)' = KeyOf(b) /\ RecordOf(b)' = RecordOf(b)
  BY DEF KeyOf, RecordOf
<1>2. ASSUME GuardedInv PROVE GuardedInv'
  BY <1>1, <1>2 DEF GuardedInv, PaidOnce, SuccessIsPaid, FinishedIsPaid, OkAnswerIsPaid,
                    Finished
<1>3. ASSUME IInv PROVE IInv'
  BY <1>1, <1>3 DEF IInv, NoRelease, NoRecordNoBody, RunsUnderRecord, PaidCounted,
     SuccessIsPaid, FinishedIsPaid, OkAnswerIsPaid, EachStageOnce, Exclusive, OneRunner,
     Exists, Finished
<1> QED
  BY <1>2, <1>3 DEF KeyPaysOnce, PaymentGuarded

(* An attempt ends without an answer anybody reads.                        *)
LEMMA Discarding ==
  ASSUME TypeOK', KeyPaysOnce, NEW a \in Attempts, Discard(a)
  PROVE  KeyPaysOnce'
<1>1. /\ "idle" \in Positions /\ "idle" \notin Running /\ "idle" \notin Unpaid
      /\ Goto(a, "idle") /\ UNCHANGED <<record, effects, paid, req, ans, told>>
  BY DEF Positions, Running, Unpaid, Discard, Move
<1>2. ASSUME GuardedInv PROVE GuardedInv'
  BY <1>1, <1>2, GuardedMoves
<1>3. ASSUME IInv PROVE IInv'
  BY <1>1, <1>3, AttemptMoves
<1> QED
  BY <1>2, <1>3 DEF KeyPaysOnce, PaymentGuarded

(* A new request starts, whatever was answered before.                     *)
LEMMA Submitting ==
  ASSUME OneBody, TypeOK', KeyPaysOnce, NEW a \in Attempts, NEW r \in Requests, Start(a, r)
  PROVE  KeyPaysOnce'
<1>1. ASSUME GuardedInv PROVE GuardedInv'
  <2>1. pc' = [pc EXCEPT ![a] = "lookup"] /\ pc[a] = "idle"
    BY DEF Start, Goto
  <2>2. /\ UNCHANGED <<record, effects, paid, told>>
        /\ \A b \in Attempts \ {a} : pc'[b] = pc[b] /\ ans'[b] = ans[b] /\ req'[b] = req[b]
        /\ pc'[a] = "lookup"
    BY <1>1, <2>1 DEF Start, GuardedInv, TypeOK
  <2>3. PaidOnce' /\ SuccessIsPaid'
    BY <1>1, <2>2 DEF PaidOnce, SuccessIsPaid, GuardedInv, Finished
  <2>4. FinishedIsPaid'
    BY <1>1, <2>2 DEF FinishedIsPaid, GuardedInv, KeyOf
  <2>5. OkAnswerIsPaid'
    BY <1>1, <2>2 DEF OkAnswerIsPaid, GuardedInv, KeyOf
  <2> QED
    BY <2>3, <2>4, <2>5 DEF GuardedInv
<1>2. ASSUME IInv PROVE IInv'
  BY <1>2, RequestStarts
<1> QED
  BY <1>1, <1>2 DEF KeyPaysOnce, PaymentGuarded

LEMMA BrowserKeepsOnce ==
  ASSUME OneBody, KeyPaysOnce, BrowserTypes, [ClientNext]_allVars
  PROVE  KeyPaysOnce'
<1>1. TypeOK'
  BY BrowserTypeStep DEF BrowserTypes
<1>2. ASSUME [Next]_vars PROVE KeyPaysOnce'
  BY <1>2, GuardedStep, InvStep DEF KeyPaysOnce, NeverReleases, PaymentGuarded
<1>3. ASSUME NEW a \in Attempts, Submit(a) PROVE KeyPaysOnce'
  <2>1. PICK r \in Requests : Start(a, r)
    BY <1>3, SubmitPicks
  <2> QED
    BY <1>1, <2>1, Submitting
<1>4. ASSUME NEW a \in Attempts, TimeOut(a) PROVE KeyPaysOnce'
  BY <1>1, <1>4, GivingUp DEF TimeOut, GiveUp
<1>5. ASSUME NEW a \in Attempts, Discard(a) PROVE KeyPaysOnce'
  BY <1>1, <1>5, Discarding
<1>6. ASSUME NEW a \in Attempts, Receive(a) \/ ClientCrash(a) PROVE KeyPaysOnce'
  BY <1>2, <1>6 DEF Receive, ClientCrash, Next, Fault
<1>7. ASSUME ServerSide PROVE KeyPaysOnce'
  BY <1>2, <1>7 DEF ServerSide, Next, Fault
<1>8. CASE UNCHANGED allVars
  BY <1>2, <1>8 DEF allVars
<1> QED
  BY <1>3, <1>4, <1>5, <1>6, <1>7, <1>8, BrowserSteps

(* A user who submits until the money has moved moves it once, whatever    *)
(* times out and wherever it is then, dies, is retried beside a running    *)
(* attempt, recovers a sale or has its old record released, on the routes  *)
(* whose payment is guarded and on those that never release a record, from *)
(* a form that waits for its request: nothing but a refusal given while    *)
(* another request of its key could still move the money, or had, makes    *)
(* one action pay twice.                                                   *)
THEOREM MovesOnce ==
  CarefulForm /\ (PaymentGuarded \/ Route = "sync") => (ClientSpec => []MoneyMovesOnce)
<1> SUFFICES ASSUME CarefulForm, PaymentGuarded \/ Route = "sync"
             PROVE  ClientSpec => []MoneyMovesOnce
  OBVIOUS
<1> DEFINE OnceInv == hasty \in BOOLEAN /\ (~hasty => MoneyInv /\ KeyPaysOnce)
<1>1. ClientInit => MoneyInv
  <2> SUFFICES ASSUME ClientInit PROVE MoneyInv
    OBVIOUS
  <2>1. BrowserTypes /\ OneAtATime
    BY InitType DEF ClientInit, BrowserTypes, SlotHoldsOne, OneAtATime
  <2>2. /\ \A a \in Attempts : pc[a] = "idle"
        /\ \A k \in Keys : record[k] = NoRecord /\ paid[k] = <<>>
        /\ used = {} /\ slot = {} /\ waiting = {}
    BY DEF ClientInit, Init
  <2>3. \A k \in Keys : ~Finished(record[k]) /\ ~Exists(record[k])
    BY <2>2 DEF Finished, Exists, NoRecord
  <2>4. UsedKeys /\ BodyRecorded /\ RejectionEnds /\ PaidIsStored
    BY <2>2, <2>3 DEF UsedKeys, BodyRecorded, RejectionEnds, PaidIsStored
  <2>5. LastWord /\ OneLiveKey /\ LeftBehind /\ SuccessEnds
    BY <2>2 DEF LastWord, OneLiveKey, LeftBehind, SuccessEnds
  <2> QED
    BY <2>1, <2>4, <2>5 DEF MoneyInv, KeyMoney
<1>2. ClientInit => KeyPaysOnce
  <2> SUFFICES ASSUME ClientInit PROVE KeyPaysOnce
    OBVIOUS
  <2>1. Route = "sync" => IInv
    BY InitInv DEF ClientInit, NeverReleases
  <2>2. GuardedInv
    BY InitGuarded DEF ClientInit
  <2> QED
    BY <2>1, <2>2 DEF KeyPaysOnce
<1>3. ClientInit => OnceInv
  BY <1>1, <1>2 DEF ClientInit
<1>4. ASSUME OnceInv, [ClientNext /\ Noted]_<<allVars, hasty>>
      PROVE  OnceInv'
  <2> SUFFICES ASSUME ~hasty'  PROVE MoneyInv' /\ KeyPaysOnce'
    BY <1>4, NotedStep
  <2>1. [ClientNext /\ RefusedLast]_allVars /\ MoneyInv /\ KeyPaysOnce
    BY <1>4, NotedStep
  <2> QED
    BY <2>1, MoneyStep, BrowserKeepsOnce DEF MoneyInv, CarefulForm
<1>5. OnceInv => MoneyMovesOnce
  <2> SUFFICES ASSUME MoneyInv, KeyPaysOnce, NEW k \in Keys, NEW l \in Keys,
                      paid[k] # <<>>, paid[l] # <<>>
               PROVE  k = l /\ Len(paid[k]) = 1
    BY DEF MoneyMovesOnce
  <2>1. k = l
    BY DEF UsedKeys, OneLiveKey, Dead, MoneyInv, KeyMoney
  <2>2. PICK p \in Payloads : paid[k] = <<p>>
    BY DEF PaidOnce, GuardedInv, PaidCounted, IInv, KeyPaysOnce
  <2>3. Len(<<p>>) = 1
    OBVIOUS
  <2> QED
    BY <2>1, <2>2, <2>3
<1> HIDE DEF OnceInv
<1> QED
  BY <1>3, <1>4, <1>5, PTL DEF ClientSpec
=============================================================================
