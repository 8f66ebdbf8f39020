-------------------------- MODULE SyncPush_proofs --------------------------
(***************************************************************************)
(* Theorems of SyncPush, for any number of operations, pushes on their     *)
(* way, faults and retries, and for every day of the till.                 *)
(***************************************************************************)
EXTENDS SyncPush, FiniteSetTheorems, TLAPS

Noted(o) == o \in letters \/ o \in unwritten

(* The queue is filled in the order of deviceSeq.                          *)
QueueInOrder ==
  \A o, q \in Ops : status[o] # "none" /\ q < o => status[q] # "none"

(* What comes before an operation of a batch is in the batch or handled.   *)
BatchesInOrder ==
  \A r \in Requests : \A o \in todo[r] : \A q \in Ops :
    q < o => q \in todo[r] \/ Handled(q)

(* Nothing is on its way that the device has not queued.                   *)
SentWasQueued ==
  \A r \in Requests, o \in Ops :
    o \in todo[r] \/ answer[r][o] # "none" => status[o] # "none"

LastIsHandled == \A r \in Requests : last[r] # 0 => Handled(last[r])

(* What a key's record says of its operation.                              *)
RecordsAreTrue ==
  \A o \in Ops :
    /\ applied[o] \in {0, 1}
    /\ record[o] = "free" => applied[o] = 0
    /\ record[o] \in {"saved", "completed"} => applied[o] = 1

(* The pending record is held by one batch, which has its operation at     *)
(* hand.                                                                   *)
KeysAreHeld ==
  \A r \in Requests, o \in Ops :
    /\ AtHand(r, o, "handler") => record[o] = "pending" /\ applied[o] = 0
    /\ AtHand(r, o, "final") => applied[o] = 1
OneHolder ==
  \A r, s \in Requests, o \in Ops :
    /\ srv[r] \in {"handler", "final"} /\ Taken(r, o)
    /\ srv[s] \in {"handler", "final"} /\ Taken(s, o)
    => r = s

(* Results on their way, and what the device has stored of them.           *)
AnswersAreTrue ==
  \A r \in Requests, o \in Ops :
    /\ answer[r][o] \in {"named", "unnamed"} => applied[o] = 1
    /\ answer[r][o] = "failed" => Noted(o)
QueueIsTrue ==
  \A o \in Ops :
    /\ status[o] = "pushed" => applied[o] = 1
    /\ status[o] = "failed" => Noted(o)

IInv ==
  /\ TypeOK
  /\ QueueInOrder /\ SentWasQueued /\ BatchesInOrder /\ HandledInOrder /\ LastIsHandled
  /\ RecordsAreTrue /\ KeysAreHeld /\ OneHolder
  /\ AnswersAreTrue /\ QueueIsTrue

Orders == QueueInOrder /\ SentWasQueued /\ BatchesInOrder /\ HandledInOrder /\ LastIsHandled
Truths == RecordsAreTrue /\ KeysAreHeld /\ OneHolder /\ AnswersAreTrue /\ QueueIsTrue

----------------------------------------------------------------------------
(* nextBatch returns a prefix of what is queued.                           *)
LEMMA BatchIsPrefix ==
  ASSUME NEW o \in NextBatch, NEW q \in Queued, q < o
  PROVE  q \in NextBatch
<1> DEFINE Before(n) == {p \in Queued : p < n}
<1>1. o \in Nat /\ q \in Nat /\ \A p \in Queued : p \in Nat
  BY SyncAssumption DEF NextBatch, Queued
<1>2. \A p \in Before(o) : p \in 0..o
  <2> SUFFICES ASSUME NEW p \in Queued, p < o PROVE p \in 0..o
    OBVIOUS
  <2> QED
    BY <1>1
<1>3. \A p \in Before(q) : p \in Before(o)
  <2> SUFFICES ASSUME NEW p \in Queued, p < q PROVE p < o
    OBVIOUS
  <2> QED
    BY <1>1
<1>4. Cardinality(Before(o)) < Limit
  BY DEF NextBatch
<1> HIDE DEF Before
<1>5. IsFiniteSet(0..o) /\ Before(o) \subseteq 0..o
  BY <1>1, <1>2, FS_Interval
<1>6. IsFiniteSet(Before(o))
  BY <1>5, FS_Subset
<1>7. Before(q) \subseteq Before(o)
  BY <1>3
<1>8. IsFiniteSet(Before(q)) /\ Cardinality(Before(q)) <= Cardinality(Before(o))
  BY <1>6, <1>7, FS_Subset
<1>9. Cardinality(Before(q)) \in Nat /\ Cardinality(Before(o)) \in Nat
  BY <1>6, <1>8, FS_CardinalityType
<1>10. Cardinality(Before(q)) < Limit
  BY <1>4, <1>8, <1>9, SyncAssumption
<1> QED
  BY <1>10 DEF NextBatch, Before

LEMMA InitEstablishes == Init => IInv
<1> SUFFICES ASSUME Init PROVE IInv
  OBVIOUS
<1>1. TypeOK
  BY DEF Init, TypeOK, NoAnswers
<1>2. Orders
  BY SyncAssumption DEF Init, Orders, QueueInOrder, SentWasQueued, BatchesInOrder,
                        HandledInOrder, LastIsHandled, Handled, NoAnswers
<1>3. Truths
  BY DEF Init, Truths, RecordsAreTrue, KeysAreHeld, OneHolder, AnswersAreTrue,
         QueueIsTrue, AtHand, NoAnswers
<1> QED
  BY <1>1, <1>2, <1>3 DEF IInv, Orders, Truths

(* At hand is one operation at a time, and all before it are handled.      *)
LEMMA AtHandIsNext ==
  ASSUME IInv, NEW r \in Requests, NEW o \in Ops, Taken(r, o)
  PROVE  /\ \A q \in Ops : q < o => Handled(q)
         /\ \A p \in Ops : Taken(r, p) => p = o
         /\ o \in Nat \ {0}
<1>1. \A q \in Ops : q \in Nat \ {0}
  BY SyncAssumption
<1>2. o \in todo[r] /\ \A q \in todo[r] : o <= q
  BY DEF Taken
<1>3. ASSUME NEW q \in Ops, q < o PROVE Handled(q)
  <2>1. q \notin todo[r]
    BY <1>1, <1>2, <1>3
  <2>2. q \in todo[r] \/ Handled(q)
    BY <1>2, <1>3 DEF IInv, BatchesInOrder
  <2> QED
    BY <2>1, <2>2
<1>4. ASSUME NEW p \in Ops, Taken(r, p) PROVE p = o
  <2>1. p <= o /\ o <= p
    BY <1>2, <1>4 DEF Taken
  <2> QED
    BY <1>1, <2>1
<1> QED
  BY <1>1, <1>3, <1>4

----------------------------------------------------------------------------
(* The server's steps.                                                     *)

LEMMA FailKeeps ==
  ASSUME IInv, NEW r \in Requests, NEW o \in Ops,
         srv[r] \in {"next", "handler", "final"}, Taken(r, o),
         Fail(r, o) \/ FailUnwritten(r, o),
         UNCHANGED record, faults' \in Nat
  PROVE  IInv'
<1>1. TypeOK'
  <2>1. CASE Fail(r, o)
    BY <2>1 DEF IInv, TypeOK, Fail, deviceVars
  <2>2. CASE FailUnwritten(r, o)
    BY <2>2 DEF IInv, TypeOK, FailUnwritten, deviceVars
  <2> QED
    BY <2>1, <2>2
<1>2. \A p \in Ops : (Handled(p)' <=> Handled(p) \/ p = o) /\ (Noted(p)' <=> Noted(p) \/ p = o)
  BY DEF Fail, FailUnwritten, Handled, Noted
<1>3. todo' = [todo EXCEPT ![r] = @ \ {o}] /\ srv' = [srv EXCEPT ![r] = "next"]
  BY DEF Fail, FailUnwritten
<1>4. Orders'
  <2>1. QueueInOrder'
    BY DEF IInv, QueueInOrder, Fail, FailUnwritten, deviceVars
  <2>2. BatchesInOrder'
    BY <1>2, <1>3 DEF IInv, TypeOK, BatchesInOrder
  <2>3. HandledInOrder'
    BY <1>2, AtHandIsNext DEF IInv, HandledInOrder, Fail, FailUnwritten
  <2>4. LastIsHandled'
    BY <1>2 DEF IInv, TypeOK, LastIsHandled, Fail, FailUnwritten
  <2>5. SentWasQueued'
    <3>1. answer' = [answer EXCEPT ![r][o] = "failed"] /\ status' = status
      BY DEF Fail, FailUnwritten, deviceVars
    <3> QED
      BY <1>3, <3>1 DEF IInv, TypeOK, SentWasQueued, Taken
  <2> QED
    BY <2>1, <2>2, <2>3, <2>4, <2>5 DEF Orders
<1>5. Truths'
  <2>1. RecordsAreTrue'
    BY DEF IInv, RecordsAreTrue, Fail, FailUnwritten
  <2>2. KeysAreHeld' /\ OneHolder'
    BY <1>3 DEF IInv, TypeOK, KeysAreHeld, OneHolder, AtHand, Taken, Fail, FailUnwritten
  <2>3. AnswersAreTrue'
    <3>1. answer' = [answer EXCEPT ![r][o] = "failed"] /\ applied' = applied
      BY DEF Fail, FailUnwritten
    <3> QED
      BY <1>2, <3>1 DEF IInv, TypeOK, AnswersAreTrue
  <2>4. QueueIsTrue'
    BY <1>2 DEF IInv, QueueIsTrue, Fail, FailUnwritten, deviceVars
  <2> QED
    BY <2>1, <2>2, <2>3, <2>4 DEF Truths
<1> QED
  BY <1>1, <1>4, <1>5 DEF IInv, Orders, Truths

LEMMA SucceedKeeps ==
  ASSUME IInv, NEW r \in Requests, NEW o \in Ops, NEW result \in {"named", "unnamed"},
         srv[r] \in {"next", "final"}, Taken(r, o), Succeed(r, o, result),
         applied[o] = 1, faults' \in Nat,
         \/ UNCHANGED record
         \/ srv[r] = "final" /\ record' = [record EXCEPT ![o] = "completed"]
  PROVE  IInv'
<1>1. TypeOK'
  BY DEF IInv, TypeOK, Succeed, deviceVars, letterVars
<1>2. \A p \in Ops : Handled(p)' = Handled(p) /\ Noted(p)' = Noted(p)
  BY DEF Succeed, Handled, Noted, letterVars
<1>3. todo' = [todo EXCEPT ![r] = @ \ {o}] /\ srv' = [srv EXCEPT ![r] = "next"]
  BY DEF Succeed
<1>4. Handled(o)
  BY DEF Handled
<1>5. Orders'
  <2>1. QueueInOrder'
    BY DEF IInv, QueueInOrder, Succeed, deviceVars
  <2>2. BatchesInOrder'
    BY <1>2, <1>3, <1>4 DEF IInv, TypeOK, BatchesInOrder
  <2>3. HandledInOrder'
    BY <1>2 DEF IInv, HandledInOrder, Succeed
  <2>4. LastIsHandled'
    BY <1>2, <1>4 DEF IInv, TypeOK, LastIsHandled, Succeed
  <2>5. SentWasQueued'
    BY <1>3 DEF IInv, TypeOK, SentWasQueued, Taken, Succeed, deviceVars
  <2> QED
    BY <2>1, <2>2, <2>3, <2>4, <2>5 DEF Orders
<1>6. Truths'
  <2>1. RecordsAreTrue'
    BY DEF IInv, TypeOK, RecordsAreTrue, Succeed
  <2>2. KeysAreHeld'
    <3> SUFFICES ASSUME NEW s \in Requests, NEW p \in Ops
        PROVE  /\ AtHand(s, p, "handler")' => record'[p] = "pending" /\ applied'[p] = 0
               /\ AtHand(s, p, "final")' => applied'[p] = 1
      BY DEF KeysAreHeld
    <3>1. CASE s = r
      BY <1>3, <3>1 DEF IInv, TypeOK, AtHand
    <3>2. CASE s # r
      BY <1>3, <3>2 DEF IInv, TypeOK, KeysAreHeld, AtHand, Taken, Succeed
    <3> QED
      BY <3>1, <3>2
  <2>3. OneHolder'
    BY <1>3 DEF IInv, TypeOK, OneHolder, Taken
  <2>4. AnswersAreTrue'
    BY <1>2 DEF IInv, TypeOK, AnswersAreTrue, Succeed
  <2>5. QueueIsTrue'
    BY <1>2 DEF IInv, QueueIsTrue, Succeed, deviceVars
  <2> QED
    BY <2>1, <2>2, <2>3, <2>4, <2>5 DEF Truths
<1> QED
  BY <1>1, <1>5, <1>6 DEF IInv, Orders, Truths

LEMMA BeginKeeps ==
  ASSUME IInv, NEW r \in Requests, NEW o \in Ops, Begin(r, o)
  PROVE  IInv'
<1>1. TypeOK'
  BY DEF IInv, TypeOK, Begin, deviceVars, batchVars, letterVars
<1>2. \A p \in Ops : Handled(p)' = Handled(p) /\ Noted(p)' = Noted(p)
  BY DEF Begin, Handled, Noted, letterVars
<1>3. Orders'
  BY <1>2 DEF IInv, TypeOK, Orders, QueueInOrder, SentWasQueued, BatchesInOrder, HandledInOrder,
              LastIsHandled, Begin, deviceVars, batchVars
<1>4. record[o] = "free" /\ applied[o] = 0
  BY DEF IInv, RecordsAreTrue, Begin, KeyFree
<1>5. Truths'
  <2>1. RecordsAreTrue'
    BY <1>4 DEF IInv, TypeOK, RecordsAreTrue, Begin
  <2>2. KeysAreHeld'
    <3> SUFFICES ASSUME NEW s \in Requests, NEW p \in Ops
        PROVE  /\ AtHand(s, p, "handler")' => record'[p] = "pending" /\ applied'[p] = 0
               /\ AtHand(s, p, "final")' => applied'[p] = 1
      BY DEF KeysAreHeld
    <3>1. CASE s = r
      <4>1. /\ todo' = todo /\ applied' = applied /\ srv'[r] = "handler"
            /\ record'[o] = "pending"
        BY DEF IInv, TypeOK, Begin, batchVars
      <4>2. Taken(r, p) => p = o
        BY AtHandIsNext DEF Begin, AtHand
      <4> QED
        BY <1>4, <3>1, <4>1, <4>2 DEF AtHand, Taken
    <3>2. CASE s # r
      BY <1>4, <3>2 DEF IInv, TypeOK, KeysAreHeld, AtHand, Taken, Begin, batchVars
    <3> QED
      BY <3>1, <3>2
  <2>3. OneHolder'
    <3>1. \A s \in Requests : ~(srv[s] \in {"handler", "final"} /\ Taken(s, o))
      BY <1>4 DEF IInv, KeysAreHeld, AtHand
    <3>2. \A p \in Ops : Taken(r, p) => p = o
      BY AtHandIsNext DEF Begin, AtHand
    <3> QED
      <4>1. /\ todo' = todo
            /\ \A s \in Requests : s # r => srv'[s] = srv[s]
        BY DEF IInv, TypeOK, Begin, batchVars
      <4>2. \A s \in Requests, p \in Ops : Taken(s, p)' <=> Taken(s, p)
        BY <4>1 DEF Taken
      <4> HIDE DEF Taken
      <4> QED
        BY <3>1, <3>2, <4>1, <4>2 DEF IInv, OneHolder
  <2>4. AnswersAreTrue' /\ QueueIsTrue'
    BY <1>2 DEF IInv, AnswersAreTrue, QueueIsTrue, Begin, deviceVars
  <2> QED
    BY <2>1, <2>2, <2>3, <2>4 DEF Truths
<1> QED
  BY <1>1, <1>3, <1>5 DEF IInv, Orders, Truths

LEMMA CommitKeeps ==
  ASSUME IInv, NEW r \in Requests, NEW o \in Ops, Commit(r, o)
  PROVE  IInv' /\ applied[o] = 0
<1>1. applied[o] = 0 /\ record[o] = "pending" /\ srv[r] = "handler" /\ Taken(r, o)
  BY DEF IInv, KeysAreHeld, Commit, AtHand
<1>2. applied' = [applied EXCEPT ![o] = 1]
  BY <1>1 DEF Commit
<1>3. TypeOK'
  BY <1>2 DEF IInv, TypeOK, Commit, deviceVars, batchVars, letterVars
<1>4. \A p \in Ops : (Handled(p)' <=> Handled(p) \/ p = o) /\ Noted(p)' = Noted(p)
  BY <1>2 DEF IInv, TypeOK, Commit, Handled, Noted, letterVars
<1>5. Orders'
  <2>1. QueueInOrder'
    BY DEF IInv, QueueInOrder, Commit, deviceVars
  <2>2. BatchesInOrder'
    BY <1>4 DEF IInv, TypeOK, BatchesInOrder, Commit, batchVars
  <2>3. HandledInOrder'
    BY <1>1, <1>4, AtHandIsNext DEF IInv, HandledInOrder, Commit
  <2>4. LastIsHandled'
    BY <1>4 DEF IInv, TypeOK, LastIsHandled, Commit, batchVars
  <2>5. SentWasQueued'
    BY DEF IInv, SentWasQueued, Commit, deviceVars, batchVars
  <2> QED
    BY <2>1, <2>2, <2>3, <2>4, <2>5 DEF Orders
<1>6. Truths'
  <2>1. RecordsAreTrue'
    BY <1>1, <1>2 DEF IInv, TypeOK, RecordsAreTrue, Commit
  <2>2. KeysAreHeld'
    <3> SUFFICES ASSUME NEW s \in Requests, NEW p \in Ops
        PROVE  /\ AtHand(s, p, "handler")' => record'[p] = "pending" /\ applied'[p] = 0
               /\ AtHand(s, p, "final")' => applied'[p] = 1
      BY DEF KeysAreHeld
    <3>1. CASE s = r
      <4>1. todo' = todo /\ srv'[r] = "final" /\ applied'[o] = 1
        BY <1>2 DEF IInv, TypeOK, Commit, batchVars
      <4>2. Taken(r, p) => p = o
        BY <1>1, AtHandIsNext
      <4> QED
        BY <3>1, <4>1, <4>2 DEF AtHand, Taken
    <3>2. CASE s # r /\ p = o
      BY <1>1, <3>2 DEF IInv, TypeOK, OneHolder, AtHand, Taken, Commit, batchVars
    <3>3. CASE s # r /\ p # o
      BY <1>2, <3>3 DEF IInv, TypeOK, KeysAreHeld, AtHand, Taken, Commit, batchVars
    <3> QED
      BY <3>1, <3>2, <3>3
  <2>3. OneHolder'
    <3>1. /\ todo' = todo
          /\ \A s \in Requests : srv'[s] \in {"handler", "final"} => srv[s] \in {"handler", "final"}
      BY <1>1 DEF IInv, TypeOK, AtHand, Commit, batchVars
    <3>2. \A s \in Requests, p \in Ops : Taken(s, p)' <=> Taken(s, p)
      BY <3>1 DEF Taken
    <3> QED
      BY <3>1, <3>2 DEF IInv, OneHolder
  <2>4. AnswersAreTrue' /\ QueueIsTrue'
    BY <1>2, <1>4 DEF IInv, TypeOK, AnswersAreTrue, QueueIsTrue, Commit, deviceVars
  <2> QED
    BY <2>1, <2>2, <2>3, <2>4 DEF Truths
<1> QED
  BY <1>1, <1>3, <1>5, <1>6 DEF IInv, Orders, Truths

(* The end of a batch, by its reply or with the server.                    *)
LEMMA EndKeeps ==
  ASSUME IInv, NEW r \in Requests, Reply(r) \/ Crash(r)
  PROVE  IInv'
<1>1. TypeOK'
  <2>1. srv' \in [Requests -> {"idle", "next", "handler", "final", "replied"}]
    <3>1. \/ srv' = [srv EXCEPT ![r] = "idle"]
          \/ srv' = [srv EXCEPT ![r] = "replied"]
      BY DEF Reply, Crash
    <3> QED
      BY <3>1 DEF IInv, TypeOK
  <2>2. answer' \in [Requests -> [Ops -> {"none", "named", "unnamed", "failed"}]]
    <3>1. PICK given \in {answer[r], NoAnswers} : answer' = [answer EXCEPT ![r] = given]
      BY DEF Reply, Crash
    <3>2. /\ answer \in [Requests -> [Ops -> {"none", "named", "unnamed", "failed"}]]
          /\ NoAnswers \in [Ops -> {"none", "named", "unnamed", "failed"}]
      BY DEF IInv, TypeOK, NoAnswers
    <3> QED
      BY <3>1, <3>2
  <2>3. lastPushSeq' \in Ops \cup {0} /\ faults' \in Nat
    BY DEF IInv, TypeOK, Reply, Crash, Spend
  <2>4. UNCHANGED <<deviceVars, dev, bookVars, letterVars>> /\ ForgetBatch(r)
    BY DEF Reply, Crash
  <2> QED
    BY <2>1, <2>2, <2>3, <2>4
    DEF IInv, TypeOK, ForgetBatch, deviceVars, bookVars, letterVars
<1>2. UNCHANGED <<status, record, applied, letters, unwritten>> /\ ForgetBatch(r)
  BY DEF Reply, Crash, deviceVars, bookVars, letterVars
<1>3. \A p \in Ops : Handled(p)' = Handled(p) /\ Noted(p)' = Noted(p)
  BY <1>2 DEF Handled, Noted
<1>4. \A s \in Requests : /\ s # r => srv'[s] = srv[s] /\ todo'[s] = todo[s]
                          /\ srv'[r] \in {"idle", "replied"} /\ todo'[r] = {}
  BY DEF IInv, TypeOK, Reply, Crash, ForgetBatch
<1>5. \A s \in Requests, p \in Ops : answer'[s][p] \in {answer[s][p], "none"}
  <2>1. answer' = answer \/ answer' = [answer EXCEPT ![r] = NoAnswers]
    BY DEF IInv, TypeOK, Reply, Crash
  <2>2. answer \in [Requests -> [Ops -> {"none", "named", "unnamed", "failed"}]]
    BY DEF IInv, TypeOK
  <2>3. \A s \in Requests : answer'[s] \in {answer[s], NoAnswers}
    BY <2>1, <2>2
  <2> QED
    BY <2>3 DEF NoAnswers
<1>6. Orders'
  <2>1. QueueInOrder'
    BY <1>2 DEF IInv, QueueInOrder
  <2>2. BatchesInOrder'
    BY <1>3, <1>4 DEF IInv, TypeOK, BatchesInOrder
  <2>3. HandledInOrder'
    <3>1. lastPushSeq' = lastPushSeq \/ (lastPushSeq' = last[r] /\ lastPushSeq < last[r])
      BY DEF Reply, Crash
    <3>2. lastPushSeq' = last[r] /\ last[r] # 0 => last[r] \in Ops /\ Handled(last[r])
      BY DEF IInv, TypeOK, LastIsHandled
    <3>3. ASSUME NEW q \in Ops, q <= lastPushSeq' PROVE Handled(q)
      <4>1. \A p \in Ops : p \in Nat \ {0}
        BY SyncAssumption
      <4>2. CASE lastPushSeq' = lastPushSeq
        BY <3>3, <4>2 DEF IInv, HandledInOrder
      <4>3. CASE lastPushSeq' = last[r] /\ last[r] # 0
        <5>1. last[r] \in Ops /\ Handled(last[r])
          BY <3>2, <4>3
        <5>2. q < last[r] \/ q = last[r]
          BY <3>3, <4>1, <4>3, <5>1
        <5> QED
          BY <5>1, <5>2 DEF IInv, HandledInOrder
      <4>4. lastPushSeq \in Nat /\ last[r] \in Nat
        BY <4>1 DEF IInv, TypeOK
      <4> QED
        BY <3>1, <4>2, <4>3, <4>4
    <3> QED
      BY <1>3, <3>3 DEF IInv, HandledInOrder
  <2>4. LastIsHandled'
    BY <1>2, <1>3 DEF IInv, TypeOK, LastIsHandled, ForgetBatch
  <2>5. SentWasQueued'
    BY <1>2, <1>4, <1>5 DEF IInv, SentWasQueued
  <2> QED
    BY <2>1, <2>2, <2>3, <2>4, <2>5 DEF Orders
<1>7. Truths'
  <2>1. RecordsAreTrue' /\ QueueIsTrue'
    BY <1>2, <1>3 DEF IInv, RecordsAreTrue, QueueIsTrue
  <2>2. KeysAreHeld' /\ OneHolder'
    BY <1>2, <1>4 DEF IInv, KeysAreHeld, OneHolder, AtHand, Taken
  <2>3. AnswersAreTrue'
    BY <1>2, <1>3, <1>5 DEF IInv, AnswersAreTrue
  <2> QED
    BY <2>1, <2>2, <2>3 DEF Truths
<1> QED
  BY <1>1, <1>6, <1>7 DEF IInv, Orders, Truths

----------------------------------------------------------------------------
(* The device's steps.                                                     *)

LEMMA PushKeeps ==
  ASSUME IInv, NEW r \in Requests, Push(r)
  PROVE  IInv'
<1>1. NextBatch \subseteq Queued /\ Queued \subseteq Ops
  BY DEF NextBatch, Queued
<1>2. TypeOK'
  BY <1>1 DEF IInv, TypeOK, Push, deviceVars, bookVars, letterVars
<1>3. \A p \in Ops : Handled(p)' = Handled(p) /\ Noted(p)' = Noted(p)
  BY DEF Push, Handled, Noted, bookVars, letterVars
<1>4. srv[r] = "idle" /\ srv' = [srv EXCEPT ![r] = "next"]
        /\ todo' = [todo EXCEPT ![r] = NextBatch]
  BY DEF Push
<1>5. Orders'
  <2>1. QueueInOrder' /\ HandledInOrder' /\ LastIsHandled'
    BY <1>3 DEF IInv, TypeOK, QueueInOrder, HandledInOrder, LastIsHandled, Push, deviceVars
  <2>2. ASSUME NEW o \in NextBatch, NEW q \in Ops, q < o
        PROVE  q \in NextBatch \/ Handled(q)
    <3>1. CASE q \in Queued
      BY <2>2, <3>1, BatchIsPrefix
    <3>2. CASE q \notin Queued
      <4>1. status[o] = "queued" /\ o \in Ops
        BY <1>1 DEF Queued
      <4>2. status[q] \in {"pushed", "failed"}
        BY <2>2, <3>2, <4>1 DEF IInv, TypeOK, QueueInOrder, Queued
      <4> QED
        BY <4>2 DEF IInv, TypeOK, QueueIsTrue, Handled, Noted
    <3> QED
      BY <3>1, <3>2
  <2>3. BatchesInOrder'
    BY <1>3, <1>4, <2>2 DEF IInv, TypeOK, BatchesInOrder
  <2>4. SentWasQueued'
    BY <1>1, <1>4 DEF IInv, TypeOK, SentWasQueued, Queued, Push, deviceVars
  <2> QED
    BY <2>1, <2>3, <2>4 DEF Orders
<1>6. Truths'
  <2>1. RecordsAreTrue' /\ QueueIsTrue' /\ AnswersAreTrue'
    BY <1>3 DEF IInv, RecordsAreTrue, QueueIsTrue, AnswersAreTrue, Push, deviceVars, bookVars
  <2>2. KeysAreHeld' /\ OneHolder'
    BY <1>4 DEF IInv, TypeOK, KeysAreHeld, OneHolder, AtHand, Taken, Push, bookVars
  <2> QED
    BY <2>1, <2>2 DEF Truths
<1> QED
  BY <1>2, <1>5, <1>6 DEF IInv, Orders, Truths

(* What the device does with an answer, marking aside.                     *)
LEMMA AnswerKeeps ==
  ASSUME IInv, NEW r \in Requests, Receive(r) \/ GiveUp(r) \/ Killed(r)
  PROVE  IInv'
<1>1. UNCHANGED <<deviceVars, batchVars, bookVars, letterVars, lastPushSeq>>
  BY DEF Receive, GiveUp, Killed
<1>2. dev' \in [Requests -> {"idle", "waiting", "marking"}] /\ faults' \in Nat
  <2>1. /\ dev' = [dev EXCEPT ![r] = "idle"] \/ dev' = [dev EXCEPT ![r] = "marking"]
        /\ UNCHANGED faults \/ Spend
    BY DEF Receive, GiveUp, Killed
  <2>2. dev \in [Requests -> {"idle", "waiting", "marking"}] /\ faults \in Nat
    BY DEF IInv, TypeOK
  <2>3. dev' \in [Requests -> {"idle", "waiting", "marking"}]
    BY <2>1, <2>2
  <2>4. faults' \in Nat
    BY <2>1, <2>2 DEF Spend
  <2> QED
    BY <2>3, <2>4
<1>3. /\ srv' \in [Requests -> {"idle", "next", "handler", "final", "replied"}]
      /\ \A s \in Requests : srv'[s] = srv[s] \/ srv'[s] = "idle"
  <2>1. srv \in [Requests -> {"idle", "next", "handler", "final", "replied"}]
    BY DEF IInv, TypeOK
  <2>2. srv' = srv \/ \E now \in {srv[r], "idle"} : srv' = [srv EXCEPT ![r] = now]
    BY DEF Receive, GiveUp, Killed
  <2> QED
    BY <2>1, <2>2
<1>4. /\ answer' \in [Requests -> [Ops -> {"none", "named", "unnamed", "failed"}]]
      /\ \A s \in Requests, p \in Ops : answer'[s][p] \in {answer[s][p], "none"}
  <2>1. answer' = answer \/ answer' = [answer EXCEPT ![r] = NoAnswers]
    <3>1. answer \in [Requests -> [Ops -> {"none", "named", "unnamed", "failed"}]]
      BY DEF IInv, TypeOK
    <3>2. [answer EXCEPT ![r] = answer[r]] = answer
      BY <3>1
    <3> QED
      BY <3>2 DEF Receive, GiveUp, Killed
  <2>2. NoAnswers \in [Ops -> {"none", "named", "unnamed", "failed"}]
          /\ \A p \in Ops : NoAnswers[p] = "none"
    BY DEF NoAnswers
  <2>3. answer \in [Requests -> [Ops -> {"none", "named", "unnamed", "failed"}]]
    BY DEF IInv, TypeOK
  <2> QED
    BY <2>1, <2>2, <2>3
<1>5. TypeOK'
  BY <1>1, <1>2, <1>3, <1>4
  DEF IInv, TypeOK, deviceVars, batchVars, bookVars, letterVars
<1>6. \A p \in Ops : Handled(p)' = Handled(p) /\ Noted(p)' = Noted(p)
  BY <1>1 DEF Handled, Noted, bookVars, letterVars
<1>7. Orders'
  <2>1. SentWasQueued'
    BY <1>1, <1>4 DEF IInv, SentWasQueued, deviceVars, batchVars
  <2> QED
    BY <1>1, <1>6, <2>1 DEF IInv, TypeOK, Orders, QueueInOrder, BatchesInOrder,
                            HandledInOrder, LastIsHandled, deviceVars, batchVars
<1>8. Truths'
  <2>1. RecordsAreTrue' /\ QueueIsTrue'
    BY <1>1, <1>6 DEF IInv, RecordsAreTrue, QueueIsTrue, deviceVars, bookVars
  <2>2. AnswersAreTrue'
    BY <1>1, <1>4, <1>6 DEF IInv, AnswersAreTrue, bookVars
  <2>3. KeysAreHeld' /\ OneHolder'
    BY <1>1, <1>3 DEF IInv, KeysAreHeld, OneHolder, AtHand, Taken, batchVars, bookVars
  <2> QED
    BY <2>1, <2>2, <2>3 DEF Truths
<1> QED
  BY <1>5, <1>7, <1>8 DEF IInv, Orders, Truths

(* The steps that write the queue: a new operation, a result, a retry.     *)
LEMMA QueueKeeps ==
  ASSUME IInv, NEW o \in Ops,
         Enqueue(o) \/ Retry(o) \/ \E r \in Requests : Mark(r, o)
  PROVE  IInv'
<1>1. UNCHANGED <<srv, batchVars, bookVars, letterVars, lastPushSeq, faults>>
  BY DEF Enqueue, Retry, Mark
<1>2. PICK new \in {"queued", "pushed", "failed"} :
        /\ status' = [status EXCEPT ![o] = new]
        /\ new = "pushed" => applied[o] = 1
        /\ new = "failed" => Noted(o)
        /\ status[o] # "none" \/ \A q \in Ops : q < o => status[q] # "none"
  <2>1. CASE Enqueue(o)
    BY <2>1 DEF Enqueue
  <2>2. CASE Retry(o)
    BY <2>2 DEF Retry
  <2>3. CASE \E r \in Requests : Mark(r, o)
    <3>1. PICK r \in Requests : Mark(r, o)
      BY <2>3
    <3>2. answer[r][o] \in {"named", "unnamed", "failed"}
      BY <3>1 DEF IInv, TypeOK, Mark, Answered
    <3>3. \/ status' = [status EXCEPT ![o] = "pushed"] /\ applied[o] = 1
          \/ status' = [status EXCEPT ![o] = "failed"] /\ Noted(o)
      BY <3>1, <3>2 DEF IInv, AnswersAreTrue, Mark, MarkStatus
    <3>4. status[o] # "none"
      BY <3>1, <3>2 DEF IInv, SentWasQueued
    <3> QED
      BY <3>3, <3>4
  <2> QED
    BY <2>1, <2>2, <2>3
<1>3. /\ answer' \in [Requests -> [Ops -> {"none", "named", "unnamed", "failed"}]]
      /\ \A s \in Requests, p \in Ops : answer'[s][p] \in {answer[s][p], "none"}
  <2>1. answer' = answer \/ \E r \in Requests : answer' = [answer EXCEPT ![r][o] = "none"]
    BY DEF Enqueue, Retry, Mark
  <2>2. answer \in [Requests -> [Ops -> {"none", "named", "unnamed", "failed"}]]
    BY DEF IInv, TypeOK
  <2>3. CASE answer' = answer
    BY <2>2, <2>3
  <2>4. CASE \E r \in Requests : answer' = [answer EXCEPT ![r][o] = "none"]
    <3>1. PICK r \in Requests : answer' = [answer EXCEPT ![r][o] = "none"]
      BY <2>4
    <3> QED
      BY <2>2, <3>1
  <2> QED
    BY <2>1, <2>3, <2>4
<1>4. TypeOK'
  <2>1. dev' \in [Requests -> {"idle", "waiting", "marking"}]
    <3>1. \/ dev' = dev
          \/ \E r \in Requests : \E now \in {dev[r], "idle"} : dev' = [dev EXCEPT ![r] = now]
      BY DEF Enqueue, Retry, Mark
    <3>2. dev \in [Requests -> {"idle", "waiting", "marking"}]
      BY DEF IInv, TypeOK
    <3> QED
      BY <3>1, <3>2
  <2>2. known' \subseteq Ops
    BY DEF IInv, TypeOK, Enqueue, Retry, Mark
  <2>3. byServer' \in [Ops -> SUBSET Ops]
    <3>1. byServer' = byServer \/ \E given \in SUBSET Ops : byServer' = [byServer EXCEPT ![o] = given]
      BY SyncAssumption DEF Enqueue, Retry, Mark
    <3> QED
      BY <3>1 DEF IInv, TypeOK
  <2>4. retries' \in Nat
    BY DEF IInv, TypeOK, Enqueue, Retry, Mark
  <2> QED
    BY <1>1, <1>2, <1>3, <2>1, <2>2, <2>3, <2>4 DEF IInv, TypeOK, batchVars, bookVars, letterVars
<1>5. \A p \in Ops : Handled(p)' = Handled(p) /\ Noted(p)' = Noted(p)
  BY <1>1 DEF Handled, Noted, bookVars, letterVars
<1>6. Orders'
  <2>1. QueueInOrder'
    BY <1>2 DEF IInv, TypeOK, QueueInOrder
  <2>2. SentWasQueued'
    BY <1>1, <1>2, <1>3 DEF IInv, TypeOK, SentWasQueued, batchVars
  <2>3. BatchesInOrder' /\ HandledInOrder' /\ LastIsHandled'
    BY <1>1, <1>5 DEF IInv, TypeOK, BatchesInOrder, HandledInOrder, LastIsHandled, batchVars
  <2> QED
    BY <2>1, <2>2, <2>3 DEF Orders
<1>7. Truths'
  <2>1. RecordsAreTrue' /\ KeysAreHeld' /\ OneHolder'
    BY <1>1 DEF IInv, RecordsAreTrue, KeysAreHeld, OneHolder, AtHand, Taken,
                batchVars, bookVars
  <2>2. AnswersAreTrue'
    BY <1>1, <1>3, <1>5 DEF IInv, AnswersAreTrue, bookVars
  <2>3. QueueIsTrue'
    BY <1>1, <1>2, <1>5 DEF IInv, TypeOK, QueueIsTrue, bookVars
  <2> QED
    BY <2>1, <2>2, <2>3 DEF Truths
<1> QED
  BY <1>4, <1>6, <1>7 DEF IInv, Orders, Truths

----------------------------------------------------------------------------
LEMMA StepKeeps == IInv /\ [Next]_vars => IInv'
<1> SUFFICES ASSUME IInv, [Next]_vars PROVE IInv'
  OBVIOUS
<1>0. faults \in Nat /\ (Spend => faults' \in Nat)
  BY DEF IInv, TypeOK, Spend
<1>1. ASSUME NEW r \in Requests, NEW o \in Ops,
             Deny(r, o) \/ FailFast(r, o) \/ Locked(r, o) \/ Refuse(r, o) \/ LoseLetter(r, o)
      PROVE  IInv'
  <2>1. /\ srv[r] \in {"next", "handler", "final"} /\ Taken(r, o)
        /\ Fail(r, o) \/ FailUnwritten(r, o)
        /\ UNCHANGED record
    BY <1>1 DEF Deny, FailFast, Locked, Refuse, LoseLetter, AtHand
  <2>2. faults' \in Nat
    BY <1>0, <1>1 DEF Deny, FailFast, Locked, Refuse, LoseLetter
  <2> QED
    BY <2>1, <2>2, FailKeeps
<1>2. ASSUME NEW r \in Requests, NEW o \in Ops, Replay(r, o)
      PROVE  IInv'
  <2>1. /\ srv[r] = "next" /\ Taken(r, o) /\ UNCHANGED record /\ faults' \in Nat
        /\ record[o] \in {"saved", "completed"}
        /\ \E result \in {"named", "unnamed"} : Succeed(r, o, result)
    BY <1>0, <1>2 DEF Replay, AtHand
  <2>2. applied[o] = 1
    BY <2>1 DEF IInv, RecordsAreTrue
  <2> QED
    BY <2>1, <2>2, SucceedKeeps
<1>3. ASSUME NEW r \in Requests, NEW o \in Ops, Complete(r, o) \/ CompleteFails(r, o)
      PROVE  IInv'
  <2>1. srv[r] = "final" /\ Taken(r, o) /\ faults' \in Nat
    BY <1>0, <1>3 DEF Complete, CompleteFails, AtHand
  <2>2. applied[o] = 1
    BY <1>3 DEF IInv, KeysAreHeld, Complete, CompleteFails
  <2>3. CASE Fail(r, o) /\ UNCHANGED record
    BY <2>1, <2>3, FailKeeps
  <2>4. CASE \E result \in {"named", "unnamed"} :
               /\ Succeed(r, o, result)
               /\ UNCHANGED record \/ record' = [record EXCEPT ![o] = "completed"]
    BY <2>1, <2>2, <2>4, SucceedKeeps
  <2> QED
    BY <1>3, <2>3, <2>4 DEF Complete, CompleteFails
<1>4. CASE UNCHANGED vars
  BY <1>4 DEF vars, deviceVars, batchVars, bookVars, letterVars, IInv, TypeOK,
              QueueInOrder, SentWasQueued, BatchesInOrder, HandledInOrder, LastIsHandled,
              RecordsAreTrue, KeysAreHeld, OneHolder, AnswersAreTrue, QueueIsTrue,
              Handled, Noted, AtHand, Taken
<1>5. CASE \E r \in Requests, o \in Ops : Begin(r, o) \/ Commit(r, o)
  BY <1>5, BeginKeeps, CommitKeeps
<1>6. CASE \E r \in Requests : Reply(r) \/ Crash(r)
  BY <1>6, EndKeeps
<1>7. CASE \E r \in Requests : Push(r) \/ Receive(r) \/ GiveUp(r) \/ Killed(r)
  BY <1>7, PushKeeps, AnswerKeeps
<1>8. CASE \E o \in Ops : Enqueue(o) \/ Retry(o) \/ \E r \in Requests : Mark(r, o)
  BY <1>8, QueueKeeps
<1> QED
  BY <1>1, <1>2, <1>3, <1>4, <1>5, <1>6, <1>7, <1>8 DEF Next, ServerStep, DeviceStep

LEMMA AlwaysIInv == Spec => []IInv
BY InitEstablishes, StepKeeps, PTL DEF Spec

----------------------------------------------------------------------------
(* The variables of the queue, the batches and the records keep their      *)
(* types, for any day, batch size and number of pushes.                    *)
THEOREM PushTypeCorrect == Spec => []TypeOK
<1>1. IInv => TypeOK
  BY DEF IInv
<1> QED
  BY <1>1, AlwaysIInv, PTL

(* Whatever is lost, pushed twice or overlaps, the operations are handled  *)
(* in the order of the queue and lastPushSeq stands for a prefix of it.    *)
THEOREM QueueOrderKept == Spec => []HandledInOrder
<1>1. IInv => HandledInOrder
  BY DEF IInv
<1> QED
  BY <1>1, AlwaysIInv, PTL

----------------------------------------------------------------------------
(* Every step does what OfflineDelivery allows, or nothing it can see.     *)

LEMMA InitDelivers == Init => Delivery!Init
BY DEF Init, Delivery!Init, Told

LEMMA Unseen ==
  ASSUME UNCHANGED <<status, applied, letters, unwritten>>
  PROVE  UNCHANGED Delivery!vars
BY DEF Delivery!vars, Told

LEMMA FailDelivers ==
  ASSUME NEW r \in Requests, NEW o \in Ops, Fail(r, o) \/ FailUnwritten(r, o)
  PROVE  Delivery!Next
<1>1. Told' = Told
  BY DEF Told, Fail, FailUnwritten, deviceVars
<1>2. applied' = applied /\ (letters \cup unwritten)' = (letters \cup unwritten) \cup {o}
  BY DEF Fail, FailUnwritten
<1>3. Delivery!Note(o)
  BY <1>1, <1>2 DEF Delivery!Note
<1> QED
  BY <1>3 DEF Delivery!Next

LEMMA CommitDelivers ==
  ASSUME IInv, NEW r \in Requests, NEW o \in Ops, Commit(r, o)
  PROVE  Delivery!Next
<1>1. applied[o] = 0
  BY CommitKeeps
<1>2. \A p \in Refs[o] : applied[p] = 1
  <2>1. Refs[o] \subseteq Ops
    BY SyncAssumption
  <2>2. \A p \in Ops : applied[p] > 0 => applied[p] = 1
    BY DEF IInv, RecordsAreTrue
  <2> QED
    BY <2>1, <2>2 DEF Commit, Feasible
<1>3. applied' = [applied EXCEPT ![o] = 1]
  BY <1>1 DEF Commit
<1>4. UNCHANGED <<letters \cup unwritten, Told>>
  BY DEF Commit, Told, deviceVars, letterVars
<1>5. Delivery!Apply(o)
  BY <1>1, <1>2, <1>3, <1>4 DEF Delivery!Apply
<1> QED
  BY <1>5 DEF Delivery!Next

LEMMA QueueDelivers ==
  ASSUME IInv, NEW o \in Ops,
         Enqueue(o) \/ Retry(o) \/ \E r \in Requests : Mark(r, o)
  PROVE  Delivery!Next \/ UNCHANGED Delivery!vars
<1>1. UNCHANGED <<applied, letters, unwritten>>
  BY DEF Enqueue, Retry, Mark, bookVars, letterVars
<1>2. PICK new \in {"open", "done", "refused"} :
        /\ Told' = [Told EXCEPT ![o] = new]
        /\ new = "done" => applied[o] = 1
        /\ new = "refused" => Noted(o)
  <2>1. status \in [Ops -> {"none", "queued", "pushed", "failed"}]
    BY DEF IInv, TypeOK
  <2>2. CASE status' = [status EXCEPT ![o] = "queued"]
    <3>1. Told' = [Told EXCEPT ![o] = "open"]
      BY <2>1, <2>2 DEF Told
    <3> QED
      BY <3>1
  <2>3. CASE status' = [status EXCEPT ![o] = "pushed"] /\ applied[o] = 1
    <3>1. Told' = [Told EXCEPT ![o] = "done"]
      BY <2>1, <2>3 DEF Told
    <3> QED
      BY <2>3, <3>1
  <2>4. CASE status' = [status EXCEPT ![o] = "failed"] /\ Noted(o)
    <3>1. Told' = [Told EXCEPT ![o] = "refused"]
      BY <2>1, <2>4 DEF Told
    <3> QED
      BY <2>4, <3>1
  <2>5. CASE \E r \in Requests : Mark(r, o)
    <3>1. PICK r \in Requests : Mark(r, o)
      BY <2>5
    <3>2. answer[r][o] \in {"named", "unnamed", "failed"}
      BY <3>1 DEF IInv, TypeOK, Mark, Answered
    <3>3. \/ status' = [status EXCEPT ![o] = "pushed"] /\ applied[o] = 1
          \/ status' = [status EXCEPT ![o] = "failed"] /\ Noted(o)
      BY <3>1, <3>2 DEF IInv, AnswersAreTrue, Mark, MarkStatus
    <3> QED
      BY <2>3, <2>4, <3>3
  <2> QED
    BY <2>2, <2>5 DEF Enqueue, Retry
<1>3. Delivery!Tell(o, new)
  BY <1>1, <1>2 DEF Delivery!Tell, Noted
<1> QED
  BY <1>3 DEF Delivery!Next

LEMMA StepDelivers == IInv /\ [Next]_vars => [Delivery!Next]_(Delivery!vars)
<1> SUFFICES ASSUME IInv, [Next]_vars PROVE Delivery!Next \/ UNCHANGED Delivery!vars
  OBVIOUS
<1>1. CASE \E r \in Requests, o \in Ops : Fail(r, o) \/ FailUnwritten(r, o)
  BY <1>1, FailDelivers
<1>2. CASE \E r \in Requests, o \in Ops : Commit(r, o)
  BY <1>2, CommitDelivers
<1>3. CASE \E o \in Ops : Enqueue(o) \/ Retry(o) \/ \E r \in Requests : Mark(r, o)
  BY <1>3, QueueDelivers
<1>4. ASSUME NEW r \in Requests, NEW o \in Ops,
             Begin(r, o) \/ \E result \in {"named", "unnamed"} : Succeed(r, o, result)
      PROVE  UNCHANGED <<status, applied, letters, unwritten>>
  BY <1>4 DEF Begin, Succeed, deviceVars, letterVars
<1>5. CASE \E r \in Requests : \/ Reply(r) \/ Crash(r) \/ Push(r)
                               \/ Receive(r) \/ GiveUp(r) \/ Killed(r)
  <2>1. UNCHANGED <<status, applied, letters, unwritten>>
    BY <1>5 DEF Reply, Crash, Push, Receive, GiveUp, Killed, deviceVars, bookVars, letterVars
  <2> QED
    BY <2>1, Unseen
<1>6. CASE UNCHANGED vars
  BY <1>6, Unseen DEF vars, deviceVars, bookVars, letterVars
<1>7. ASSUME NEW r \in Requests, NEW o \in Ops,
             \/ Deny(r, o) \/ FailFast(r, o) \/ Locked(r, o) \/ Refuse(r, o)
             \/ LoseLetter(r, o) \/ Replay(r, o) \/ Complete(r, o) \/ CompleteFails(r, o)
      PROVE  \/ Fail(r, o) \/ FailUnwritten(r, o)
             \/ \E result \in {"named", "unnamed"} : Succeed(r, o, result)
  BY <1>7 DEF Deny, FailFast, Locked, Refuse, LoseLetter, Replay, Complete, CompleteFails
<1>8. ASSUME NEW r \in Requests, ServerStep(r)
      PROVE  Delivery!Next \/ UNCHANGED Delivery!vars
  BY <1>1, <1>2, <1>4, <1>5, <1>7, <1>8, Unseen DEF ServerStep
<1> QED
  BY <1>3, <1>5, <1>6, <1>8 DEF Next, DeviceStep

(* However often batches are pushed again, and by however many workers, an *)
(* operation takes effect once, after what it refers to, and what the      *)
(* device believes of it is so.                                            *)
THEOREM DeliversOnce == Spec => ImplementsDelivery
BY AlwaysIInv, InitDelivers, StepDelivers, PTL DEF Spec, ImplementsDelivery, Delivery!Spec
=============================================================================
