------------------------ MODULE StockPosting_proofs ------------------------
(***************************************************************************)
(* Proofs about a stock posting job, for any number of workers, lines,     *)
(* attempts and faults: no line leaves the stock twice, and the job knows  *)
(* exactly what has left it.                                               *)
(***************************************************************************)
EXTENDS StockPosting, TLAPS

(* The inductive invariant, part by part.                                  *)

(* The lines the job remembers are the lines that left the stock, once.    *)
Counted ==
  \A l \in Lines : deducted[l] = IF l \in posted THEN 1 ELSE 0

DoneIsWhole == status = "done" => posted = Lines

(* A worker in its transaction holds the lock alone, and what it read      *)
(* under the lock is still what the job remembers.                         *)
LockHolds ==
  \A w \in Workers : pc[w] = "posting" => locked = {w} /\ known[w] = posted

SInv == TypeOK /\ Counted /\ DoneIsWhole /\ LockHolds

----------------------------------------------------------------------------
(* Moving one worker changes the position of that worker only.             *)
LEMMA GotoMoves ==
  ASSUME TypeOK, NEW w \in Workers,
         NEW p \in {"idle", "claimed", "begin", "posting", "consume", "catch",
                    "release", "report"},
         Goto(w, p)
  PROVE  /\ pc' \in [Workers -> {"idle", "claimed", "begin", "posting", "consume",
                                 "catch", "release", "report"}]
         /\ pc'[w] = p
         /\ \A v \in Workers \ {w} : pc'[v] = pc[v]
BY DEF Goto, TypeOK

(* What issueStockForItems and completeStockPostingJob leave behind when   *)
(* the worker's picture of the posted lines is right: the lines it issues  *)
(* are exactly those the job starts to remember.                           *)
LEMMA PostLinesCounts ==
  ASSUME SInv, NEW w \in Workers, PostLines(w)
  PROVE  /\ posted' \subseteq Lines
         /\ deducted' \in [Lines -> Nat]
         /\ Counted'
         /\ DoneIsWhole'
         /\ status' \in {"done", "failed", "pending"}
         /\ attempts' \in Nat /\ due' \in BOOLEAN
         /\ exceptions' \subseteq Lines \cup {"whole"}
<1>1. PICK failing \in SUBSET (Lines \ known[w]) :
        Issue(known[w], failing) /\ Complete(failing) /\ exceptions' = exceptions \cup failing
  BY DEF PostLines
<1>2. pc[w] = "posting" /\ known[w] = posted
  BY DEF SInv, LockHolds, PostLines
<1>3. posted' = Lines \ failing
  BY <1>1 DEF Issue
<1>4. deducted' = [l \in Lines |-> IF l \in posted \cup failing THEN deducted[l]
                                                               ELSE deducted[l] + 1]
  BY <1>1, <1>2 DEF Issue
<1>5. deducted \in [Lines -> Nat] /\ attempts \in Nat /\ due \in BOOLEAN
  BY DEF SInv, TypeOK
<1>6. deducted' \in [Lines -> Nat]
  BY <1>4, <1>5
<1>7. Counted'
  <2> SUFFICES ASSUME NEW l \in Lines
               PROVE  deducted'[l] = IF l \in posted' THEN 1 ELSE 0
    BY DEF Counted
  <2>1. deducted[l] = IF l \in posted THEN 1 ELSE 0
    BY DEF SInv, Counted
  <2>2. CASE l \in posted
    BY <1>1, <1>2, <1>3, <1>4, <2>1, <2>2
  <2>3. CASE l \in failing
    BY <1>1, <1>2, <1>3, <1>4, <2>1, <2>3
  <2>4. CASE l \notin posted \cup failing
    BY <1>3, <1>4, <2>1, <2>4
  <2> QED
    BY <2>2, <2>3, <2>4
<1>8. /\ status' \in {"done", "failed", "pending"}
      /\ attempts' \in Nat /\ due' \in BOOLEAN
      /\ status' = "done" => failing = {}
  <2>1. CASE failing = {}
    <3>1. status' = "done" /\ attempts' = attempts /\ due' = due
      BY <1>1, <2>1 DEF Complete
    <3>2. due' \in BOOLEAN
      BY <1>5, <3>1, Zenon
    <3> QED
      BY <1>5, <2>1, <3>1, <3>2
  <2>2. CASE failing # {}
    <3>1. /\ status' = IF attempts + 1 >= MaxAttempts THEN "failed" ELSE "pending"
          /\ attempts' = attempts + 1
          /\ due' = FALSE
      BY <1>1, <2>2 DEF Complete
    <3>2. due' \in BOOLEAN
      BY <3>1, Zenon
    <3>3. attempts' \in Nat
      BY <1>5, <3>1
    <3> QED
      BY <2>2, <3>1, <3>2, <3>3, Zenon
  <2> QED
    BY <2>1, <2>2
<1>9. DoneIsWhole'
  BY <1>3, <1>8 DEF DoneIsWhole
<1>10. exceptions' \subseteq Lines \cup {"whole"}
  BY <1>1 DEF SInv, TypeOK
<1> QED
  BY <1>3, <1>6, <1>7, <1>8, <1>9, <1>10

(* The transaction that ends leaves the lock free and nobody in it.        *)
LEMMA TransactionEnds ==
  ASSUME SInv, NEW w \in Workers, PostLines(w)
  PROVE  SInv'
<1>1. pc[w] = "posting" /\ locked = {w}
  BY DEF SInv, LockHolds, PostLines
<1>2. PICK p \in {"idle", "consume", "catch"} : Goto(w, p)
  BY DEF PostLines
<1>3. /\ pc' \in [Workers -> {"idle", "claimed", "begin", "posting", "consume",
                              "catch", "release", "report"}]
      /\ pc'[w] = p
      /\ \A v \in Workers \ {w} : pc'[v] = pc[v]
  BY <1>2, GotoMoves DEF SInv
<1>4. \A v \in Workers : pc'[v] # "posting"
  BY <1>1, <1>3 DEF SInv, LockHolds
<1>5. TypeOK'
  <2>1. faults' \in Nat
    BY DEF PostLines, Spend, SInv, TypeOK
  <2>2. /\ UNCHANGED <<stale, hold, biller, seen, known, admin>>
        /\ locked' = locked \ {w}
    BY DEF PostLines, localVars
  <2> QED
    BY <1>3, <2>1, <2>2, PostLinesCounts DEF SInv, TypeOK
<1> QED
  BY <1>4, <1>5, PostLinesCounts DEF SInv, LockHolds

(* A step that moves one worker outside the transaction, releases at most  *)
(* that worker's lock and leaves the lines alone keeps the invariant.      *)
LEMMA WorkerMoves ==
  ASSUME SInv, TypeOK', NEW w \in Workers,
         NEW p \in {"idle", "claimed", "begin", "consume", "catch", "release", "report"},
         Goto(w, p),
         UNCHANGED <<posted, deducted, known>>,
         locked' \in {locked, locked \ {w}},
         status' = "done" => status = "done"
  PROVE  SInv'
<1>1. pc'[w] = p /\ \A v \in Workers \ {w} : pc'[v] = pc[v]
  BY GotoMoves DEF SInv
<1>2. LockHolds'
  <2> SUFFICES ASSUME NEW v \in Workers, pc'[v] = "posting"
               PROVE  locked' = {v} /\ known'[v] = posted'
    BY DEF LockHolds
  <2>1. v # w /\ pc[v] = "posting"
    BY <1>1
  <2>2. locked = {v} /\ known[v] = posted
    BY <2>1 DEF SInv, LockHolds
  <2> QED
    BY <2>1, <2>2
<1> QED
  BY <1>2 DEF SInv, Counted, DoneIsWhole

----------------------------------------------------------------------------
(* Every step keeps the types; PostLines, which needs the rest of the      *)
(* invariant for it, is left to TransactionEnds.                           *)
LEMMA TypeStep ==
  ASSUME TypeOK, Next, \A w \in Workers : ~PostLines(w)
  PROVE  TypeOK'
<1> USE DEF TypeOK, jobVars, localVars
<1>1. ASSUME Bill \/ Reserve \/ ReserveFails PROVE TypeOK'
  BY <1>1 DEF Bill, Reserve, ReserveFails, Spend
<1>2. ASSUME ComeDue \/ GoStale \/ RetryRead \/ RetryWrite PROVE TypeOK'
  <2>1. due' \in BOOLEAN /\ stale' \in BOOLEAN
    BY <1>2, Zenon DEF ComeDue, GoStale, RetryRead, RetryWrite
  <2>2. /\ status' \in {"none", "pending", "processing", "done", "failed"}
        /\ attempts' \in Nat /\ faults' \in Nat /\ admin' \in {"idle", "retrying"}
        /\ UNCHANGED <<posted, deducted, exceptions, hold, biller, locked, pc, seen, known>>
    BY <1>2 DEF ComeDue, GoStale, RetryRead, RetryWrite
  <2> QED
    BY <2>1, <2>2
<1>3. ASSUME NEW w \in Workers,
             \/ Claim(w) \/ DrainSession(w) \/ ReadJob(w) \/ LockJob(w) \/ Abort(w)
             \/ Catch(w) \/ ReleaseHold(w) \/ ReportWhole(w) \/ ConsumeHold(w) \/ Crash(w)
      PROVE  TypeOK'
  <2>1. PICK p \in {"idle", "claimed", "begin", "posting", "consume", "catch",
                    "release", "report"} : Goto(w, p)
    BY <1>3 DEF Claim, DrainSession, ReadJob, LockJob, Abort, Catch, ReleaseHold,
                ReportWhole, ConsumeHold, Crash
  <2>2. pc' \in [Workers -> {"idle", "claimed", "begin", "posting", "consume",
                             "catch", "release", "report"}]
    BY <2>1, GotoMoves
  <2>3. CASE Claim(w) \/ DrainSession(w)
    <3>1. due' \in BOOLEAN /\ stale' \in BOOLEAN
      BY <2>3, Zenon DEF Claim, DrainSession
    <3>2. /\ status' \in {"none", "pending", "processing", "done", "failed"}
          /\ UNCHANGED <<attempts, faults, admin, posted, deducted, exceptions, hold,
                         biller, locked, seen, known>>
      BY <2>3 DEF Claim, DrainSession
    <3> QED
      BY <2>2, <3>1, <3>2
  <2>4. CASE ReadJob(w)
    BY <2>2, <2>4 DEF ReadJob
  <2>5. CASE LockJob(w)
    BY <2>2, <2>5 DEF LockJob
  <2>6. CASE Abort(w) \/ Crash(w)
    BY <2>2, <2>6 DEF Abort, Crash, Spend
  <2>7. CASE Catch(w)
    <3>1. due' \in BOOLEAN
      BY <2>7, Zenon DEF Catch
    <3>2. /\ status' \in {"none", "pending", "processing", "done", "failed"}
          /\ attempts' \in Nat
          /\ UNCHANGED <<stale, faults, admin, posted, deducted, exceptions, hold,
                         biller, locked, seen, known>>
      BY <2>7 DEF Catch
    <3> QED
      BY <2>2, <3>1, <3>2
  <2>8. CASE ReleaseHold(w) \/ ReportWhole(w) \/ ConsumeHold(w)
    BY <2>2, <2>8 DEF ReleaseHold, ReportWhole, ConsumeHold
  <2> QED
    BY <1>3, <2>3, <2>4, <2>5, <2>6, <2>7, <2>8
<1> QED
  BY <1>1, <1>2, <1>3 DEF Next, Process

(* Every step keeps the invariant.                                         *)
LEMMA InvStep == SInv /\ [Next]_vars => SInv'
<1> SUFFICES ASSUME SInv, [Next]_vars PROVE SInv'
  OBVIOUS
<1>1. CASE UNCHANGED vars
  BY <1>1 DEF SInv, TypeOK, Counted, DoneIsWhole, LockHolds, vars, jobVars, localVars
<1>2. ASSUME NEW w \in Workers, PostLines(w) PROVE SInv'
  BY <1>2, TransactionEnds
<1>3. CASE Next /\ \A w \in Workers : ~PostLines(w)
  <2>1. TypeOK'
    BY <1>3, TypeStep DEF SInv
  <2>2. CASE \/ Bill \/ Reserve \/ ReserveFails
             \/ ComeDue \/ GoStale \/ RetryRead \/ RetryWrite
    <3>1. /\ UNCHANGED <<posted, deducted, locked, known, pc>>
          /\ status' = "done" => status = "done"
      BY <2>2 DEF Bill, Reserve, ReserveFails, ComeDue, GoStale, RetryRead, RetryWrite,
                  jobVars, localVars
    <3> QED
      BY <2>1, <3>1 DEF SInv, Counted, DoneIsWhole, LockHolds
  <2>3. ASSUME NEW w \in Workers, Claim(w) PROVE SInv'
    <3>1. /\ Goto(w, "claimed") /\ UNCHANGED <<posted, deducted, known, locked>>
          /\ status' # "done"
      BY <2>3 DEF Claim, localVars
    <3> QED
      BY <2>1, <3>1, WorkerMoves
  <2>4. ASSUME NEW w \in Workers, DrainSession(w) PROVE SInv'
    <3>1. Goto(w, "claimed") /\ UNCHANGED <<status, posted, deducted, known, locked>>
      BY <2>4 DEF DrainSession, jobVars, localVars
    <3> QED
      BY <2>1, <3>1, WorkerMoves
  <2>5. ASSUME NEW w \in Workers, ReadJob(w) PROVE SInv'
    <3>1. /\ Goto(w, "idle") \/ Goto(w, "begin")
          /\ UNCHANGED <<status, posted, deducted, known, locked>>
      BY <2>5 DEF ReadJob, jobVars
    <3> QED
      BY <2>1, <3>1, WorkerMoves
  <2>6. ASSUME NEW w \in Workers, LockJob(w) PROVE SInv'
    <3>1. UNCHANGED <<status, posted, deducted>>
      BY <2>6 DEF LockJob, jobVars
    <3>2. CASE status = "done"
      <4>1. Goto(w, "idle") /\ UNCHANGED <<locked, known>>
        BY <2>6, <3>2 DEF LockJob
      <4> QED
        BY <2>1, <3>1, <4>1, WorkerMoves
    <3>3. CASE status # "done"
      <4>1. /\ locked = {} /\ Goto(w, "posting") /\ locked' = {w}
            /\ known' = [known EXCEPT ![w] = posted]
        BY <2>6, <3>3 DEF LockJob, Unlocked
      <4>2. pc'[w] = "posting" /\ \A v \in Workers \ {w} : pc'[v] = pc[v]
        BY <4>1, GotoMoves DEF SInv
      <4>3. \A v \in Workers : pc[v] # "posting"
        BY <4>1 DEF SInv, LockHolds
      <4>4. known'[w] = posted'
        BY <3>1, <4>1 DEF SInv, TypeOK
      <4>5. LockHolds'
        BY <4>1, <4>2, <4>3, <4>4 DEF LockHolds
      <4> QED
        BY <2>1, <3>1, <4>5 DEF SInv, Counted, DoneIsWhole
    <3> QED
      BY <3>2, <3>3
  <2>7. ASSUME NEW w \in Workers, Abort(w) \/ Crash(w) PROVE SInv'
    <3>1. /\ Goto(w, "catch") \/ Goto(w, "idle")
          /\ UNCHANGED <<status, posted, deducted, known>>
          /\ locked' = locked \ {w}
      BY <2>7 DEF Abort, Crash, jobVars, localVars
    <3> QED
      BY <2>1, <3>1, WorkerMoves
  <2>8. ASSUME NEW w \in Workers, Catch(w) PROVE SInv'
    <3>1. /\ Goto(w, "release") \/ Goto(w, "idle")
          /\ UNCHANGED <<posted, deducted, known, locked>>
          /\ status' # "done"
      BY <2>8 DEF Catch, localVars
    <3> QED
      BY <2>1, <3>1, WorkerMoves
  <2>9. ASSUME NEW w \in Workers, ReleaseHold(w) \/ ReportWhole(w) \/ ConsumeHold(w)
        PROVE SInv'
    <3>1. /\ Goto(w, "report") \/ Goto(w, "idle")
          /\ UNCHANGED <<status, posted, deducted, known, locked>>
      BY <2>9 DEF ReleaseHold, ReportWhole, ConsumeHold, jobVars, localVars
    <3> QED
      BY <2>1, <3>1, WorkerMoves
  <2> QED
    BY <1>3, <2>2, <2>3, <2>4, <2>5, <2>6, <2>7, <2>8, <2>9 DEF Next, Process
<1> QED
  BY <1>1, <1>2, <1>3

(* The invariant holds from the moment the sale is billed on.              *)
LEMMA Invariant == Spec => []SInv
<1>1. Init => SInv
  <2> SUFFICES ASSUME Init PROVE SInv
    OBVIOUS
  <2>1. due \in BOOLEAN /\ stale \in BOOLEAN
    BY Zenon DEF Init
  <2>2. TypeOK
    BY <2>1 DEF Init, TypeOK
  <2> QED
    BY <2>2 DEF Init, SInv, Counted, DoneIsWhole, LockHolds
<1> QED
  BY <1>1, InvStep, PTL DEF Spec

----------------------------------------------------------------------------
(* Every reachable state is well-typed.                                    *)
THEOREM JobTypeCorrect == Spec => []TypeOK
<1>1. SInv => TypeOK
  BY DEF SInv
<1> QED
  BY <1>1, Invariant, PTL

(* No line is taken from stock twice, however many workers claim the job   *)
(* or drain it unclaimed, whatever they remember from before the lock      *)
(* (processStockPostingJob).                                               *)
THEOREM DeductsOnce == Spec => []DeductedOnce
<1>1. SInv => DeductedOnce
  BY DEF SInv, Counted, DeductedOnce
<1> QED
  BY <1>1, Invariant, PTL

(* postedLineKeys are exactly the lines that have left the stock, and a    *)
(* job that is done has posted them all.                                   *)
THEOREM RemembersDeductions == Spec => []PostedIsDeducted
<1>1. SInv => PostedIsDeducted
  BY DEF SInv, TypeOK, Counted, DoneIsWhole, PostedIsDeducted
<1> QED
  BY <1>1, Invariant, PTL
=============================================================================
