---------------------------- MODULE StockPosting ----------------------------
(***************************************************************************)
(* One StockPostingJob: the durable, asynchronous deduction of the lines   *)
(* of a billed sale.  It is enqueued with the invoice, claimed by workers  *)
(* (the 30 s drain of every replica, and the drain of a closing session),  *)
(* processed in one transaction under a lock on its row, retried with a    *)
(* backoff, and retried again by an administrator once it has failed.  The *)
(* stock reservation that bridges the gap lives beside it.                 *)
(***************************************************************************)
EXTENDS Naturals, FiniteSets

CONSTANTS
  Workers,      \* processes that can be working on the job
  Lines,        \* the lines (and paid extras) of the sale, by postedLineKey
  MaxAttempts,  \* maxAttempts of the job
  MaxFaults     \* bound: failed transactions and crashes in one behaviour

ASSUME StockPostingAssumption == MaxAttempts \in Nat \ {0} /\ MaxFaults \in Nat

VARIABLES
  status,      \* of the job; "none" until the invoice commits
  due,         \* nextRetryAt <= now
  stale,       \* claimedAt is more than 60 s ago
  attempts,
  posted,      \* postedLineKeys
  deducted,    \* how often the stock of each line has really been issued
  exceptions,  \* InventoryException rows: lines, or "whole"
  hold,        \* the reservation of the invoice
  biller,      \* the request that bills the sale
  locked,      \* the worker whose transaction has locked the row
  pc,          \* where each worker is
  seen,        \* the attempts each worker read before its transaction
  known,       \* the postedLineKeys each worker read under the lock
  admin,       \* the administrator's retry: read, then write
  faults

jobVars == <<status, due, stale, attempts, posted>>
localVars == <<seen, known>>
vars == <<jobVars, deducted, exceptions, hold, biller, locked, pc, localVars, admin, faults>>

TypeOK ==
  /\ status \in {"none", "pending", "processing", "done", "failed"}
  /\ due \in BOOLEAN /\ stale \in BOOLEAN
  /\ attempts \in Nat
  /\ posted \subseteq Lines
  /\ deducted \in [Lines -> Nat]
  /\ exceptions \subseteq Lines \cup {"whole"}
  /\ hold \in {"none", "active", "consumed", "released"}
  /\ biller \in {"billing", "reserving", "done"}
  /\ locked \subseteq Workers
  /\ pc \in [Workers -> {"idle", "claimed", "begin", "posting", "consume", "catch",
                         "release", "report"}]
  /\ seen \in [Workers -> Nat]
  /\ known \in [Workers -> SUBSET Lines]
  /\ admin \in {"idle", "retrying"}
  /\ faults \in Nat

Init ==
  /\ status = "none" /\ due = TRUE /\ stale = FALSE
  /\ attempts = 0
  /\ posted = {}
  /\ deducted = [l \in Lines |-> 0]
  /\ exceptions = {}
  /\ hold = "none"
  /\ biller = "billing"
  /\ locked = {}
  /\ pc = [w \in Workers |-> "idle"]
  /\ seen = [w \in Workers |-> 0]
  /\ known = [w \in Workers |-> {}]
  /\ admin = "idle"
  /\ faults = 0

Goto(w, p) == pc' = [pc EXCEPT ![w] = p]
Spend == faults < MaxFaults /\ faults' = faults + 1
Unlocked == locked = {}

----------------------------------------------------------------------------
(* Billing: the job is created with the invoice; the reservation follows   *)
(* after the commit, and an error in it is only logged.                    *)
Bill ==
  /\ biller = "billing"
  /\ status' = "pending"
  /\ biller' = "reserving"
  /\ UNCHANGED <<due, stale, attempts, posted, deducted, exceptions, hold, locked, pc,
                 localVars, admin, faults>>

Reserve ==
  /\ biller = "reserving"
  /\ hold' = "active"
  /\ biller' = "done"
  /\ UNCHANGED <<jobVars, deducted, exceptions, locked, pc, localVars, admin, faults>>

ReserveFails ==
  /\ biller = "reserving"
  /\ Spend
  /\ biller' = "done"
  /\ UNCHANGED <<jobVars, deducted, exceptions, hold, locked, pc, localVars, admin>>

----------------------------------------------------------------------------
(* Claiming.  SKIP LOCKED passes over a row a transaction is working on.   *)
Claim(w) ==
  /\ pc[w] = "idle" /\ Unlocked
  /\ \/ status = "pending" /\ due
     \/ status = "processing" /\ stale
  /\ status' = "processing"
  /\ stale' = FALSE
  /\ Goto(w, "claimed")
  /\ UNCHANGED <<due, attempts, posted, deducted, exceptions, hold, biller, locked, localVars,
                 admin, faults>>

(* drainSession lists the due jobs of a shift and does not claim them.     *)
DrainSession(w) ==
  /\ pc[w] = "idle"
  /\ status = "pending" /\ due
  /\ Goto(w, "claimed")
  /\ UNCHANGED <<jobVars, deducted, exceptions, hold, biller, locked, localVars, admin, faults>>

(* processStockPostingJob reads the job, without a lock.                   *)
ReadJob(w) ==
  /\ pc[w] = "claimed"
  /\ Goto(w, IF status = "done" THEN "idle" ELSE "begin")
  /\ seen' = [seen EXCEPT ![w] = attempts]
  /\ UNCHANGED known
  /\ UNCHANGED <<jobVars, deducted, exceptions, hold, biller, locked, admin, faults>>

LockNothing(w) ==  \* mutant: a plain SELECT
  /\ pc[w] = "begin"
  /\ Goto(w, IF status = "done" THEN "idle" ELSE "posting")
  /\ known' = [known EXCEPT ![w] = posted]
  /\ UNCHANGED <<jobVars, deducted, exceptions, hold, biller, locked, seen, admin, faults>>

(* SELECT ... FOR UPDATE, then the status and the posted lines again.      *)
LockJob(w) ==
  /\ pc[w] = "begin" /\ Unlocked
  /\ IF status = "done"
     THEN Goto(w, "idle") /\ UNCHANGED <<locked, known>>
     ELSE /\ Goto(w, "posting")
          /\ locked' = {w}
          /\ known' = [known EXCEPT ![w] = posted]
  /\ UNCHANGED <<jobVars, deducted, exceptions, hold, biller, seen, admin, faults>>

(* issueStockForItems: lines it knows to be posted are skipped,            *)
(* the others are issued, or fail and leave an exception.                  *)
IssueForgetful(skip, failing) ==  \* mutant: what was posted before is not kept
  /\ deducted' = [l \in Lines |-> IF l \in skip \cup failing THEN deducted[l]
                                                            ELSE deducted[l] + 1]
  /\ posted' = Lines \ (skip \cup failing)

Issue(skip, failing) ==
  /\ deducted' = [l \in Lines |-> IF l \in skip \cup failing THEN deducted[l]
                                                            ELSE deducted[l] + 1]
  /\ posted' = Lines \ failing

(* completeStockPostingJob, in the same transaction.                       *)
CompleteUncounted(failing) ==  \* mutant: a failed run is not an attempt
  /\ status' = IF failing = {} THEN "done"
               ELSE IF attempts + 1 >= MaxAttempts THEN "failed" ELSE "pending"
  /\ due' = (failing = {} /\ due)
  /\ UNCHANGED attempts

Complete(failing) ==
  IF failing = {}
  THEN /\ status' = "done"
       /\ UNCHANGED <<attempts, due>>
  ELSE /\ status' = IF attempts + 1 >= MaxAttempts THEN "failed" ELSE "pending"
       /\ attempts' = attempts + 1
       /\ due' = FALSE

(* The transaction commits; its answer may be lost on the way back.        *)
PostLines(w) ==
  /\ pc[w] = "posting"
  /\ \E failing \in SUBSET (Lines \ known[w]) :
       /\ Issue(known[w], failing)
       /\ Complete(failing)
       /\ exceptions' = exceptions \cup failing
       /\ \/ Goto(w, IF failing = {} THEN "consume" ELSE "idle") /\ UNCHANGED faults
          \/ Goto(w, "catch") /\ Spend
  /\ locked' = locked \ {w}
  /\ UNCHANGED <<stale, hold, biller, localVars, admin>>

(* No active warehouse, a lost connection, or the 30 s of the transaction  *)
(* have passed, waiting for the lock included.                             *)
Abort(w) ==
  /\ pc[w] \in {"begin", "posting"}
  /\ Spend
  /\ locked' = locked \ {w}
  /\ Goto(w, "catch")
  /\ UNCHANGED <<jobVars, deducted, exceptions, hold, biller, localVars, admin>>

(* The catch block writes by id, from the attempts it read at the start.   *)
Catch(w) ==
  /\ pc[w] = "catch" /\ Unlocked
  /\ attempts' = seen[w] + 1
  /\ IF seen[w] + 1 >= MaxAttempts
     THEN status' = "failed" /\ Goto(w, "release") /\ UNCHANGED due
     ELSE status' = "pending" /\ Goto(w, "idle") /\ due' = FALSE
  /\ UNCHANGED <<stale, posted, deducted, exceptions, hold, biller, locked, localVars, admin,
                 faults>>

ReleaseHold(w) ==
  /\ pc[w] = "release"
  /\ hold' = IF hold = "active" THEN "released" ELSE hold
  /\ Goto(w, "report")
  /\ UNCHANGED <<jobVars, deducted, exceptions, biller, locked, localVars, admin, faults>>

ReportWhole(w) ==
  /\ pc[w] = "report"
  /\ exceptions' = exceptions \cup {"whole"}
  /\ Goto(w, "idle")
  /\ UNCHANGED <<jobVars, deducted, hold, biller, locked, localVars, admin, faults>>

ConsumeHold(w) ==
  /\ pc[w] = "consume"
  /\ hold' = IF hold = "active" THEN "consumed" ELSE hold
  /\ Goto(w, "idle")
  /\ UNCHANGED <<jobVars, deducted, exceptions, biller, locked, localVars, admin, faults>>

(* The process dies; the database rolls its transaction back.              *)
Crash(w) ==
  /\ pc[w] # "idle"
  /\ Spend
  /\ locked' = locked \ {w}
  /\ Goto(w, "idle")
  /\ UNCHANGED <<jobVars, deducted, exceptions, hold, biller, localVars, admin>>

(* Time.                                                                   *)
ComeDue ==
  /\ status = "pending" /\ ~due
  /\ due' = TRUE
  /\ UNCHANGED <<status, stale, attempts, posted, deducted, exceptions, hold, biller,
                 locked, pc, localVars, admin, faults>>

GoStale ==
  /\ status = "processing" /\ ~stale
  /\ stale' = TRUE
  /\ UNCHANGED <<status, due, attempts, posted, deducted, exceptions, hold, biller,
                 locked, pc, localVars, admin, faults>>

(* retryJob: only a failed job, which is read first and written by id.     *)
RetryRead ==
  /\ admin = "idle" /\ status = "failed"
  /\ admin' = "retrying"
  /\ UNCHANGED <<jobVars, deducted, exceptions, hold, biller, locked, pc, localVars, faults>>

RetryWrite ==
  /\ admin = "retrying" /\ Unlocked
  /\ admin' = "idle"
  /\ status' = "pending" /\ attempts' = 0 /\ due' = TRUE
  /\ UNCHANGED <<stale, posted, deducted, exceptions, hold, biller, locked, pc, localVars,
                 faults>>

Process(w) ==
  \/ ReadJob(w) \/ LockJob(w) \/ PostLines(w) \/ Catch(w)
  \/ ReleaseHold(w) \/ ReportWhole(w) \/ ConsumeHold(w)

Next ==
  \/ Bill \/ Reserve \/ ReserveFails
  \/ \E w \in Workers : Claim(w) \/ DrainSession(w) \/ Process(w) \/ Abort(w) \/ Crash(w)
  \/ ComeDue \/ GoStale
  \/ RetryRead \/ RetryWrite

Spec == Init /\ [][Next]_vars

(* The drain runs every 30 s on each replica, a worker goes on with what   *)
(* it has claimed, and time passes.                                        *)
Fairness ==
  /\ \A w \in Workers : WF_vars(Claim(w)) /\ WF_vars(Process(w))
  /\ WF_vars(ComeDue) /\ WF_vars(GoStale)

FairSpec == Spec /\ Fairness
----------------------------------------------------------------------------
(* No line is taken from stock twice, however many workers claim the job,  *)
(* however their transactions end and however often it is retried: "makes  *)
(* processing exactly-once" (pos-invoice.service.ts:1028-1036).            *)
DeductedOnce == \A l \in Lines : deducted[l] <= 1

(* The job remembers what really left the stock, no more and no less, so a *)
(* job that is done has deducted every line.                               *)
PostedIsDeducted ==
  /\ \A l \in Lines : l \in posted <=> deducted[l] > 0
  /\ status = "done" => posted = Lines

(* Every job is done or is handed over to a person: no crash, rollback or  *)
(* lost answer leaves it hanging.                                          *)
Settles == status \in {"pending", "processing"} ~> status \in {"done", "failed"}
=============================================================================
