-------------------------- MODULE IdempotentClient --------------------------
(***************************************************************************)
(* One money-moving action in the browser (idempotentPost) against the     *)
(* kernel's idempotency protocol.  The user wants the money moved once and *)
(* submits again after every answer that is not a success.  The browser    *)
(* keeps the key of the action in sessionStorage until an answer it takes  *)
(* for definitive arrives.                                                 *)
(***************************************************************************)
EXTENDS Idempotency, FiniteSets

CONSTANT Serial  \* the form is disabled while a request is outstanding

ASSUME ClientAssumption == Serial \in BOOLEAN

VARIABLES
  slot,     \* the key held in sessionStorage: at most one
  used,     \* the keys submitted so far
  waiting,  \* requests whose answer the browser still waits for
  hasty     \* a refusal has been given too early, as RefusedLast tells

clientVars == <<slot, used, waiting>>
allVars == <<vars, clientVars>>

ClientTypeOK ==
  /\ TypeOK
  /\ slot \subseteq used /\ Cardinality(slot) <= 1
  /\ used \subseteq Keys
  /\ waiting \subseteq {a \in Attempts : pc[a] # "idle"}
  /\ hasty \in BOOLEAN

ClientInit == Init /\ slot = {} /\ used = {} /\ waiting = {} /\ hasty = FALSE

Succeeded == \E t \in told : t.answer = "ok"

(* operationKeyFor: the stored key, or a new one that is stored.           *)
Submit(a) ==
  /\ ~Succeeded
  /\ Serial => waiting = {}
  /\ \E k \in Keys :
       /\ IF slot = {} THEN k \notin used ELSE k \in slot
       /\ \E p \in Payloads : Start(a, [key |-> k, payload |-> p])
       /\ slot' = {k}
       /\ used' = used \cup {k}
  /\ waiting' = waiting \cup {a}

(* isDefinitive: every 4xx except a 409 that says OPERATION_PENDING.       *)
AnyFourHundred(answer) == answer \in Answers \ {"failed"}  \* mutant: OPERATION_PENDING too
Definitive(answer) == answer \in {"ok", "safe", "conflict", "rejected"}

(* send(): release() empties the slot of the action, whatever it holds.    *)
Receive(a) ==
  /\ a \in waiting
  /\ Reply(a)
  /\ waiting' = waiting \ {a}
  /\ slot' = IF Definitive(ans[a]) THEN {} ELSE slot
  /\ UNCHANGED used

(* axios gives up after 30 s, or the connection is dropped; wherever the   *)
(* request is, the server goes on with it.  That a request has run or been *)
(* answered by then is the normal case and needs no bound; one given up    *)
(* before its handler has begun counts with the faults.                    *)
GiveUp(a) ==
  /\ a \in waiting
  /\ waiting' = waiting \ {a}
  /\ IF pc[a] \in Running \cup {"reply"} THEN UNCHANGED faults ELSE Spend
  /\ UNCHANGED <<record, effects, paid, pc, req, err, ans, told, used>>

TimeOutReleases(a) == GiveUp(a) /\ slot' = {}  \* mutant: a time-out gives the key up
TimeOut(a) == GiveUp(a) /\ UNCHANGED slot

(* An answer nobody waits for any more.                                    *)
Discard(a) ==
  /\ a \notin waiting
  /\ Move(a, "reply", "idle")
  /\ UNCHANGED clientVars

(* The server or the connection dies under a request.                      *)
CrashUnseen(a) == Crash(a) /\ UNCHANGED clientVars  \* mutant: the broken connection goes unnoticed

ClientCrash(a) ==
  /\ Crash(a)
  /\ waiting' = waiting \ {a}
  /\ UNCHANGED <<slot, used>>

ClientNext ==
  \/ \E a \in Attempts :
       \/ Submit(a) \/ Receive(a) \/ TimeOut(a) \/ Discard(a) \/ ClientCrash(a)
       \/ ServerStep(a) /\ UNCHANGED clientVars
       \/ InsertFails(a) /\ UNCHANGED clientVars
       \/ Reject(a) /\ UNCHANGED clientVars
       \/ Fail(a) /\ UNCHANGED clientVars
  \/ \E k \in Keys : Age(k) /\ UNCHANGED clientVars

(* The answers that end a key although its money may still move: a cached  *)
(* rejection, a rejection passed on, and the 409 of a lost insert, which   *)
(* does not say OPERATION_PENDING.                                         *)
Refuses(a) ==
  \/ CacheRejection(a)
  \/ CatchRetain(a) /\ err[a] = "client"
  \/ ReadWinner(a) /\ ~Finished(RecordOf(a))

(* A refusal comes last when no outcome is stored and no other request of  *)
(* its key can still move the money.  The service does not see to that.    *)
Unpaid == {"handler", "order", "invoice", "payment"}
Ahead == {"lookup", "release", "insert"} \cup Unpaid

RefusedLast ==
  \A a \in Attempts : Refuses(a) =>
    /\ ~Finished(RecordOf(a))
    /\ \A b \in Attempts \ {a} : KeyOf(b) = KeyOf(a) =>
         pc[b] \notin (IF CacheRejection(a) THEN Unpaid ELSE Ahead)

Noted == hasty' = (hasty \/ ~RefusedLast)

ClientSpec == ClientInit /\ [][ClientNext /\ Noted]_<<allVars, hasty>>

(* The user goes on until the money has moved, the server processes what   *)
(* it has received, time passes, and an answer that keeps coming while the *)
(* browser waits for it does not miss it every time.                       *)
ClientFairness ==
  /\ WF_allVars(\E a \in Attempts : Submit(a))
  /\ \A a \in Attempts :
       /\ WF_allVars(ServerStep(a) /\ UNCHANGED clientVars)
       /\ SF_allVars(Receive(a))
       /\ WF_allVars(Discard(a))
  /\ \A k \in Keys : WF_allVars(Age(k) /\ UNCHANGED clientVars)

ClientFairSpec == ClientSpec /\ ClientFairness

----------------------------------------------------------------------------
(* One action of the user moves its money once, whichever keys carried it: *)
(* "A timeout, dropped connection, 5xx or a double-click retries with the  *)
(* original key, so the server replays the first result instead of posting *)
(* the money twice" (idempotent-request.ts:5-8).  The exception is a       *)
(* refusal that the service gives while another request of the same key    *)
(* can still move the money, or has moved it: one request is given up      *)
(* before its handler begins, the next loses the race for the record, and  *)
(* the 409 it gets ends the key (idempotency.service.ts:171,               *)
(* idempotent-request.ts:54).                                              *)
MoneyMovesOnce ==
  \A k, l \in Keys :
    paid[k] # <<>> /\ paid[l] # <<>> /\ ~hasty => k = l /\ Len(paid[k]) = 1

(* The key stays the same until the server answers it definitively: every  *)
(* key that has been used and given up has been answered.                  *)
KeyStaysUntilAnswered ==
  \A k \in used \ slot : \E t \in told : t.key = k /\ Definitive(t.answer)

(* A key the browser has stored is not stored for good: the user who goes  *)
(* on submitting learns what became of the money, even if the first        *)
(* request died and left its record pending ("A pending record older than  *)
(* this with no outcome is an abandoned attempt",                          *)
(* idempotency.service.ts:21).                                             *)
KeyIsResolved == \A k \in Keys : k \in slot ~> k \notin slot
=============================================================================
