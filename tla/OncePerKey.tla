----------------------------- MODULE OncePerKey -----------------------------
(***************************************************************************)
(* What an Idempotency-Key promises, whatever the server does to keep the  *)
(* promise: the money of a key moves at most once, and a caller is told of *)
(* success only for a movement of the body it sent.                        *)
(***************************************************************************)
EXTENDS Sequences

CONSTANTS Keys, Payloads, Answers

VARIABLES
  moved,  \* the bodies whose money has moved, in order, per key
  told    \* the answers callers have received

vars == <<moved, told>>

Init ==
  /\ moved = [k \in Keys |-> <<>>]
  /\ told = {}

Move(k, p) ==
  /\ moved[k] = <<>>
  /\ moved' = [moved EXCEPT ![k] = <<p>>]
  /\ UNCHANGED told

Tell(k, p, answer) ==
  /\ answer = "ok" => moved[k] = <<p>>
  /\ told' = told \cup {[key |-> k, payload |-> p, answer |-> answer]}
  /\ UNCHANGED moved

Next ==
  \E k \in Keys, p \in Payloads :
    Move(k, p) \/ \E answer \in Answers : Tell(k, p, answer)

Spec == Init /\ [][Next]_vars
=============================================================================
