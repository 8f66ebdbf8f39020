-------------------------- MODULE OfflineDelivery --------------------------
(***************************************************************************)
(* What a device that works offline is promised: each operation is applied *)
(* at most once and only after the operations it refers to; the device is  *)
(* told that one is done only when it has been applied, and that one is    *)
(* refused only when the refusal has been written down on the server.      *)
(***************************************************************************)
EXTENDS Naturals

CONSTANTS Ops, Refs

VARIABLES
  count,   \* how often each operation has been applied
  noted,   \* the operations whose refusal is on the server's record
  told     \* what the device believes of each operation

vars == <<count, noted, told>>

Init ==
  /\ count = [o \in Ops |-> 0]
  /\ noted = {}
  /\ told = [o \in Ops |-> "open"]

Apply(o) ==
  /\ count[o] = 0
  /\ \A p \in Refs[o] : count[p] = 1
  /\ count' = [count EXCEPT ![o] = 1]
  /\ UNCHANGED <<noted, told>>

Note(o) ==
  /\ noted' = noted \cup {o}
  /\ UNCHANGED <<count, told>>

Tell(o, answer) ==
  /\ answer = "done" => count[o] = 1
  /\ answer = "refused" => o \in noted
  /\ told' = [told EXCEPT ![o] = answer]
  /\ UNCHANGED <<count, noted>>

Next ==
  \E o \in Ops :
    Apply(o) \/ Note(o) \/ \E answer \in {"open", "done", "refused"} : Tell(o, answer)

Spec == Init /\ [][Next]_vars
=============================================================================
