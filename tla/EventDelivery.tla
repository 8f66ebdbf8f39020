--------------------------- MODULE EventDelivery ---------------------------
(***************************************************************************)
(* What a transactional outbox promises: an event that was announced is    *)
(* handed to its consumers in their order, any number of times, and is     *)
(* only put aside when every consumer has had it.                          *)
(***************************************************************************)
EXTENDS Naturals

CONSTANTS Events, Consumers  \* the consumers of an event are 1..Consumers

VARIABLES
  announced,  \* events that have been announced
  delivered,  \* <<event, consumer>> pairs that happened at least once
  finished    \* events nobody will deliver again

vars == <<announced, delivered, finished>>

Init == announced = {} /\ delivered = {} /\ finished = {}

Announce(e) ==
  /\ announced' = announced \cup {e}
  /\ UNCHANGED <<delivered, finished>>

Deliver(e, c) ==
  /\ e \in announced
  /\ \A earlier \in 1..(c - 1) : <<e, earlier>> \in delivered
  /\ delivered' = delivered \cup {<<e, c>>}
  /\ UNCHANGED <<announced, finished>>

Finish(e) ==
  /\ e \in announced
  /\ \A c \in 1..Consumers : <<e, c>> \in delivered
  /\ finished' = finished \cup {e}
  /\ UNCHANGED <<announced, delivered>>

Next == \E e \in Events :
          Announce(e) \/ Finish(e) \/ \E c \in 1..Consumers : Deliver(e, c)

Spec == Init /\ [][Next]_vars
=============================================================================
