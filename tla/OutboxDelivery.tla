--------------------------- MODULE OutboxDelivery ---------------------------
(***************************************************************************)
(* What the transactional outbox promises (REQ-3.7): at-least-once         *)
(* delivery.  An event whose transaction committed is delivered, possibly  *)
(* more than once and in any order, always under its one event id; it is   *)
(* retired only after a delivery, and every event is retired in the end.   *)
(***************************************************************************)
EXTENDS Naturals, Sequences

CONSTANT Events

VARIABLES
  stage,   \* per event: no row yet, waiting to be published, published
  topic    \* event ids in the order the topic received them

vars == <<stage, topic>>

Init ==
  /\ stage = [e \in Events |-> "absent"]
  /\ topic = <<>>

Submit(e) ==
  /\ stage[e] = "absent"
  /\ stage' = [stage EXCEPT ![e] = "waiting"]
  /\ UNCHANGED topic

\* A duplicate may still arrive after its event was retired.
Deliver(e) ==
  /\ stage[e] # "absent"
  /\ topic' = Append(topic, e)
  /\ UNCHANGED stage

Delivered == {topic[i] : i \in DOMAIN topic}

Retire(S) ==
  /\ S \subseteq {e \in Delivered : stage[e] = "waiting"}
  /\ stage' = [e \in Events |-> IF e \in S THEN "published" ELSE stage[e]]
  /\ UNCHANGED topic

Next ==
  \/ \E e \in Events : Submit(e) \/ Deliver(e)
  \/ \E S \in SUBSET Events : Retire(S)

Spec == Init /\ [][Next]_vars
=============================================================================
