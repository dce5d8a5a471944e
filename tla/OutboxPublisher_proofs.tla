----------------------- MODULE OutboxPublisher_proofs -----------------------
(***************************************************************************)
(* Proofs about OutboxPublisher, for any number of replicas, rows and      *)
(* failures and every batch size: claims are exclusive and every step is a *)
(* step of OutboxDelivery.                                                 *)
(***************************************************************************)
EXTENDS OutboxPublisher, TLAPS

\* An idle replica holds nothing.
IdleInv == \A p \in Replicas : pc[p] = "idle" => claimed[p] = {}

\* Rows are marked, and reach "mark", only once the topic has them.
SentInv ==
  \A p \in Replicas :
    /\ marked[p] \subseteq Delivery!Delivered
    /\ \A i \in Rows : pc[p] = "mark" /\ IsCurrent(p, i) => i \in Delivery!Delivered

\* Only rows that were inserted are in flight.
InFlightInv == \A i \in inFlight : stage[i] # "absent"

OutboxInv == TypeOK /\ ClaimsAreExclusive /\ IdleInv /\ SentInv /\ InFlightInv

\* The invariant holds of an empty outbox.
LEMMA InitOutboxInv == Init => OutboxInv
BY DEF Init, OutboxInv, TypeOK, ClaimsAreExclusive, IdleInv, SentInv,
       InFlightInv, IsCurrent, Rows

\* The topic only grows, so what was delivered stays delivered.
LEMMA AppendDelivers ==
  ASSUME TypeOK, NEW i \in Rows, topic' = Append(topic, i)
  PROVE  /\ topic' \in Seq(Rows)
         /\ Delivery!Delivered \subseteq Delivery!Delivered'
         /\ i \in Delivery!Delivered'
<1>1. /\ topic \in Seq(Rows)
      /\ topic' \in Seq(Rows)
      /\ DOMAIN topic = 1..Len(topic)
      /\ DOMAIN topic' = 1..(Len(topic) + 1)
      /\ Len(topic) \in Nat
      /\ topic'[Len(topic) + 1] = i
      /\ \A k \in 1..Len(topic) : topic'[k] = topic[k]
  BY DEF TypeOK
<1>2. Len(topic) + 1 \in DOMAIN topic' /\ DOMAIN topic \subseteq DOMAIN topic'
  BY <1>1
<1> QED
  BY <1>1, <1>2 DEF Delivery!Delivered

\* Ending a transaction keeps the invariant, whatever became of its last send
\* and of the rows it held.
LEMMA ReleaseInv ==
  ASSUME OutboxInv, NEW p \in Replicas, Release(p),
         topic' = topic \/ \E i \in Rows : topic' = Append(topic, i),
         inFlight' \in SUBSET Rows, \A i \in inFlight' : stage'[i] # "absent",
         failures' \in Nat,
         stage' \in [Rows -> {"absent", "waiting", "published"}],
         \A i \in Rows : stage'[i] # stage[i] => i \in claimed[p]
  PROVE  OutboxInv'
<1> USE DEF OutboxInv
<1>1. topic' \in Seq(Rows) /\ Delivery!Delivered \subseteq Delivery!Delivered'
  BY AppendDelivers DEF TypeOK, Delivery!Delivered
<1>2. TypeOK'
  BY <1>1 DEF TypeOK, Release
<1>3. ClaimsAreExclusive'
  BY DEF ClaimsAreExclusive, Release, TypeOK
<1>4. IdleInv'
  BY DEF IdleInv, Release, TypeOK
<1>5. SentInv'
  BY <1>1 DEF SentInv, Release, TypeOK, IsCurrent
<1> QED
  BY <1>2, <1>3, <1>4, <1>5 DEF InFlightInv

\* A send the broker acknowledged: the one row at the head of the batch is
\* delivered before the replica goes on to mark it.
LEMMA SentRowInv ==
  ASSUME OutboxInv, NEW p \in Replicas, NEW i \in Rows, IsCurrent(p, i),
         topic' = Append(topic, i),
         pc' = [pc EXCEPT ![p] = "mark"],
         inFlight' \in SUBSET (inFlight \cup {i}), failures' \in Nat,
         UNCHANGED <<stage, claimed, marked>>
  PROVE  OutboxInv'
<1> USE DEF OutboxInv
<1>1. /\ topic' \in Seq(Rows)
      /\ Delivery!Delivered \subseteq Delivery!Delivered'
      /\ i \in Delivery!Delivered'
  BY AppendDelivers
<1>2. TypeOK'
  BY <1>1 DEF TypeOK
<1>3. ClaimsAreExclusive' /\ IdleInv'
  BY DEF ClaimsAreExclusive, IdleInv, TypeOK
<1>4. \A j \in Rows : IsCurrent(p, j) => j = i
  BY DEF IsCurrent, Rows
<1>5. SentInv'
  BY <1>1, <1>4 DEF SentInv, TypeOK, IsCurrent
<1>6. InFlightInv'
  BY DEF InFlightInv, IsCurrent, ClaimsAreExclusive, TypeOK
<1> QED
  BY <1>2, <1>3, <1>5, <1>6

\* Rows nobody claimed are nobody's, so a claim of them stays exclusive.
LEMMA ClaimInv ==
  ASSUME OutboxInv, NEW p \in Replicas, Claim(p)
  PROVE  OutboxInv'
<1> USE DEF OutboxInv
<1>1. PICK S \in SUBSET Claimable : claimed' = [claimed EXCEPT ![p] = S]
  BY DEF Claim
<1>2. /\ S \subseteq Rows
      /\ \A i \in S : stage[i] = "waiting" /\ \A q \in Replicas : i \notin claimed[q]
  BY <1>1 DEF Claimable
<1>3. claimed[p] = {} /\ marked[p] = {}
  BY DEF Claim, IdleInv, TypeOK
<1>4. TypeOK'
  BY <1>1, <1>2, <1>3 DEF Claim, TypeOK
<1>5. ClaimsAreExclusive'
  BY <1>1, <1>2 DEF Claim, TypeOK, ClaimsAreExclusive
<1>6. IdleInv'
  BY <1>1 DEF Claim, TypeOK, IdleInv
<1>7. SentInv'
  BY <1>1 DEF Claim, TypeOK, SentInv, IsCurrent, Delivery!Delivered
<1>8. InFlightInv'
  BY DEF Claim, InFlightInv
<1> QED
  BY <1>4, <1>5, <1>6, <1>7, <1>8

\* Marking the row just sent keeps every marked row delivered.
LEMMA MarkInv ==
  ASSUME OutboxInv, NEW p \in Replicas, Mark(p)
  PROVE  OutboxInv'
<1> USE DEF OutboxInv
<1>1. PICK i \in Rows :
        /\ IsCurrent(p, i)
        /\ marked' = [marked EXCEPT ![p] = @ \cup {i}]
        /\ pc' = [pc EXCEPT ![p] = IF marked'[p] = claimed[p] THEN "commit" ELSE "send"]
  BY DEF Mark
<1>2. i \in Delivery!Delivered
  BY <1>1 DEF Mark, SentInv
<1>3. TypeOK'
  BY <1>1 DEF Mark, TypeOK, IsCurrent
<1>4. ClaimsAreExclusive'
  BY DEF Mark, ClaimsAreExclusive
<1>5. IdleInv'
  BY <1>1 DEF Mark, TypeOK, IdleInv
<1>6. SentInv'
  BY <1>1, <1>2 DEF Mark, TypeOK, SentInv, IsCurrent, Delivery!Delivered
<1>7. InFlightInv'
  BY DEF Mark, InFlightInv
<1> QED
  BY <1>3, <1>4, <1>5, <1>6, <1>7

\* A new row is claimed, marked and in flight nowhere.
LEMMA InsertInv ==
  ASSUME OutboxInv, NEW i \in Rows, InsertCommits(i)
  PROVE  OutboxInv'
BY DEF OutboxInv, InsertCommits, TypeOK, ClaimsAreExclusive, IdleInv, SentInv,
       InFlightInv, IsCurrent, Delivery!Delivered

\* COMMIT publishes marked rows only, all of which the topic has.
LEMMA CommitInv ==
  ASSUME OutboxInv, NEW p \in Replicas, Commit(p)
  PROVE  OutboxInv'
<1>1. /\ stage' \in [Rows -> {"absent", "waiting", "published"}]
      /\ \A i \in Rows : stage'[i] # stage[i] => i \in claimed[p]
      /\ \A i \in inFlight' : stage'[i] # "absent"
      /\ inFlight' \in SUBSET Rows /\ failures' \in Nat /\ topic' = topic
  BY DEF OutboxInv, Commit, TypeOK, InFlightInv
<1> QED
  BY <1>1, ReleaseInv DEF Commit

\* A failed send rolls the batch back, wherever the message ended up.
LEMMA SendFailsInv ==
  ASSUME OutboxInv, NEW p \in Replicas, SendFails(p)
  PROVE  OutboxInv'
<1>1. PICK i \in Rows :
        /\ IsCurrent(p, i)
        /\ \/ UNCHANGED <<topic, inFlight>>
           \/ topic' = Append(topic, i) /\ UNCHANGED inFlight
           \/ inFlight' = inFlight \cup {i} /\ UNCHANGED topic
  BY DEF SendFails
<1>2. stage[i] = "waiting"
  BY <1>1 DEF OutboxInv, ClaimsAreExclusive, IsCurrent
<1>3. /\ Release(p) /\ stage' = stage /\ failures' \in Nat
      /\ inFlight' \in SUBSET Rows
      /\ \A j \in inFlight' : stage'[j] # "absent"
      /\ topic' = topic \/ \E j \in Rows : topic' = Append(topic, j)
  BY <1>1, <1>2 DEF OutboxInv, SendFails, Rollback, TypeOK, InFlightInv
<1>4. stage' \in [Rows -> {"absent", "waiting", "published"}]
  BY <1>3 DEF OutboxInv, TypeOK
<1> QED
  BY <1>3, <1>4, ReleaseInv

\* A lost connection rolls the batch back and leaves the topic alone.
LEMMA TransactionFailsInv ==
  ASSUME OutboxInv, NEW p \in Replicas, TransactionFails(p)
  PROVE  OutboxInv'
<1>1. /\ Release(p) /\ stage' = stage /\ failures' \in Nat /\ topic' = topic
      /\ inFlight' \in SUBSET Rows
      /\ \A i \in inFlight' : stage'[i] # "absent"
      /\ stage' \in [Rows -> {"absent", "waiting", "published"}]
  BY DEF OutboxInv, TransactionFails, Rollback, TypeOK, InFlightInv
<1> QED
  BY <1>1, ReleaseInv

\* A late message was sent for a row that exists.
LEMMA LateDeliveryInv ==
  ASSUME OutboxInv, NEW i \in Rows, LateDelivery(i)
  PROVE  OutboxInv'
<1> USE DEF OutboxInv, LateDelivery
<1>1. topic' \in Seq(Rows) /\ Delivery!Delivered \subseteq Delivery!Delivered'
  BY AppendDelivers
<1>2. TypeOK'
  BY <1>1 DEF TypeOK
<1>3. ClaimsAreExclusive' /\ IdleInv' /\ InFlightInv'
  BY DEF ClaimsAreExclusive, IdleInv, InFlightInv
<1>4. SentInv'
  BY <1>1 DEF SentInv, IsCurrent
<1> QED
  BY <1>2, <1>3, <1>4

\* Every step keeps the invariant.
LEMMA NextOutboxInv == OutboxInv /\ [Next]_vars => OutboxInv'
<1> SUFFICES ASSUME OutboxInv, [Next]_vars PROVE OutboxInv'
  OBVIOUS
<1>1. CASE UNCHANGED vars
  BY <1>1 DEF vars, OutboxInv, TypeOK, ClaimsAreExclusive, IdleInv, SentInv,
              InFlightInv, IsCurrent, Delivery!Delivered
<1>2. ASSUME NEW i \in Rows, InsertCommits(i) \/ LateDelivery(i) PROVE OutboxInv'
  BY <1>2, InsertInv, LateDeliveryInv
<1>3. ASSUME NEW p \in Replicas, Send(p) \/ SendRetried(p) PROVE OutboxInv'
  <2>1. PICK i \in Rows :
          /\ IsCurrent(p, i) /\ topic' = Append(topic, i)
          /\ inFlight' \in SUBSET (inFlight \cup {i})
    BY <1>3 DEF Send, SendRetried
  <2>2. /\ pc' = [pc EXCEPT ![p] = "mark"] /\ failures' \in Nat
        /\ UNCHANGED <<stage, claimed, marked>>
    BY <1>3 DEF Send, SendRetried, OutboxInv, TypeOK
  <2> QED
    BY <2>1, <2>2, SentRowInv
<1>4. ASSUME NEW p \in Replicas,
             Claim(p) \/ Mark(p) \/ Commit(p) \/ SendFails(p) \/ TransactionFails(p)
      PROVE  OutboxInv'
  BY <1>4, ClaimInv, MarkInv, CommitInv, SendFailsInv, TransactionFailsInv
<1> QED
  BY <1>1, <1>2, <1>3, <1>4 DEF Next, Cycle

\* The inductive invariant of the publisher.
THEOREM OutboxInvariant == Spec => []OutboxInv
BY InitOutboxInv, NextOutboxInv, PTL DEF Spec

\* Every variable stays in its domain, for any number of replicas and rows.
THEOREM PublisherTypeCorrect == Spec => []TypeOK
<1>1. OutboxInv => TypeOK
  BY DEF OutboxInv
<1> QED
  BY <1>1, OutboxInvariant, PTL

\* No two replicas ever hold one row, nor any replica a published one.
THEOREM ClaimsExclusive == Spec => []ClaimsAreExclusive
<1>1. OutboxInv => ClaimsAreExclusive
  BY DEF OutboxInv
<1> QED
  BY <1>1, OutboxInvariant, PTL

\* Each step of the publisher is a step of the abstract outbox, or none: rows
\* are retired only after the topic has them.
LEMMA StepDelivers ==
  OutboxInv /\ [Next]_vars => [Delivery!Next]_(Delivery!vars)
<1> SUFFICES ASSUME OutboxInv, [Next]_vars
             PROVE  Delivery!Next \/ UNCHANGED <<stage, topic>>
  BY DEF Delivery!vars
<1>1. CASE UNCHANGED vars
  BY <1>1 DEF vars
<1>2. ASSUME NEW i \in Rows, InsertCommits(i) PROVE Delivery!Submit(i)
  BY <1>2 DEF InsertCommits, Delivery!Submit
<1>3. ASSUME NEW i \in Rows, LateDelivery(i) PROVE Delivery!Deliver(i)
  BY <1>3 DEF LateDelivery, Delivery!Deliver, OutboxInv, InFlightInv
<1>4. ASSUME NEW p \in Replicas, Send(p) \/ SendRetried(p) \/ SendFails(p)
      PROVE  (\E i \in Rows : Delivery!Deliver(i)) \/ UNCHANGED <<stage, topic>>
  BY <1>4 DEF Send, SendRetried, SendFails, Rollback, IsCurrent, OutboxInv,
              ClaimsAreExclusive, Delivery!Deliver
<1>5. ASSUME NEW p \in Replicas, Commit(p)
      PROVE  marked[p] \in SUBSET Rows /\ Delivery!Retire(marked[p])
  BY <1>5 DEF Commit, OutboxInv, TypeOK, ClaimsAreExclusive, SentInv, Delivery!Retire
<1>6. ASSUME NEW p \in Replicas, Claim(p) \/ Mark(p) \/ TransactionFails(p)
      PROVE  UNCHANGED <<stage, topic>>
  BY <1>6 DEF Claim, Mark, TransactionFails, Rollback
<1> QED
  BY <1>1, <1>2, <1>3, <1>4, <1>5, <1>6 DEF Next, Cycle, Delivery!Next

\* The publisher implements at-least-once delivery.
THEOREM PublisherImplementsDelivery == Spec => DeliversAtLeastOnce
<1>1. Init => Delivery!Init
  BY DEF Init, Delivery!Init
<1> QED
  BY <1>1, StepDelivers, OutboxInvariant, PTL
     DEF Spec, DeliversAtLeastOnce, Delivery!Spec
=============================================================================
