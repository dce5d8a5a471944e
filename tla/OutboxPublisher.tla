--------------------------- MODULE OutboxPublisher ---------------------------
(***************************************************************************)
(* apps/outbox-publisher: any number of replicas polling one outbox table. *)
(* A cycle of pollOnce() is one database transaction: claim the oldest     *)
(* unpublished rows nobody else has claimed (FOR UPDATE SKIP LOCKED), send *)
(* and mark them one at a time, COMMIT.  Anything that throws rolls the    *)
(* whole batch back.                                                       *)
(*                                                                         *)
(* A row is named by its rank in created_at order.  created_at is when the *)
(* inserting transaction began, so rows may become visible out of order.   *)
(* A row's event id never changes between sends, so the topic carries the  *)
(* row's name; payloads and headers are left out.                          *)
(***************************************************************************)
EXTENDS Naturals, Sequences, FiniteSets

CONSTANTS
  Replicas,      \* publisher processes
  NumRows,       \* bound: rows the API ever inserts
  BatchSize,     \* OUTBOX_BATCH_SIZE
  MaxFailures    \* bound: sends that fail, connections and processes that die

ASSUME NumRowsAssumption == NumRows \in Nat
ASSUME BatchSizeAssumption == BatchSize \in Nat \ {0}
ASSUME MaxFailuresAssumption == MaxFailures \in Nat

VARIABLES
  stage,     \* per outbox row: absent, waiting (published_at is null), published
  claimed,   \* per replica, the rows its transaction has locked
  marked,    \* per replica, those of them it has marked, uncommitted
  pc,        \* per replica: idle, or what it does next with its batch
  inFlight,  \* rows whose send was given up on while the broker may still get it
  topic,     \* event ids in the order the Kafka topic received them
  failures   \* how many things have gone wrong

vars == <<stage, claimed, marked, pc, inFlight, topic, failures>>

Rows == 1..NumRows

Init ==
  /\ stage = [i \in Rows |-> "absent"]
  /\ claimed = [p \in Replicas |-> {}]
  /\ marked = [p \in Replicas |-> {}]
  /\ pc = [p \in Replicas |-> "idle"]
  /\ inFlight = {}
  /\ topic = <<>>
  /\ failures = 0

-----------------------------------------------------------------------------
\* A transaction of the API that inserted row i commits.
InsertCommits(i) ==
  /\ stage[i] = "absent"
  /\ stage' = [stage EXCEPT ![i] = "waiting"]
  /\ UNCHANGED <<claimed, marked, pc, inFlight, topic, failures>>

\* Mutant: FOR UPDATE SKIP LOCKED is gone from the claim query.
ClaimableWithLocked == {i \in Rows : stage[i] = "waiting"}

\* WHERE published_at IS NULL .. FOR UPDATE SKIP LOCKED.
Claimable ==
  {i \in Rows : stage[i] = "waiting" /\ \A p \in Replicas : i \notin claimed[p]}

\* ORDER BY created_at LIMIT batchSize.
IsBatch(S) ==
  /\ S \subseteq Claimable
  /\ \A i \in S, j \in Claimable \ S : i < j
  /\ Cardinality(S) <= BatchSize
  /\ Cardinality(S) < BatchSize => S = Claimable

\* BEGIN and the claim query.  A cycle that claims nothing commits and sleeps:
\* it changes nothing and is no step of this model.
Claim(p) ==
  /\ pc[p] = "idle"
  /\ \E S \in SUBSET Claimable :
       /\ S # {} /\ IsBatch(S)
       /\ claimed' = [claimed EXCEPT ![p] = S]
  /\ pc' = [pc EXCEPT ![p] = "send"]
  /\ UNCHANGED <<stage, marked, inFlight, topic, failures>>

\* The row the loop over the batch is at.
IsCurrent(p, i) ==
  /\ i \in claimed[p] \ marked[p]
  /\ \A j \in claimed[p] \ marked[p] : i <= j

\* Mutant: the send is not awaited.
SendNotAwaited(p) ==
  /\ pc[p] = "send"
  /\ \E i \in Rows : IsCurrent(p, i) /\ inFlight' = inFlight \cup {i}
  /\ pc' = [pc EXCEPT ![p] = "mark"]
  /\ UNCHANGED <<stage, claimed, marked, topic, failures>>

\* producer.send resolves: the broker has the message.
Send(p) ==
  /\ pc[p] = "send"
  /\ \E i \in Rows : IsCurrent(p, i) /\ topic' = Append(topic, i)
  /\ pc' = [pc EXCEPT ![p] = "mark"]
  /\ UNCHANGED <<stage, claimed, marked, inFlight, failures>>

\* The producer's own retry: an attempt got no answer and may still arrive, the
\* next one is acknowledged.
SendRetried(p) ==
  /\ pc[p] = "send" /\ failures < MaxFailures
  /\ \E i \in Rows :
       IsCurrent(p, i) /\ topic' = Append(topic, i) /\ inFlight' = inFlight \cup {i}
  /\ pc' = [pc EXCEPT ![p] = "mark"]
  /\ failures' = failures + 1
  /\ UNCHANGED <<stage, claimed, marked>>

\* MARK_PUBLISHED_QUERY, in the open transaction; then the next row, if any.
Mark(p) ==
  /\ pc[p] = "mark"
  /\ \E i \in Rows :
       /\ IsCurrent(p, i)
       /\ marked' = [marked EXCEPT ![p] = @ \cup {i}]
       /\ pc' = [pc EXCEPT ![p] = IF marked'[p] = claimed[p] THEN "commit" ELSE "send"]
  /\ UNCHANGED <<stage, claimed, inFlight, topic, failures>>

\* Mutant: the client's transaction ends and its bookkeeping stays.
ReleaseKeepingMarks(p) ==
  /\ claimed' = [claimed EXCEPT ![p] = {}]
  /\ pc' = [pc EXCEPT ![p] = "idle"]
  /\ UNCHANGED marked

\* The transaction is over, either way: its locks and its marks are gone.
Release(p) ==
  /\ claimed' = [claimed EXCEPT ![p] = {}]
  /\ marked' = [marked EXCEPT ![p] = {}]
  /\ pc' = [pc EXCEPT ![p] = "idle"]

\* COMMIT.
Commit(p) ==
  /\ pc[p] = "commit"
  /\ stage' = [i \in Rows |-> IF i \in marked[p] THEN "published" ELSE stage[i]]
  /\ Release(p)
  /\ UNCHANGED <<inFlight, topic, failures>>

\* Mutant: the catch block logs and leaves the transaction open.
RollbackMissing(p) == pc' = [pc EXCEPT ![p] = "idle"] /\ UNCHANGED <<stage, claimed, marked>>

\* ROLLBACK, by the catch block or by the server when the connection is lost.
Rollback(p) == Release(p) /\ UNCHANGED stage

\* producer.send rejects (or the process dies): the broker did not get the
\* message, got it and its answer was lost, or may get it at any later time.
SendFails(p) ==
  /\ pc[p] = "send" /\ failures < MaxFailures
  /\ \E i \in Rows :
       /\ IsCurrent(p, i)
       /\ \/ UNCHANGED <<topic, inFlight>>
          \/ topic' = Append(topic, i) /\ UNCHANGED inFlight
          \/ inFlight' = inFlight \cup {i} /\ UNCHANGED topic
  /\ Rollback(p)
  /\ failures' = failures + 1

\* The database connection or the process is lost after a send.
TransactionFails(p) ==
  /\ pc[p] \in {"mark", "commit"} /\ failures < MaxFailures
  /\ Rollback(p)
  /\ failures' = failures + 1
  /\ UNCHANGED <<inFlight, topic>>

\* A send nobody waits for any more reaches the broker after all.
LateDelivery(i) ==
  /\ i \in inFlight
  /\ inFlight' = inFlight \ {i}
  /\ topic' = Append(topic, i)
  /\ UNCHANGED <<stage, claimed, marked, pc, failures>>

Cycle(p) == Claim(p) \/ Send(p) \/ Mark(p) \/ Commit(p)

Next ==
  \/ \E i \in Rows : InsertCommits(i) \/ LateDelivery(i)
  \/ \E p \in Replicas : Cycle(p) \/ SendRetried(p) \/ SendFails(p) \/ TransactionFails(p)

Spec == Init /\ [][Next]_vars

\* main()'s loop polls for as long as the process runs, and each process is
\* restarted; how often a send fails is bounded by MaxFailures, not by fairness.
FairSpec == Spec /\ \A p \in Replicas : WF_vars(Cycle(p))

-----------------------------------------------------------------------------
\* Every variable stays in its domain, and a replica marks only what it claimed.
TypeOK ==
  /\ stage \in [Rows -> {"absent", "waiting", "published"}]
  /\ claimed \in [Replicas -> SUBSET Rows]
  /\ marked \in [Replicas -> SUBSET Rows]
  /\ pc \in [Replicas -> {"idle", "send", "mark", "commit"}]
  /\ inFlight \in SUBSET Rows
  /\ topic \in Seq(Rows)
  /\ failures \in Nat
  /\ \A p \in Replicas : marked[p] \subseteq claimed[p]

\* pollOnce's comment: replicas never hold the same row, so no event is sent by
\* two of them at once, and no replica works on a row already published.
ClaimsAreExclusive ==
  \A p \in Replicas :
    /\ \A q \in Replicas \ {p} : claimed[p] \cap claimed[q] = {}
    /\ \A i \in claimed[p] : stage[i] = "waiting"

Delivery == INSTANCE OutboxDelivery WITH Events <- Rows

\* REQ-3.7: whatever fails, replicas and broker together deliver at least once:
\* an event is retired only after the broker has it, and is never lost.
DeliversAtLeastOnce == Delivery!Spec

\* REQ-3.7: every committed row is published in the end, also when a batch it
\* was in has been rolled back.
EveryRowIsPublished ==
  \A i \in Rows : stage[i] = "waiting" ~> stage[i] = "published"
=============================================================================
