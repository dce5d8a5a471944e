----------------------- MODULE MissionDetections_proofs -----------------------
(***************************************************************************)
(* Proofs about MissionDetections, for every set of videos, any number of  *)
(* API processes and attempts, and every bound: an event is stored once    *)
(* and relayed only once stored, the tracks of a run are consistent, and   *)
(* what was published is the run that completed.                           *)
(*                                                                         *)
(* StoredOnce is not inductive: an INSERT adds a row whatever is there.    *)
(* What keeps a second row away is decided at the duplicate mark, several  *)
(* steps earlier and possibly in another process, so DetectionsInv follows *)
(* an event from its mark on.                                              *)
(*                                                                         *)
(* TracksAreConsistent is about what the pipeline computes, a fold over    *)
(* the frames of folds over pairs.  RunInv is its invariant from frame to  *)
(* frame; WorkerInv, with it, is the invariant from attempt to attempt.    *)
(***************************************************************************)
EXTENDS MissionDetections, FiniteSetTheorems, TLAPS

Positions == {"idle", "mark", "insert", "relay", "deadletter"}

HandlerType == [pc : Positions, event : Nat, attempt : Nat]

GroupTypeOK ==
  /\ handler \in [Consumers -> HandlerType]
  /\ offset \in Nat
  /\ rows \in Seq(Nat)

\* Past the duplicate mark.
Holding == {"insert", "relay", "deadletter"}

Holds(c, e) == handler[c].pc \in Holding /\ handler[c].event = e

IsStored(e) == \E i \in DOMAIN rows : rows[i] = e

\* What a process holds is marked, and no other process holds it.
HeldOnce ==
  \A c \in Consumers :
    handler[c].pc \in Holding =>
      /\ handler[c].event \in processed
      /\ \A d \in Consumers \ {c} : ~Holds(d, handler[c].event)

\* Only a marked event has a row.
StoredIsMarked == \A i \in DOMAIN rows : rows[i] \in processed

\* Before its INSERT an event has no row that the handler could know of.
NotYetStored ==
  \A c \in Consumers :
    handler[c].pc = "insert" /\ IsStored(handler[c].event) => handler[c].event \in unsure

\* Before its relay it has one.
StoredBeforeRelay ==
  \A c \in Consumers : handler[c].pc = "relay" => IsStored(handler[c].event)

DetectionsInv ==
  /\ GroupTypeOK /\ HeldOnce /\ StoredIsMarked
  /\ NotYetStored /\ StoredBeforeRelay /\ StoredOnce

-----------------------------------------------------------------------------
\* Nothing is delivered at first.
LEMMA InitDetectionsInv == Init => DetectionsInv
<1> SUFFICES ASSUME Init PROVE DetectionsInv
  OBVIOUS
<1>1. Waiting \in HandlerType
  BY DEF Waiting, HandlerType, Positions
<1>2. \A c \in Consumers : handler[c].pc = "idle"
  BY DEF Init, Waiting
<1>3. rows = <<>> /\ relayed = {}
  BY DEF Init
<1>4. GroupTypeOK
  BY <1>1 DEF Init, GroupTypeOK
<1> QED
  BY <1>2, <1>3, <1>4
     DEF DetectionsInv, HeldOnce, StoredIsMarked, NotYetStored, StoredBeforeRelay,
         StoredOnce, Holding

\* A process moves; the others stay where they are.
LEMMA OtherProcesses ==
  ASSUME DetectionsInv, NEW c \in Consumers, NEW h \in HandlerType,
         handler' = [handler EXCEPT ![c] = h]
  PROVE  /\ handler' \in [Consumers -> HandlerType]
         /\ handler'[c] = h
         /\ \A d \in Consumers \ {c} : handler'[d] = handler[d]
BY DEF DetectionsInv, GroupTypeOK

\* A process that lets go of its event, or takes one it has not marked, leaves
\* the invariant as it is: rows and relays do not move, marks only grow.
LEMMA ReleaseKeepsInv ==
  ASSUME DetectionsInv, NEW c \in Consumers, NEW h \in HandlerType, h.pc \notin Holding,
         handler' = [handler EXCEPT ![c] = h],
         offset' \in Nat, processed \subseteq processed',
         UNCHANGED <<rows, unsure>>, \A e \in relayed' : IsStored(e)
  PROVE  DetectionsInv'
<1>1. /\ handler' \in [Consumers -> HandlerType]
      /\ handler'[c] = h
      /\ \A d \in Consumers \ {c} : handler'[d] = handler[d]
  BY OtherProcesses
<1>2. GroupTypeOK'
  BY <1>1 DEF DetectionsInv, GroupTypeOK
<1>3. HeldOnce'
  BY <1>1 DEF DetectionsInv, HeldOnce, Holds
<1>4. StoredIsMarked'
  BY DEF DetectionsInv, StoredIsMarked
<1>5. NotYetStored' /\ StoredBeforeRelay'
  BY <1>1 DEF DetectionsInv, NotYetStored, StoredBeforeRelay, IsStored, Holding
<1>6. StoredOnce'
  BY DEF DetectionsInv, StoredOnce, IsStored
<1> QED
  BY <1>2, <1>3, <1>4, <1>5, <1>6 DEF DetectionsInv

\* What the worker and a rebalance leave alone is all the invariant speaks of.
LEMMA OffsetKeepsInv ==
  ASSUME DetectionsInv, offset' \in Nat,
         UNCHANGED <<processed, handler, rows, relayed, unsure>>
  PROVE  DetectionsInv'
BY DEF DetectionsInv, GroupTypeOK, HeldOnce, Holds, StoredIsMarked, NotYetStored,
       StoredBeforeRelay, IsStored, StoredOnce

\* eachMessage returned: the process waits, the offset stays a number.
LEMMA ResolveLetsGo ==
  ASSUME DetectionsInv, NEW c \in Consumers, Resolve(c)
  PROVE  handler' = [handler EXCEPT ![c] = Waiting] /\ offset' \in Nat
BY DEF Resolve, DetectionsInv, GroupTypeOK, HandlerType

\* A process that waits holds nothing.
LEMMA WaitingHoldsNothing == Waiting \in HandlerType /\ Waiting.pc \notin Holding
BY DEF Waiting, HandlerType, Positions, Holding

\* What a process relays has been stored.
LEMMA RelayedIsStored == DetectionsInv => \A e \in relayed : IsStored(e)
BY DEF DetectionsInv, StoredOnce, IsStored

-----------------------------------------------------------------------------
\* A new mark: nobody holds the event yet, and it has no row.
LEMMA MarkKeepsInv ==
  ASSUME DetectionsInv, NEW c \in Consumers, Mark(c)
  PROVE  DetectionsInv'
<1> DEFINE e == handler[c].event
<1>1. handler[c] \in HandlerType
  BY DEF DetectionsInv, GroupTypeOK
<1>2. CASE e \in processed
  <2>1. handler' = [handler EXCEPT ![c] = Waiting] /\ offset' \in Nat
    BY <1>2, ResolveLetsGo DEF Mark
  <2> QED
    BY <2>1, ReleaseKeepsInv, WaitingHoldsNothing, RelayedIsStored DEF Mark, tableVars
<1>3. CASE e \notin processed
  <2> DEFINE h == [handler[c] EXCEPT !.pc = "insert"]
  <2>1. h \in HandlerType /\ h.pc = "insert" /\ h.event = e
    BY <1>1 DEF HandlerType, Positions
  <2>2. handler' = [handler EXCEPT ![c] = h] /\ UNCHANGED <<offset, rows, relayed, unsure>>
        /\ processed' = processed \cup {e}
    BY <1>3 DEF Mark, Goto, tableVars
  <2> HIDE DEF h
  <2>3. /\ handler' \in [Consumers -> HandlerType]
        /\ handler'[c] = h
        /\ \A d \in Consumers \ {c} : handler'[d] = handler[d]
    BY <2>1, <2>2, OtherProcesses
  <2>4. \A d \in Consumers : ~Holds(d, e)
    BY <1>3 DEF DetectionsInv, HeldOnce, Holds
  <2>5. ~IsStored(e)
    BY <1>3 DEF DetectionsInv, StoredIsMarked, IsStored
  <2>6. HeldOnce'
    BY <2>1, <2>2, <2>3, <2>4 DEF DetectionsInv, HeldOnce, Holds
  <2>7. NotYetStored' /\ StoredBeforeRelay'
    BY <2>1, <2>2, <2>3, <2>5
       DEF DetectionsInv, NotYetStored, StoredBeforeRelay, IsStored
  <2> QED
    BY <2>2, <2>3, <2>6, <2>7
       DEF DetectionsInv, GroupTypeOK, StoredIsMarked, StoredOnce
<1> QED
  BY <1>2, <1>3

\* A row for an event the process holds: an earlier one is a lost answer's.
LEMMA AddedRow ==
  ASSUME DetectionsInv, NEW c \in Consumers, handler[c].pc = "insert",
         rows' = Append(rows, handler[c].event)
  PROVE  /\ rows' \in Seq(Nat)
         /\ \A i \in DOMAIN rows' : rows'[i] \in processed
         /\ \A e : IsStored(e)' <=> IsStored(e) \/ e = handler[c].event
         /\ \A i, j \in DOMAIN rows' : i # j /\ rows'[i] = rows'[j] => rows'[i] \in unsure
<1> DEFINE e == handler[c].event
<1>1. rows \in Seq(Nat) /\ e \in Nat
  BY DEF DetectionsInv, GroupTypeOK, HandlerType
<1>2. /\ rows' \in Seq(Nat)
      /\ DOMAIN rows' = DOMAIN rows \cup {Len(rows) + 1}
      /\ \A i \in DOMAIN rows : rows'[i] = rows[i]
      /\ rows'[Len(rows) + 1] = e
  BY <1>1
<1>3. e \in processed /\ (IsStored(e) => e \in unsure)
  BY DEF DetectionsInv, HeldOnce, NotYetStored, Holding
<1> HIDE DEF e
<1>4. \A i \in DOMAIN rows' : rows'[i] \in processed
  BY <1>2, <1>3 DEF DetectionsInv, StoredIsMarked
<1>5. \A x : IsStored(x)' <=> IsStored(x) \/ x = e
  BY <1>2 DEF IsStored
<1>6. \A i, j \in DOMAIN rows' : i # j /\ rows'[i] = rows'[j] => rows'[i] \in unsure
  BY <1>2, <1>3 DEF DetectionsInv, StoredOnce, IsStored
<1> QED
  BY <1>2, <1>4, <1>5, <1>6 DEF e

\* The row is added once: nobody else is about to insert this event.
LEMMA InsertKeepsInv ==
  ASSUME DetectionsInv, NEW c \in Consumers, Insert(c)
  PROVE  DetectionsInv'
<1> DEFINE e == handler[c].event
           h == [handler[c] EXCEPT !.pc = "relay"]
<1>1. handler[c] \in HandlerType
  BY DEF DetectionsInv, GroupTypeOK
<1>2. h \in HandlerType /\ h.pc = "relay" /\ h.event = e
  BY <1>1 DEF HandlerType, Positions
<1>3. /\ handler[c].pc = "insert"
      /\ handler' = [handler EXCEPT ![c] = h]
      /\ rows' = Append(rows, e)
      /\ UNCHANGED <<offset, processed, relayed, unsure>>
  BY DEF Insert, At, Goto
<1>4. /\ rows' \in Seq(Nat)
      /\ \A i \in DOMAIN rows' : rows'[i] \in processed
      /\ \A x : IsStored(x)' <=> IsStored(x) \/ x = e
      /\ \A i, j \in DOMAIN rows' : i # j /\ rows'[i] = rows'[j] => rows'[i] \in unsure
  BY <1>3, AddedRow
<1> HIDE DEF h
<1>5. /\ handler' \in [Consumers -> HandlerType]
      /\ handler'[c] = h
      /\ \A d \in Consumers \ {c} : handler'[d] = handler[d]
  BY <1>2, <1>3, OtherProcesses
<1>6. e \in processed /\ \A d \in Consumers \ {c} : ~Holds(d, e)
  BY <1>3 DEF DetectionsInv, HeldOnce, Holding
<1>7. HeldOnce'
  BY <1>2, <1>3, <1>5, <1>6 DEF DetectionsInv, HeldOnce, Holds, Holding
<1>8. NotYetStored'
  BY <1>2, <1>3, <1>4, <1>5, <1>6 DEF DetectionsInv, NotYetStored, Holds, Holding
<1>9. StoredBeforeRelay'
  BY <1>2, <1>4, <1>5 DEF DetectionsInv, StoredBeforeRelay
<1>10. StoredOnce'
  <2>1. \A x \in relayed' : IsStored(x)'
    BY <1>3, <1>4, RelayedIsStored
  <2> QED
    BY <1>3, <1>4, <2>1 DEF StoredOnce, IsStored
<1> QED
  BY <1>3, <1>4, <1>5, <1>7, <1>8, <1>9, <1>10
     DEF DetectionsInv, GroupTypeOK, StoredIsMarked

\* An INSERT that is repeated, or given up, keeps its event; if it was applied
\* the event is among the unsure ones.
LEMMA InsertFailsKeepsInv ==
  ASSUME DetectionsInv, NEW c \in Consumers, InsertFails(c)
  PROVE  DetectionsInv'
<1> DEFINE e == handler[c].event
           h == Retried(handler[c])
<1>1. handler[c] \in HandlerType /\ handler[c].pc = "insert"
  BY DEF DetectionsInv, GroupTypeOK, InsertFails, At
<1>2. h \in HandlerType /\ h.pc \in {"insert", "deadletter"} /\ h.event = e
  BY <1>1 DEF Retried, HandlerType, Positions
<1>3. handler' = [handler EXCEPT ![c] = h] /\ UNCHANGED <<offset, processed, relayed>>
  BY DEF InsertFails
<1> HIDE DEF h
<1>4. /\ handler' \in [Consumers -> HandlerType]
      /\ handler'[c] = h
      /\ \A d \in Consumers \ {c} : handler'[d] = handler[d]
  BY <1>2, <1>3, OtherProcesses
<1>5. e \in processed /\ \A d \in Consumers \ {c} : ~Holds(d, e)
  BY <1>1 DEF DetectionsInv, HeldOnce, Holding
<1>6. HeldOnce'
  BY <1>1, <1>2, <1>3, <1>4, <1>5 DEF DetectionsInv, HeldOnce, Holds, Holding
<1>7. CASE UNCHANGED <<rows, unsure>>
  <2>1. NotYetStored' /\ StoredBeforeRelay'
    BY <1>1, <1>2, <1>4, <1>7
       DEF DetectionsInv, NotYetStored, StoredBeforeRelay, IsStored
  <2> QED
    BY <1>3, <1>4, <1>6, <1>7, <2>1
       DEF DetectionsInv, GroupTypeOK, StoredIsMarked, StoredOnce
<1>8. CASE rows' = Append(rows, e) /\ unsure' = unsure \cup {e}
  <2>1. /\ rows' \in Seq(Nat)
        /\ \A i \in DOMAIN rows' : rows'[i] \in processed
        /\ \A x : IsStored(x)' <=> IsStored(x) \/ x = e
        /\ \A i, j \in DOMAIN rows' : i # j /\ rows'[i] = rows'[j] => rows'[i] \in unsure
    BY <1>1, <1>8, AddedRow
  <2>2. NotYetStored' /\ StoredBeforeRelay'
    BY <1>1, <1>2, <1>4, <1>8, <2>1 DEF DetectionsInv, NotYetStored, StoredBeforeRelay
  <2>3. \A x \in relayed' : IsStored(x)'
    BY <1>3, <2>1, RelayedIsStored
  <2>4. StoredOnce'
    BY <1>8, <2>1, <2>3 DEF StoredOnce, IsStored
  <2> QED
    BY <1>3, <1>4, <1>6, <2>1, <2>2, <2>4 DEF DetectionsInv, GroupTypeOK, StoredIsMarked
<1> QED
  BY <1>7, <1>8 DEF InsertFails

-----------------------------------------------------------------------------
\* The other steps of a process: it takes a message, or lets one go.
LEMMA OtherStepsKeepInv ==
  ASSUME DetectionsInv, NEW c \in Consumers,
         \/ Deliver(c) \/ MarkFails(c) \/ Relay(c)
         \/ DeadLetter(c) \/ DeadLetterFails(c) \/ Kill(c)
  PROVE  DetectionsInv'
<1>0. handler[c] \in HandlerType /\ offset \in Nat
  BY DEF DetectionsInv, GroupTypeOK
<1>1. CASE Deliver(c)
  <2> DEFINE h == [pc |-> "mark", event |-> offset + 1, attempt |-> 1]
  <2>1. h \in HandlerType /\ h.pc \notin Holding
    BY <1>0 DEF HandlerType, Positions, Holding
  <2>2. /\ handler' = [handler EXCEPT ![c] = h]
        /\ UNCHANGED <<offset, processed, rows, unsure, relayed>>
    BY <1>1 DEF Deliver, tableVars
  <2> HIDE DEF h
  <2> QED
    BY <1>0, <2>1, <2>2, ReleaseKeepsInv, RelayedIsStored
<1>2. CASE MarkFails(c)
  <2>1. /\ handler' = [handler EXCEPT ![c] = Waiting]
        /\ processed \subseteq processed'
        /\ UNCHANGED <<offset, rows, unsure, relayed>>
    BY <1>2 DEF MarkFails, Throw
  <2> QED
    BY <1>0, <2>1, ReleaseKeepsInv, WaitingHoldsNothing, RelayedIsStored
<1>3. CASE Relay(c)
  <2>1. handler' = [handler EXCEPT ![c] = Waiting] /\ offset' \in Nat
    BY <1>3, ResolveLetsGo DEF Relay
  <2>2. IsStored(handler[c].event)
    BY <1>3 DEF Relay, At, DetectionsInv, StoredBeforeRelay
  <2>3. \A e \in relayed' : IsStored(e)
    BY <1>3, <2>2, RelayedIsStored DEF Relay
  <2>4. UNCHANGED <<processed, rows, unsure>>
    BY <1>3 DEF Relay
  <2> QED
    BY <2>1, <2>3, <2>4, ReleaseKeepsInv, WaitingHoldsNothing
<1>4. CASE DeadLetter(c)
  <2>1. handler' = [handler EXCEPT ![c] = Waiting] /\ offset' \in Nat
    BY <1>4, ResolveLetsGo DEF DeadLetter
  <2> QED
    BY <1>4, <2>1, ReleaseKeepsInv, WaitingHoldsNothing, RelayedIsStored DEF DeadLetter
<1>5. CASE DeadLetterFails(c)
  <2>1. /\ handler' = [handler EXCEPT ![c] = Waiting]
        /\ UNCHANGED <<offset, processed, rows, unsure, relayed>>
    BY <1>5 DEF DeadLetterFails, Throw
  <2> QED
    BY <1>0, <2>1, ReleaseKeepsInv, WaitingHoldsNothing, RelayedIsStored
<1>6. CASE Kill(c)
  <2>1. offset' \in Nat
    BY <1>0, <1>6 DEF Kill, Resume
  <2>2. /\ handler' = [handler EXCEPT ![c] = Waiting]
        /\ UNCHANGED <<processed, rows, unsure, relayed>>
    BY <1>6 DEF Kill
  <2> QED
    BY <2>1, <2>2, ReleaseKeepsInv, WaitingHoldsNothing, RelayedIsStored
<1> QED
  BY <1>1, <1>2, <1>3, <1>4, <1>5, <1>6

\* Every step keeps the invariant.
LEMMA NextDetectionsInv == DetectionsInv /\ [Next]_vars => DetectionsInv'
<1> SUFFICES ASSUME DetectionsInv, [Next]_vars PROVE DetectionsInv'
  OBVIOUS
<1>0. offset \in Nat
  BY DEF DetectionsInv, GroupTypeOK
<1>1. CASE WorkerStep \/ StageFails
  <2>1. UNCHANGED <<offset, processed, handler, rows, relayed, unsure>>
    BY <1>1 DEF WorkerStep, RunPipeline, Publish, Complete, StageFails, groupVars, tableVars
  <2> QED
    BY <1>0, <2>1, OffsetKeepsInv
<1>2. CASE Reassign
  <2>1. offset' \in Nat /\ UNCHANGED <<processed, handler, rows, relayed, unsure>>
    BY <1>0, <1>2 DEF Reassign, Resume, tableVars
  <2> QED
    BY <2>1, OffsetKeepsInv
<1>3. ASSUME NEW c \in Consumers, HandlerStep(c)
      PROVE  DetectionsInv'
  BY <1>3, MarkKeepsInv, InsertKeepsInv, OtherStepsKeepInv DEF HandlerStep
<1>4. ASSUME NEW c \in Consumers, Kill(c) \/ MarkFails(c) \/ InsertFails(c) \/ DeadLetterFails(c)
      PROVE  DetectionsInv'
  BY <1>4, InsertFailsKeepsInv, OtherStepsKeepInv
<1>5. CASE UNCHANGED vars
  <2>1. UNCHANGED <<offset, processed, handler, rows, relayed, unsure>>
    BY <1>5 DEF vars, groupVars, tableVars
  <2> QED
    BY <1>0, <2>1, OffsetKeepsInv
<1> QED
  BY <1>1, <1>2, <1>3, <1>4, <1>5 DEF Next

-----------------------------------------------------------------------------
\* The inductive invariant holds always.
THEOREM DetectionsInvariant == Spec => []DetectionsInv
BY InitDetectionsInv, NextDetectionsInv, PTL DEF Spec

\* REQ-6.1: over redeliveries, kills and processes that work on the same
\* message, an event gets a second row only if the answer to the INSERT of the
\* first was lost, and is relayed only once stored (detections.handler.ts).
THEOREM DetectionsStoredOnce == Spec => []StoredOnce
<1>1. DetectionsInv => StoredOnce
  BY DEF DetectionsInv
<1> QED
  BY <1>1, DetectionsInvariant, PTL

-----------------------------------------------------------------------------
(* Sequences and sets of positions. *)

\* A set of naturals that is not empty has a least member.
LEMMA LeastNatural ==
  ASSUME NEW T, T \subseteq Nat, T # {}
  PROVE  \E n \in T : \A m \in T : n <= m
<1> DEFINE R == OpToRel(<, Nat)
<1>1. IsWellFoundedOn(R, Nat)
  BY NatLessThanWellFounded
<1>2. \A x, y \in Nat : <<x, y>> \in R <=> x < y
  <2>1. R = {ss \in Nat \X Nat : ss[1] < ss[2]}
    BY DEF OpToRel
  <2> QED
    BY <2>1
<1> HIDE DEF R
<1>3. PICK x \in T : \A y \in T : ~(<<y, x>> \in R)
  BY <1>1, WFMin
<1>4. \A y \in T : ~(y < x)
  BY <1>2, <1>3
<1>5. \A y \in T : x <= y
  BY <1>4
<1> QED
  BY <1>5

\* A set that holds 0, and with a number the next one, holds them all.
LEMMA Counting ==
  ASSUME NEW S, 0 \in S, \A n \in Nat : n \in S => n + 1 \in S
  PROVE  Nat \subseteq S
<1> SUFFICES ASSUME Nat \ S # {} PROVE FALSE
  OBVIOUS
<1>1. PICK n \in Nat \ S : \A m \in Nat \ S : n <= m
  <2>1. Nat \ S \subseteq Nat
    OBVIOUS
  <2> QED
    BY <2>1, LeastNatural
<1>2. n - 1 \in Nat /\ n - 1 \in S
  BY <1>1
<1> QED
  BY <1>1, <1>2

\* A strict total order of the members of S.
IsOrder(S, R) ==
  /\ \A p \in S : <<p, p>> \notin R
  /\ \A p, q \in S : p # q => <<p, q>> \in R \/ <<q, p>> \in R
  /\ \A p, q, r \in S : <<p, q>> \in R /\ <<q, r>> \in R => <<p, r>> \in R

\* Sorted lists a finite set, every member once and in order: the ranks of its
\* members are different numbers below its size, so all of them are taken.
LEMMA SortedLists ==
  ASSUME NEW S, IsFiniteSet(S), NEW R, IsOrder(S, R)
  PROVE  /\ Cardinality(S) \in Nat
         /\ Sorted(S, R) \in [1..Cardinality(S) -> S]
         /\ \A i, j \in 1..Cardinality(S) : i < j => <<Sorted(S, R)[i], Sorted(S, R)[j]>> \in R
<1> DEFINE n == Cardinality(S)
           Earlier(p) == {q \in S : <<q, p>> \in R}
           rank == [p \in S |-> Cardinality(Earlier(p))]
           s == Sorted(S, R)
<1>1. n \in Nat
  BY FS_CardinalityType
<1>2. ASSUME NEW p \in S
      PROVE  IsFiniteSet(Earlier(p)) /\ Cardinality(Earlier(p)) \in 0..(n - 1)
  <2>1. IsFiniteSet(S \ {p}) /\ Cardinality(S \ {p}) = n - 1
    BY FS_RemoveElement
  <2>2. Earlier(p) \in SUBSET (S \ {p})
    BY DEF IsOrder
  <2>3. IsFiniteSet(Earlier(p)) /\ Cardinality(Earlier(p)) <= n - 1
    <3> HIDE DEF Earlier, n
    <3> QED
      BY <2>1, <2>2, FS_Subset
  <2>4. Cardinality(Earlier(p)) \in Nat
    BY <2>3, FS_CardinalityType
  <2> HIDE DEF Earlier
  <2> QED
    BY <1>1, <2>3, <2>4
<1>3. ASSUME NEW p \in S, NEW q \in S, <<p, q>> \in R
      PROVE  rank[p] < rank[q]
  <2>1. p \in Earlier(q) /\ p \notin Earlier(p) /\ Earlier(p) \in SUBSET Earlier(q)
    BY <1>3 DEF IsOrder
  <2>2. IsFiniteSet(Earlier(p)) /\ IsFiniteSet(Earlier(q))
    BY <1>2
  <2>3. rank[p] = Cardinality(Earlier(p)) /\ rank[q] = Cardinality(Earlier(q))
    OBVIOUS
  <2>4. Cardinality(Earlier(p)) \in Nat /\ Cardinality(Earlier(q)) \in Nat
    BY <2>2, FS_CardinalityType
  <2>5. Cardinality(Earlier(p)) <= Cardinality(Earlier(q))
       /\ Cardinality(Earlier(p)) # Cardinality(Earlier(q))
    <3> HIDE DEF Earlier
    <3> QED
      BY <2>1, <2>2, FS_Subset
  <2> HIDE DEF Earlier, rank
  <2> QED
    BY <2>3, <2>4, <2>5
<1>4. rank \in [S -> 0..(n - 1)]
  BY <1>2
<1>5. rank \in Injection(S, 0..(n - 1))
  <2>1. ASSUME NEW p \in S, NEW q \in S, p # q
        PROVE  rank[p] # rank[q]
    <3>1. rank[p] \in Int /\ rank[q] \in Int
      BY <1>4
    <3>2. rank[p] < rank[q] \/ rank[q] < rank[p]
      BY <1>3, <2>1 DEF IsOrder
    <3> HIDE DEF rank
    <3> QED
      BY <3>1, <3>2
  <2> HIDE DEF rank
  <2> QED
    BY <1>4, <2>1 DEF Injection, IsInjective
<1>6. rank \in Surjection(S, 0..(n - 1))
  <2>1. IsFiniteSet(0..(n - 1)) /\ Cardinality(0..(n - 1)) = n
    BY <1>1, FS_Interval
  <2> HIDE DEF rank
  <2> QED
    BY <1>5, <2>1, FS_Injection
<1>7. ASSUME NEW k \in 1..n
      PROVE  s[k] \in S /\ rank[s[k]] = k - 1
  <2>1. k - 1 \in 0..(n - 1)
    BY <1>1
  <2>2. \E p \in S : rank[p] = k - 1
    <3> HIDE DEF rank
    <3> QED
      BY <1>6, <2>1 DEF Surjection
  <2>3. \E p \in S : Cardinality(Earlier(p)) = k - 1
    BY <2>2
  <2>4. s[k] = CHOOSE p \in S : Cardinality(Earlier(p)) = k - 1
    BY DEF Sorted
  <2>5. s[k] \in S /\ Cardinality(Earlier(s[k])) = k - 1
    <3> HIDE DEF s, Earlier
    <3> QED
      BY <2>3, <2>4
  <2> HIDE DEF s, Earlier
  <2> QED
    BY <2>5
<1>8. ASSUME NEW i \in 1..n, NEW j \in 1..n, i < j
      PROVE  <<s[i], s[j]>> \in R
  <2>1. s[i] \in S /\ s[j] \in S /\ rank[s[i]] = i - 1 /\ rank[s[j]] = j - 1
    BY <1>7
  <2> HIDE DEF s, rank
  <2>2. s[i] # s[j] /\ ~(rank[s[j]] < rank[s[i]])
    BY <1>8, <2>1, <1>1
  <2>3. ~(<<s[j], s[i]>> \in R)
    BY <1>3, <2>1, <2>2
  <2> QED
    BY <2>1, <2>2, <2>3 DEF IsOrder
<1>9. s \in [1..n -> S]
  <2>1. \A k \in 1..n : s[k] \in S
    BY <1>7
  <2> QED
    BY <2>1 DEF Sorted
<1> QED
  BY <1>1, <1>8, <1>9

\* Picked keeps elements of s, at increasing positions of K.
LEMMA PickedElements ==
  ASSUME NEW T, NEW s \in Seq(T), NEW K \in SUBSET DOMAIN s
  PROVE  /\ Picked(s, K) \in Seq(T)
         /\ \E at \in [DOMAIN Picked(s, K) -> K] :
              /\ \A i \in DOMAIN Picked(s, K) : Picked(s, K)[i] = s[at[i]]
              /\ \A i, j \in DOMAIN Picked(s, K) : i < j => at[i] < at[j]
<1> DEFINE R == {p \in K \X K : p[1] < p[2]}
           at == Sorted(K, R)
           n == Cardinality(K)
<1>1. IsFiniteSet(K) /\ K \subseteq Nat
  <2>1. DOMAIN s = 1..Len(s) /\ Len(s) \in Nat
    OBVIOUS
  <2>2. IsFiniteSet(DOMAIN s)
    BY <2>1, FS_Interval
  <2> QED
    BY <2>1, <2>2, FS_Subset
<1>2. \A p, q \in K : <<p, q>> \in R <=> p < q
  OBVIOUS
<1>3. IsOrder(K, R)
  <2> HIDE DEF R
  <2> QED
    BY <1>1, <1>2 DEF IsOrder
<1>4. /\ n \in Nat
      /\ at \in [1..n -> K]
      /\ \A i, j \in 1..n : i < j => <<at[i], at[j]>> \in R
  <2> HIDE DEF R
  <2> QED
    BY <1>1, <1>3, SortedLists
<1>5. Picked(s, K) = [i \in DOMAIN at |-> s[at[i]]]
  BY DEF Picked
<1> HIDE DEF at, R, n
<1>6. DOMAIN Picked(s, K) = 1..n /\ \A i \in 1..n : Picked(s, K)[i] = s[at[i]]
  BY <1>4, <1>5
<1>7. \A i \in 1..n : at[i] \in DOMAIN s
  BY <1>4
<1>8. \A i \in 1..n : s[at[i]] \in T
  BY <1>7
<1>9. Picked(s, K) \in Seq(T)
  <2>1. Picked(s, K) = [i \in 1..n |-> s[at[i]]]
    BY <1>4, <1>5
  <2> QED
    BY <1>4, <1>8, <2>1
<1>10. \A i, j \in 1..n : i < j => at[i] < at[j]
  BY <1>2, <1>4
<1> QED
  BY <1>4, <1>6, <1>9, <1>10

-----------------------------------------------------------------------------
(* The order of the candidate pairs. *)

TrackTypes == [id : Nat, label : STRING, box : Boxes, misses : Nat]

\* A positive factor keeps an inequality.
LEMMA Times ==
  ASSUME NEW a \in Int, NEW b \in Int, NEW c \in Nat, c > 0
  PROVE  a > b <=> a * c > b * c
<1>1. a > b => a * c > b * c
  <2> SUFFICES ASSUME a > b PROVE a * c > b * c
    OBVIOUS
  <2>1. (a - b) * c > 0
    BY Z3
  <2> QED
    BY <2>1, Z3
<1>2. a * c > b * c => a > b
  <2> SUFFICES ASSUME ~(a > b) PROVE ~(a * c > b * c)
    OBVIOUS
  <2>1. (b - a) * c >= 0
    BY Z3
  <2> QED
    BY <2>1, Z3
<1> QED
  BY <1>1, <1>2

\* Fractions x/u, y/v, z/w are compared by cross products, and in one order.
LEMMA Fractions ==
  ASSUME NEW x \in Nat, NEW y \in Nat, NEW z \in Nat,
         NEW u \in Nat, NEW v \in Nat, NEW w \in Nat, u > 0, v > 0, w > 0
  PROVE  /\ x * v > y * u /\ ~(z * v > y * w) => x * w > z * u
         /\ ~(y * u > x * v) /\ y * w > z * v => x * w > z * u
         /\ ~(y * u > x * v) /\ ~(z * v > y * w) => ~(z * u > x * w)
<1> DEFINE A == x * v  B == y * u  C == y * w  D == z * v  E == x * w  F == z * u
<1>1. A \in Int /\ B \in Int /\ C \in Int /\ D \in Int /\ E \in Int /\ F \in Int
  OBVIOUS
<1>2. A * w = E * v /\ B * w = C * u /\ D * u = F * v
  <2>1. (x * v) * w = (x * w) * v
    BY Z3
  <2>2. (y * u) * w = (y * w) * u
    BY Z3
  <2>3. (z * v) * u = (z * u) * v
    BY Z3
  <2> QED
    BY <2>1, <2>2, <2>3
<1> HIDE DEF A, B, C, D, E, F
<1>3. /\ A > B <=> A * w > B * w
      /\ B > A <=> B * w > A * w
      /\ C > D <=> C * u > D * u
      /\ D > C <=> D * u > C * u
      /\ E > F <=> E * v > F * v
      /\ F > E <=> F * v > E * v
  BY <1>1, Times
<1> DEFINE K == A * w  L == B * w  M == D * u
<1>4. K \in Int /\ L \in Int /\ M \in Int
  BY <1>1
<1>5. /\ A > B <=> K > L
      /\ B > A <=> L > K
      /\ C > D <=> L > M
      /\ D > C <=> M > L
      /\ E > F <=> K > M
      /\ F > E <=> M > K
  BY <1>2, <1>3
<1> HIDE DEF K, L, M
<1>6. /\ A > B /\ ~(D > C) => E > F
      /\ ~(B > A) /\ C > D => E > F
      /\ ~(B > A) /\ ~(D > C) => ~(F > E)
  BY <1>4, <1>5
<1> QED
  BY <1>6 DEF A, B, C, D, E, F

\* Boxes that overlap have an area in common and one in all.
LEMMA Overlap ==
  ASSUME NEW a \in Boxes, NEW b \in Boxes
  PROVE  /\ Intersection(a, b) \in Nat
         /\ Overlaps(a, b) => Union(a, b) \in Nat /\ Union(a, b) > 0
<1>1. a.at \in Int /\ a.size \in Nat /\ b.at \in Int /\ b.size \in Nat
  BY DEF Boxes
<1>2. Intersection(a, b) \in Nat
  BY <1>1 DEF Intersection
<1> QED
  BY <1>1, <1>2 DEF Overlaps, Union

\* The candidate pairs are finitely many, and Before puts them in one order.
LEMMA BeforeIsOrder ==
  ASSUME NEW tracks \in Seq(TrackTypes), NEW detections \in Seq(Reports)
  PROVE  LET pairs == Candidates(tracks, detections)
         IN  /\ IsFiniteSet(pairs)
             /\ IsOrder(pairs, {o \in pairs \X pairs : Before(tracks, detections, o[1], o[2])})
<1> DEFINE S == Candidates(tracks, detections)
           R == {o \in S \X S : Before(tracks, detections, o[1], o[2])}
           I(p) == Intersection(tracks[p[1]].box, detections[p[2]].box)
           U(p) == Union(tracks[p[1]].box, detections[p[2]].box)
           Closer(p, q) == I(p) * U(q) > I(q) * U(p)
           Lex(p, q) == p[1] < q[1] \/ (p[1] = q[1] /\ p[2] < q[2])
<1>1. ASSUME NEW p \in S
      PROVE  /\ p[1] \in 1..Len(tracks) /\ p[2] \in 1..Len(detections)
             /\ p = <<p[1], p[2]>>
             /\ I(p) \in Nat /\ U(p) \in Nat /\ U(p) > 0
  <2>1. /\ p[1] \in DOMAIN tracks /\ p[2] \in DOMAIN detections /\ p = <<p[1], p[2]>>
        /\ Overlaps(tracks[p[1]].box, detections[p[2]].box)
    BY DEF Candidates
  <2>2. tracks[p[1]].box \in Boxes /\ detections[p[2]].box \in Boxes
    <3>1. tracks[p[1]] \in TrackTypes /\ detections[p[2]] \in Reports
      BY <2>1
    <3> QED
      BY <3>1 DEF TrackTypes, Reports
  <2> QED
    BY <2>1, <2>2, Overlap
<1>2. \A p, q \in S : <<p, q>> \in R <=>
        Closer(p, q) \/ (~Closer(q, p) /\ Lex(p, q))
  BY DEF Before, Nearer
<1>3. IsFiniteSet(S)
  <2>1. IsFiniteSet(DOMAIN tracks) /\ IsFiniteSet(DOMAIN detections)
    <3>1. /\ Len(tracks) \in Nat /\ DOMAIN tracks = 1..Len(tracks)
          /\ Len(detections) \in Nat /\ DOMAIN detections = 1..Len(detections)
      OBVIOUS
    <3> QED
      BY <3>1, FS_Interval
  <2>2. IsFiniteSet((DOMAIN tracks) \X (DOMAIN detections))
    BY <2>1, FS_Product
  <2>3. S \in SUBSET ((DOMAIN tracks) \X (DOMAIN detections))
    BY DEF Candidates
  <2> QED
    BY <2>2, <2>3, FS_Subset
<1> HIDE DEF S, R
<1>4. ASSUME NEW p \in S, NEW q \in S, NEW r \in S
      PROVE  /\ Closer(p, q) /\ ~Closer(r, q) => Closer(p, r)
             /\ ~Closer(q, p) /\ Closer(q, r) => Closer(p, r)
             /\ ~Closer(q, p) /\ ~Closer(r, q) => ~Closer(r, p)
  <2>1. /\ I(p) \in Nat /\ U(p) \in Nat /\ U(p) > 0
        /\ I(q) \in Nat /\ U(q) \in Nat /\ U(q) > 0
        /\ I(r) \in Nat /\ U(r) \in Nat /\ U(r) > 0
    BY <1>1
  <2> HIDE DEF I, U
  <2>2. ASSUME NEW x \in Nat, NEW y \in Nat, NEW z \in Nat,
               NEW u \in Nat, NEW v \in Nat, NEW w \in Nat,
               x = I(p), u = U(p), y = I(q), v = U(q), z = I(r), w = U(r)
        PROVE  /\ Closer(p, q) /\ ~Closer(r, q) => Closer(p, r)
               /\ ~Closer(q, p) /\ Closer(q, r) => Closer(p, r)
               /\ ~Closer(q, p) /\ ~Closer(r, q) => ~Closer(r, p)
    <3>1. u > 0 /\ v > 0 /\ w > 0
      BY <2>1, <2>2
    <3>2. /\ x * v > y * u /\ ~(z * v > y * w) => x * w > z * u
          /\ ~(y * u > x * v) /\ y * w > z * v => x * w > z * u
          /\ ~(y * u > x * v) /\ ~(z * v > y * w) => ~(z * u > x * w)
      BY <3>1, Fractions
    <3>3. /\ Closer(p, q) <=> x * v > y * u
          /\ Closer(q, p) <=> y * u > x * v
          /\ Closer(q, r) <=> y * w > z * v
          /\ Closer(r, q) <=> z * v > y * w
          /\ Closer(p, r) <=> x * w > z * u
          /\ Closer(r, p) <=> z * u > x * w
      BY <2>2
    <3> HIDE DEF Closer
    <3> QED
      BY <3>2, <3>3
  <2> HIDE DEF Closer
  <2> QED
    BY <2>1, <2>2
<1>5. ASSUME NEW p \in S, NEW q \in S
      PROVE  ~(Closer(p, q) /\ Closer(q, p))
  <2>1. /\ I(p) \in Nat /\ U(p) \in Nat /\ I(q) \in Nat /\ U(q) \in Nat
    BY <1>1
  <2>2. I(p) * U(q) \in Int /\ I(q) * U(p) \in Int
    BY <2>1
  <2> HIDE DEF I, U
  <2> QED
    BY <2>2
<1>6. ASSUME NEW p \in S, NEW q \in S, NEW r \in S
      PROVE  /\ ~Lex(p, p)
             /\ p # q => Lex(p, q) \/ Lex(q, p)
             /\ Lex(p, q) /\ Lex(q, r) => Lex(p, r)
  <2>1. /\ p[1] \in Nat /\ p[2] \in Nat /\ p = <<p[1], p[2]>>
        /\ q[1] \in Nat /\ q[2] \in Nat /\ q = <<q[1], q[2]>>
        /\ r[1] \in Nat /\ r[2] \in Nat
    BY <1>1
  <2>2. p # q => p[1] # q[1] \/ p[2] # q[2]
    BY <2>1
  <2> QED
    BY <2>1, <2>2
<1> HIDE DEF Closer, Lex
<1>7. IsOrder(S, R)
  <2>1. \A p \in S : <<p, p>> \notin R
    BY <1>2, <1>5, <1>6
  <2>2. \A p, q \in S : p # q => <<p, q>> \in R \/ <<q, p>> \in R
    BY <1>2, <1>6
  <2>3. ASSUME NEW p \in S, NEW q \in S, NEW r \in S, <<p, q>> \in R, <<q, r>> \in R
        PROVE  <<p, r>> \in R
    BY <1>2, <1>4, <1>5, <1>6, <2>3
  <2> QED
    BY <2>1, <2>2, <2>3 DEF IsOrder
<1> QED
  BY <1>3, <1>7 DEF S, R

-----------------------------------------------------------------------------
(* Folds over a sequence, step by step. *)

\* A set of positions that is not empty has a greatest one.
LEMMA GreatestPosition ==
  ASSUME NEW n \in Nat, NEW u \in SUBSET (1..n), u # {}
  PROVE  Max(u) \in u /\ \A k \in u : Max(u) >= k
<1> DEFINE T == {n - k : k \in u}
<1>1. T \subseteq Nat /\ T # {}
  <2>1. \A k \in u : n - k \in Nat
    OBVIOUS
  <2> QED
    BY <2>1
<1>2. PICK m \in T : \A k \in T : m <= k
  BY <1>1, LeastNatural
<1>3. PICK x \in u : m = n - x
  BY <1>2
<1>4. \A k \in u : x >= k
  <2> TAKE k \in u
  <2>1. n - x <= n - k
    BY <1>2, <1>3
  <2> QED
    BY <2>1
<1> QED
  BY <1>4 DEF Max

\* The function FoldLeft unfolds to, for a step G.
IsFold(f, A, base, s, G) ==
  /\ f \in [SUBSET DOMAIN s -> A]
  /\ \A u \in SUBSET DOMAIN s :
       f[u] = IF u = {} THEN base ELSE G[<<f[u \ {Max(u)}], s[Max(u)]>>]

\* What FoldLeft unfolds to exists, for a step that stays within a set.
LEMMA FoldExists ==
  ASSUME NEW A, NEW E, NEW base \in A, NEW s \in Seq(E), NEW G \in [A \X E -> A]
  PROVE  \E f : IsFold(f, A, base, s, G)
<1> DEFINE Folds(n, f) ==
             \A u \in SUBSET (1..n) :
               f[u] = IF u = {} THEN base ELSE G[<<f[u \ {Max(u)}], s[Max(u)]>>]
           Done == {n \in Nat : n <= Len(s) => \E f \in [SUBSET (1..n) -> A] : Folds(n, f)}
<1>1. 0 \in Done
  <2> DEFINE f == [u \in SUBSET (1..0) |-> base]
  <2>1. f \in [SUBSET (1..0) -> A] /\ Folds(0, f)
    BY 1..0 = {}
  <2> QED
    BY <2>1
<1>2. ASSUME NEW n \in Nat, n \in Done
      PROVE  n + 1 \in Done
  <2> SUFFICES ASSUME n + 1 <= Len(s)
               PROVE  \E g \in [SUBSET (1..(n + 1)) -> A] : Folds(n + 1, g)
    <3>1. n + 1 \in Nat
      OBVIOUS
    <3> HIDE DEF Folds
    <3> QED
      BY <3>1
  <2>1. PICK f \in [SUBSET (1..n) -> A] : Folds(n, f)
    <3>1. Len(s) \in Nat /\ n <= Len(s)
      OBVIOUS
    <3> HIDE DEF Folds
    <3> QED
      BY <1>2, <3>1
  <2> DEFINE g == [u \in SUBSET (1..(n + 1)) |->
                     IF n + 1 \in u THEN G[<<f[u \ {n + 1}], s[n + 1]>>] ELSE f[u]]
  <2>2. \A u \in SUBSET (1..(n + 1)) : u \ {n + 1} \in SUBSET (1..n)
    OBVIOUS
  <2>3. \A u \in SUBSET (1..(n + 1)) : n + 1 \notin u => u \in SUBSET (1..n)
    OBVIOUS
  <2>4. s[n + 1] \in E
    OBVIOUS
  <2>5. g \in [SUBSET (1..(n + 1)) -> A]
    BY <2>2, <2>3, <2>4
  <2>6. ASSUME NEW u \in SUBSET (1..(n + 1)), u # {}
        PROVE  g[u] = G[<<g[u \ {Max(u)}], s[Max(u)]>>]
    <3>1. Max(u) \in u /\ \A k \in u : Max(u) >= k
      <4>1. n + 1 \in Nat
        OBVIOUS
      <4> QED
        BY <2>6, <4>1, GreatestPosition
    <3>2. CASE n + 1 \in u
      <4>1. Max(u) = n + 1
        <5>1. Max(u) >= n + 1 /\ Max(u) \in 1..(n + 1)
          BY <3>1, <3>2
        <5> QED
          BY <5>1
      <4>2. u \ {n + 1} \in SUBSET (1..(n + 1)) /\ n + 1 \notin u \ {n + 1}
        OBVIOUS
      <4>3. g[u \ {n + 1}] = f[u \ {n + 1}]
        BY <4>2
      <4> QED
        BY <3>2, <4>1, <4>3
    <3>3. CASE n + 1 \notin u
      <4>1. u \in SUBSET (1..n) /\ u \ {Max(u)} \in SUBSET (1..n)
        BY <2>3, <3>3
      <4>2. g[u] = f[u] /\ g[u \ {Max(u)}] = f[u \ {Max(u)}]
        BY <3>3, <4>1
      <4>3. f[u] = G[<<f[u \ {Max(u)}], s[Max(u)]>>]
        BY <2>1, <2>6, <4>1
      <4> QED
        BY <4>2, <4>3
    <3> QED
      BY <3>2, <3>3
  <2>7. g[{}] = base
    <3>1. {} \in SUBSET (1..(n + 1)) /\ {} \in SUBSET (1..n)
      OBVIOUS
    <3>2. g[{}] = f[{}] /\ f[{}] = base
      BY <2>1, <3>1
    <3> QED
      BY <3>2
  <2>8. Folds(n + 1, g)
    <3> HIDE DEF g
    <3> QED
      BY <2>6, <2>7
  <2> QED
    BY <2>5, <2>8
<1>3. Nat \subseteq Done
  <2> HIDE DEF Done
  <2> QED
    BY <1>1, <1>2, Counting
<1>4. Len(s) \in Nat /\ DOMAIN s = 1..Len(s)
  OBVIOUS
<1>5. \E f \in [SUBSET (1..Len(s)) -> A] : Folds(Len(s), f)
  <2>1. Len(s) <= Len(s)
    BY <1>4
  <2>2. Len(s) \in Done
    <3> HIDE DEF Done
    <3> QED
      BY <1>3, <1>4
  <2> HIDE DEF Folds
  <2> QED
    BY <2>1, <2>2
<1> QED
  BY <1>4, <1>5 DEF IsFold

\* The fold over the first k positions is a step from the one over k - 1.
LEMMA StepByStep ==
  ASSUME NEW n \in Nat, NEW k \in 1..n
  PROVE  /\ 1..k \in SUBSET (1..n) /\ 1..k # {}
         /\ Max(1..k) = k
         /\ (1..k) \ {k} = 1..(k - 1)
<1>1. 1..k \in SUBSET (1..n) /\ 1..k # {}
  OBVIOUS
<1>2. Max(1..k) \in 1..k /\ \A j \in 1..k : Max(1..k) >= j
  BY <1>1, GreatestPosition
<1> QED
  BY <1>1, <1>2

\* A step of the greedy loop.
Greedy(taken, p) == IF \E q \in taken : q[1] = p[1] \/ q[2] = p[2] THEN taken ELSE taken \cup {p}

\* Matches is where the greedy loop ends, one candidate after the other.
LEMMA MatchesSteps ==
  ASSUME NEW tracks, NEW detections, NEW E, InOrder(tracks, detections) \in Seq(E)
  PROVE  LET order == InOrder(tracks, detections)
         IN  \E taken :
               /\ taken[0] = {}
               /\ \A k \in 1..Len(order) : taken[k] = Greedy(taken[k - 1], order[k])
               /\ taken[Len(order)] = Matches(tracks, detections)
<1> DEFINE order == InOrder(tracks, detections)
           D == DOMAIN order
           G == [x \in (SUBSET E) \X E |-> Greedy(x[1], x[2])]
           Folded(f) == f = [u \in SUBSET D |->
             IF u = {} THEN {} ELSE LET x == Max(u) IN Greedy(f[u \ {x}], order[x])]
<1> HIDE DEF order
<1>1. order \in Seq(E) /\ D = 1..Len(order) /\ Len(order) \in Nat
  BY DEF order
<1>2. G \in [(SUBSET E) \X E -> SUBSET E]
  BY DEF Greedy
<1>3. \E f : Folded(f)
  <2>1. PICK f \in [SUBSET D -> SUBSET E] :
          \A u \in SUBSET D : f[u] = IF u = {} THEN {} ELSE G[<<f[u \ {Max(u)}], order[Max(u)]>>]
    <3>1. {} \in SUBSET E /\ order \in Seq(E)
      BY <1>1
    <3> HIDE DEF G
    <3>2. PICK f : IsFold(f, SUBSET E, {}, order, G)
      BY <1>2, <3>1, FoldExists
    <3> QED
      BY <3>2 DEF IsFold
  <2>2. ASSUME NEW u \in SUBSET D, u # {}
        PROVE  G[<<f[u \ {Max(u)}], order[Max(u)]>>] = Greedy(f[u \ {Max(u)}], order[Max(u)])
    <3>1. Max(u) \in u
      BY <1>1, <2>2, GreatestPosition
    <3>2. f[u \ {Max(u)}] \in SUBSET E /\ order[Max(u)] \in E
      BY <1>1, <3>1
    <3> QED
      BY <3>2
  <2> HIDE DEF G
  <2>3. \A u \in SUBSET D : f[u] = IF u = {} THEN {} ELSE Greedy(f[u \ {Max(u)}], order[Max(u)])
    BY <2>1, <2>2
  <2>4. Folded(f)
    BY <2>3
  <2> QED
    BY <2>4
<1>4. Matches(tracks, detections) = (CHOOSE f : Folded(f))[D]
  BY DEF Matches, FoldLeft, MapThenFoldSet, order, Greedy
<1>5. PICK f : f = (CHOOSE g : Folded(g))
  OBVIOUS
<1>6. Folded(f)
  <2> HIDE DEF Folded
  <2> QED
    BY <1>3, <1>5
<1> DEFINE taken == [k \in 0..Len(order) |-> f[1..k]]
<1>7. taken[0] = {}
  <2>1. 1..0 = {} /\ {} \in SUBSET D
    OBVIOUS
  <2>2. f[{}] = {}
    BY <1>6, <2>1
  <2> QED
    BY <1>1, <2>1, <2>2
<1>8. ASSUME NEW k \in 1..Len(order)
      PROVE  taken[k] = Greedy(taken[k - 1], order[k])
  <2>1. /\ 1..k \in SUBSET D /\ 1..k # {}
        /\ Max(1..k) = k
        /\ (1..k) \ {k} = 1..(k - 1)
    BY <1>1, StepByStep
  <2>2. f[1..k] = Greedy(f[1..(k - 1)], order[k])
    BY <1>6, <2>1
  <2>3. k \in 0..Len(order) /\ k - 1 \in 0..Len(order)
    BY <1>1
  <2> QED
    BY <2>2, <2>3
<1>9. taken[Len(order)] = Matches(tracks, detections)
  BY <1>1, <1>4, <1>5
<1> HIDE DEF taken
<1> QED
  BY <1>7, <1>8, <1>9 DEF order

\* No track and no detection is in two pairs.
IsMatching(matches) == \A p, q \in matches : p # q => p[1] # q[1] /\ p[2] # q[2]

\* The greedy loop takes candidates, and each track and each detection once.
LEMMA MatchesAreMatching ==
  ASSUME NEW tracks \in Seq(TrackTypes), NEW detections \in Seq(Reports)
  PROVE  /\ Matches(tracks, detections) \subseteq Candidates(tracks, detections)
         /\ IsMatching(Matches(tracks, detections))
<1> DEFINE S == Candidates(tracks, detections)
           order == InOrder(tracks, detections)
           R == {o \in S \X S : Before(tracks, detections, o[1], o[2])}
<1>1. order \in Seq(S)
  <2>1. IsFiniteSet(S) /\ IsOrder(S, R)
    BY BeforeIsOrder
  <2>2. order = Sorted(S, R)
    BY DEF InOrder
  <2> HIDE DEF S, R, order
  <2>3. Cardinality(S) \in Nat /\ order \in [1..Cardinality(S) -> S]
    BY <2>1, <2>2, SortedLists
  <2> QED
    BY <2>3
<1>2. PICK taken : /\ taken[0] = {}
                   /\ \A k \in 1..Len(order) : taken[k] = Greedy(taken[k - 1], order[k])
                   /\ taken[Len(order)] = Matches(tracks, detections)
  <2> HIDE DEF S
  <2> QED
    BY <1>1, MatchesSteps
<1> HIDE DEF S, order
<1> DEFINE Good(k) == taken[k] \subseteq S /\ IsMatching(taken[k])
           Done == {k \in Nat : k <= Len(order) => Good(k)}
<1>3. 0 \in Done
  BY <1>2 DEF IsMatching
<1>4. ASSUME NEW k \in Nat, k \in Done
      PROVE  k + 1 \in Done
  <2> SUFFICES ASSUME k + 1 <= Len(order) PROVE Good(k + 1)
    <3> HIDE DEF Good
    <3>1. k + 1 \in Nat
      OBVIOUS
    <3> QED
      BY <3>1
  <2>1. Len(order) \in Nat /\ DOMAIN order = 1..Len(order)
    BY <1>1
  <2>2. k <= Len(order) /\ k + 1 \in 1..Len(order) /\ (k + 1) - 1 = k
    BY <2>1
  <2>3. taken[k + 1] = Greedy(taken[k], order[k + 1])
    BY <1>2, <2>2
  <2>4. Good(k)
    <3> HIDE DEF Good
    <3> QED
      BY <1>4, <2>2
  <2>5. order[k + 1] \in S
    BY <1>1, <2>2
  <2> QED
    BY <2>3, <2>4, <2>5 DEF Greedy, IsMatching
<1>5. Len(order) \in Nat /\ Len(order) <= Len(order)
  BY <1>1
<1>6. Len(order) \in Done
  <2> HIDE DEF Done
  <2> QED
    BY <1>3, <1>4, <1>5, Counting
<1> QED
  BY <1>2, <1>5, <1>6 DEF S

\* Sorted leaves no member of a finite set out.
LEMMA SortedIsComplete ==
  ASSUME NEW S, IsFiniteSet(S), NEW R, IsOrder(S, R), NEW p \in S
  PROVE  \E k \in 1..Cardinality(S) : Sorted(S, R)[k] = p
<1> DEFINE n == Cardinality(S)
           s == Sorted(S, R)
<1>1. /\ n \in Nat /\ s \in [1..n -> S]
      /\ \A i, j \in 1..n : i < j => <<s[i], s[j]>> \in R
  BY SortedLists
<1>2. IsFiniteSet(1..n) /\ Cardinality(1..n) = n
  BY <1>1, FS_Interval
<1> HIDE DEF s
<1>3. \A i, j \in 1..n : s[i] = s[j] => i = j
  <2> SUFFICES ASSUME NEW i \in 1..n, NEW j \in 1..n, s[i] = s[j] PROVE i = j
    OBVIOUS
  <2>1. <<s[i], s[j]>> \notin R /\ <<s[j], s[i]>> \notin R
    BY <1>1 DEF IsOrder
  <2>2. ~(i < j) /\ ~(j < i)
    BY <1>1, <2>1
  <2> QED
    BY <2>2
<1>4. s \in Injection(1..n, S)
  BY <1>1, <1>3 DEF Injection, IsInjective
<1>5. s \in Surjection(1..n, S)
  <2>1. Cardinality(1..n) = Cardinality(S)
    BY <1>2
  <2> HIDE DEF n
  <2> QED
    BY <1>4, <2>1, FS_Injection
<1> QED
  BY <1>5 DEF Surjection, s

\* Of two candidates the later one in the order is not the nearer.
LEMMA LaterIsNotNearer ==
  ASSUME NEW tracks \in Seq(TrackTypes), NEW detections \in Seq(Reports),
         NEW p \in Candidates(tracks, detections), NEW q \in Candidates(tracks, detections),
         Before(tracks, detections, q, p)
  PROVE  ~Nearer(tracks[p[1]].box, detections[p[2]].box, tracks[q[1]].box, detections[q[2]].box)
<1>1. ASSUME NEW r \in Candidates(tracks, detections)
      PROVE  /\ Intersection(tracks[r[1]].box, detections[r[2]].box) \in Nat
             /\ Union(tracks[r[1]].box, detections[r[2]].box) \in Nat
  <2>1. /\ r[1] \in DOMAIN tracks /\ r[2] \in DOMAIN detections
        /\ Overlaps(tracks[r[1]].box, detections[r[2]].box)
    BY DEF Candidates
  <2>2. tracks[r[1]] \in TrackTypes /\ detections[r[2]] \in Reports
    BY <2>1
  <2>3. tracks[r[1]].box \in Boxes /\ detections[r[2]].box \in Boxes
    BY <2>2 DEF TrackTypes, Reports
  <2> QED
    BY <2>1, <2>3, Overlap
<1>2. PICK x \in Nat, u \in Nat : /\ x = Intersection(tracks[p[1]].box, detections[p[2]].box)
                                  /\ u = Union(tracks[p[1]].box, detections[p[2]].box)
  BY <1>1
<1>3. PICK y \in Nat, v \in Nat : /\ y = Intersection(tracks[q[1]].box, detections[q[2]].box)
                                  /\ v = Union(tracks[q[1]].box, detections[q[2]].box)
  BY <1>1
<1>4. y * u > x * v \/ ~(x * v > y * u)
  BY <1>2, <1>3 DEF Before, Nearer
<1>5. x * v \in Int /\ y * u \in Int
  OBVIOUS
<1>6. ~(x * v > y * u)
  BY <1>4, <1>5
<1> QED
  BY <1>2, <1>3, <1>6 DEF Nearer

\* The greedy loop, for any tracks and detections: a pair is left out only for
\* one that came before it, and the order is by overlap (tracker.py).
THEOREM MatchesGreedily ==
  ASSUME NEW tracks \in Seq(TrackTypes), NEW detections \in Seq(Reports)
  PROVE  IsGreedy(Matches(tracks, detections), tracks, detections)
<1> DEFINE S == Candidates(tracks, detections)
           order == InOrder(tracks, detections)
           R == {o \in S \X S : Before(tracks, detections, o[1], o[2])}
           matches == Matches(tracks, detections)
<1>1. /\ order \in Seq(S) /\ Len(order) \in Nat /\ DOMAIN order = 1..Len(order)
      /\ \A i, j \in 1..Len(order) : i < j => Before(tracks, detections, order[i], order[j])
      /\ \A p \in S : \E k \in 1..Len(order) : order[k] = p
  <2>1. IsFiniteSet(S) /\ IsOrder(S, R)
    BY BeforeIsOrder
  <2>2. order = Sorted(S, R)
    BY DEF InOrder
  <2>3. \A p, q : <<p, q>> \in R => Before(tracks, detections, p, q)
    OBVIOUS
  <2> HIDE DEF S, R, order
  <2>4. /\ Cardinality(S) \in Nat /\ order \in [1..Cardinality(S) -> S]
        /\ \A i, j \in 1..Cardinality(S) : i < j => <<order[i], order[j]>> \in R
        /\ \A p \in S : \E k \in 1..Cardinality(S) : order[k] = p
    <3>1. /\ Cardinality(S) \in Nat /\ Sorted(S, R) \in [1..Cardinality(S) -> S]
          /\ \A i, j \in 1..Cardinality(S) : i < j => <<Sorted(S, R)[i], Sorted(S, R)[j]>> \in R
      BY <2>1, SortedLists
    <3>2. \A p \in S : \E k \in 1..Cardinality(S) : Sorted(S, R)[k] = p
      BY <2>1, SortedIsComplete
    <3> QED
      BY <2>2, <3>1, <3>2
  <2>5. order \in Seq(S) /\ Len(order) = Cardinality(S)
    BY <2>4
  <2> QED
    BY <2>3, <2>4, <2>5
<1>2. matches \subseteq S /\ IsMatching(matches)
  BY MatchesAreMatching
<1>3. PICK taken : /\ taken[0] = {}
                   /\ \A k \in 1..Len(order) : taken[k] = Greedy(taken[k - 1], order[k])
                   /\ taken[Len(order)] = matches
  <2> HIDE DEF S
  <2> QED
    BY <1>1, MatchesSteps
<1> HIDE DEF S, order, matches
<1> DEFINE Clash(p, q) == p[1] = q[1] \/ p[2] = q[2]
           Good(k) == /\ \A q \in taken[k] : \E i \in 1..k : q = order[i]
                      /\ \A j \in 1..k : order[j] \notin taken[k] =>
                           \E i \in 1..j : order[i] \in taken[k] /\ Clash(order[j], order[i])
           Done == {k \in Nat : k <= Len(order) => Good(k)}
<1>4. 0 \in Done
  BY <1>3
<1>5. ASSUME NEW k \in Nat, k \in Done
      PROVE  k + 1 \in Done
  <2> SUFFICES ASSUME k + 1 <= Len(order) PROVE Good(k + 1)
    <3> HIDE DEF Good
    <3>1. k + 1 \in Nat
      OBVIOUS
    <3> QED
      BY <3>1
  <2>1. k <= Len(order) /\ k + 1 \in 1..Len(order) /\ (k + 1) - 1 = k
    BY <1>1
  <2>2. taken[k + 1] = Greedy(taken[k], order[k + 1])
    BY <1>3, <2>1
  <2>3. Good(k)
    <3> HIDE DEF Good
    <3> QED
      BY <1>5, <2>1
  <2>4. taken[k] \subseteq taken[k + 1] /\ taken[k + 1] \subseteq taken[k] \cup {order[k + 1]}
    BY <2>2 DEF Greedy
  <2>5. ASSUME NEW q \in taken[k + 1]
        PROVE  \E i \in 1..(k + 1) : q = order[i]
    BY <2>3, <2>4
  <2>6. order[k + 1] \notin taken[k + 1] =>
          \E i \in 1..(k + 1) : order[i] \in taken[k + 1] /\ Clash(order[k + 1], order[i])
    <3> SUFFICES ASSUME order[k + 1] \notin taken[k + 1]
                 PROVE  \E i \in 1..(k + 1) : order[i] \in taken[k + 1]
                          /\ Clash(order[k + 1], order[i])
      OBVIOUS
    <3>1. PICK q \in taken[k] : Clash(order[k + 1], q)
      BY <2>2 DEF Greedy
    <3>2. PICK i \in 1..k : q = order[i]
      BY <2>3, <3>1
    <3>3. i \in 1..(k + 1)
      OBVIOUS
    <3> QED
      BY <2>4, <3>1, <3>2, <3>3
  <2>7. ASSUME NEW j \in 1..k, order[j] \notin taken[k + 1]
        PROVE  \E i \in 1..j : order[i] \in taken[k + 1] /\ Clash(order[j], order[i])
    BY <2>3, <2>4, <2>7
  <2>8. \A j \in 1..(k + 1) : j = k + 1 \/ j \in 1..k
    OBVIOUS
  <2> HIDE DEF Clash
  <2> QED
    BY <2>5, <2>6, <2>7, <2>8
<1>6. Good(Len(order))
  <2>1. Len(order) <= Len(order)
    BY <1>1
  <2>2. Len(order) \in Done
    <3> HIDE DEF Done
    <3> QED
      BY <1>1, <1>4, <1>5, Counting
  <2> HIDE DEF Good
  <2> QED
    BY <2>1, <2>2
<1>7. ASSUME NEW p \in S, p \notin matches
      PROVE  \E q \in matches :
               /\ p[1] = q[1] \/ p[2] = q[2]
               /\ ~Nearer(tracks[p[1]].box, detections[p[2]].box,
                          tracks[q[1]].box, detections[q[2]].box)
  <2>1. PICK j \in 1..Len(order) : order[j] = p
    BY <1>1
  <2>2. PICK i \in 1..j : order[i] \in matches /\ Clash(p, order[i])
    BY <1>3, <1>6, <1>7, <2>1
  <2>3. i # j /\ i \in 1..Len(order) /\ i < j
    BY <1>1, <1>7, <2>1, <2>2
  <2>4. Before(tracks, detections, order[i], p)
    BY <1>1, <2>1, <2>3
  <2>5. order[i] \in S
    BY <1>2, <2>2
  <2> QED
    BY <2>2, <2>4, <2>5, LaterIsNotNearer DEF S
<1> QED
  BY <1>2, <1>7 DEF IsGreedy, IsMatching, S, matches

-----------------------------------------------------------------------------
(* One frame. *)

\* What the filter keeps are reports.
LEMMA RetainedIsTyped ==
  ASSUME NEW detections \in Seq(Reports)
  PROVE  Retained(detections) \in Seq(Reports)
<1> DEFINE K == {d \in DOMAIN detections :
                   detections[d].confident /\ detections[d].label \in AllowedLabels}
<1>1. K \in SUBSET DOMAIN detections
  OBVIOUS
<1>2. Retained(detections) = Picked(detections, K)
  BY DEF Retained
<1> HIDE DEF K
<1> QED
  BY <1>1, <1>2, PickedElements

\* A track that stays is one that no pair took, one miss older and within the
\* limit; the others' order is as it was.
LEMMA AgedTracks ==
  ASSUME NEW tracks \in Seq(TrackTypes), NEW matches
  PROVE  /\ Aged(tracks, matches) \in Seq(TrackTypes)
         /\ \E at \in [DOMAIN Aged(tracks, matches) -> DOMAIN tracks] :
              /\ \A i \in DOMAIN Aged(tracks, matches) :
                   /\ Aged(tracks, matches)[i].id = tracks[at[i]].id
                   /\ Aged(tracks, matches)[i].label = tracks[at[i]].label
                   /\ Aged(tracks, matches)[i].misses = tracks[at[i]].misses + 1
                   /\ Aged(tracks, matches)[i].misses <= MaxMisses
                   /\ \A p \in matches : p[1] # at[i]
              /\ \A i, j \in DOMAIN Aged(tracks, matches) : i < j => at[i] < at[j]
<1> DEFINE older == [t \in DOMAIN tracks |-> [tracks[t] EXCEPT !.misses = @ + 1]]
           K == {t \in DOMAIN tracks : /\ \A p \in matches : p[1] # t
                                       /\ older[t].misses <= MaxMisses}
           aged == Aged(tracks, matches)
<1>1. ASSUME NEW t \in DOMAIN tracks
      PROVE  /\ older[t] \in TrackTypes
             /\ older[t].id = tracks[t].id
             /\ older[t].label = tracks[t].label
             /\ older[t].misses = tracks[t].misses + 1
  <2>1. PICK r \in TrackTypes : r = tracks[t]
    OBVIOUS
  <2>2. older[t] = [r EXCEPT !.misses = @ + 1]
    BY <2>1
  <2> HIDE DEF older
  <2> QED
    BY <2>1, <2>2 DEF TrackTypes
<1>2. older \in Seq(TrackTypes) /\ DOMAIN older = DOMAIN tracks
  <2>1. DOMAIN tracks = 1..Len(tracks) /\ Len(tracks) \in Nat
    OBVIOUS
  <2>2. \A t \in DOMAIN tracks : older[t] \in TrackTypes
    BY <1>1
  <2>3. older \in [1..Len(tracks) -> TrackTypes]
    BY <2>1, <2>2
  <2> QED
    BY <2>1, <2>3
<1>3. K \in SUBSET DOMAIN older
  BY <1>2
<1>4. aged = Picked(older, K)
  BY DEF Aged
<1>5. /\ aged \in Seq(TrackTypes)
      /\ \E at \in [DOMAIN aged -> K] :
           /\ \A i \in DOMAIN aged : aged[i] = older[at[i]]
           /\ \A i, j \in DOMAIN aged : i < j => at[i] < at[j]
  <2> HIDE DEF aged, K, older
  <2> QED
    BY <1>2, <1>3, <1>4, PickedElements
<1>6. PICK at \in [DOMAIN aged -> K] :
        /\ \A i \in DOMAIN aged : aged[i] = older[at[i]]
        /\ \A i, j \in DOMAIN aged : i < j => at[i] < at[j]
  BY <1>5
<1>7. \A t \in K : /\ t \in DOMAIN tracks
                   /\ older[t].misses <= MaxMisses
                   /\ \A p \in matches : p[1] # t
  OBVIOUS
<1> HIDE DEF aged, K, older
<1>8. \A i \in DOMAIN aged : at[i] \in K
  BY <1>6
<1>9. at \in [DOMAIN aged -> DOMAIN tracks]
  BY <1>6, <1>7
<1>10. \A i \in DOMAIN aged :
                   /\ aged[i].id = tracks[at[i]].id
                   /\ aged[i].label = tracks[at[i]].label
                   /\ aged[i].misses = tracks[at[i]].misses + 1
                   /\ aged[i].misses <= MaxMisses
                   /\ \A p \in matches : p[1] # at[i]
  <2> TAKE i \in DOMAIN aged
  <2>1. at[i] \in K /\ aged[i] = older[at[i]]
    BY <1>6, <1>8
  <2> QED
    BY <1>1, <1>7, <2>1
<1> QED
  BY <1>5, <1>6, <1>9, <1>10 DEF aged

\* What a tracker promises between two frames.
Steady(tracker) ==
  /\ tracker \in [tracks : Seq(TrackTypes), next : Nat]
  /\ \A i \in DOMAIN tracker.tracks :
       /\ tracker.tracks[i].id < tracker.next
       /\ tracker.tracks[i].misses <= MaxMisses
  /\ \A i, j \in DOMAIN tracker.tracks :
       tracker.tracks[i].id = tracker.tracks[j].id => i = j

\* The id of a detection is its track's, or one that was never given.
LEMMA TrackIdsOfFrame ==
  ASSUME NEW tracker, Steady(tracker), NEW detections \in Seq(Reports)
  PROVE  LET tracks == tracker.tracks
             ids == TrackIds(tracker, detections)
             next == Updated(tracker, detections).next
         IN  /\ ids \in [DOMAIN detections -> Nat]
             /\ next \in Nat /\ tracker.next <= next
             /\ \A d \in DOMAIN detections :
                  \/ \E p \in Matches(tracks, detections) :
                       /\ p[1] \in DOMAIN tracks /\ p[2] = d
                       /\ ids[d] = tracks[p[1]].id
                       /\ detections[d].label = tracks[p[1]].label
                  \/ tracker.next <= ids[d] /\ ids[d] < next
             /\ \A d, e \in DOMAIN detections : ids[d] = ids[e] => d = e
<1> DEFINE tracks == tracker.tracks
           M == Matches(tracks, detections)
           ids == TrackIds(tracker, detections)
           next == Updated(tracker, detections).next
           D == DOMAIN detections
           New(d) == \A p \in M : p[2] # d
           Below(d) == {e \in 1..(d - 1) : New(e)}
           AllNew == {d \in D : New(d)}
           Of(d) == CHOOSE p \in M : p[2] = d
<1>1. tracks \in Seq(TrackTypes) /\ tracker.next \in Nat
  BY DEF Steady
<1>2. M \subseteq Candidates(tracks, detections) /\ IsMatching(M)
  BY <1>1, MatchesAreMatching
<1>3. \A p \in M : /\ p[1] \in DOMAIN tracks /\ p[2] \in D /\ p = <<p[1], p[2]>>
                   /\ tracks[p[1]].label = detections[p[2]].label
  <2> HIDE DEF M
  <2> QED
    BY <1>2 DEF Candidates
<1>4. D = 1..Len(detections) /\ Len(detections) \in Nat
  OBVIOUS
<1>5. ASSUME NEW d \in D
      PROVE  ids[d] = IF New(d) THEN tracker.next + Cardinality(Below(d)) ELSE tracks[Of(d)[1]].id
  BY DEF TrackIds
<1>6. next = tracker.next + Cardinality(AllNew)
  BY DEF Updated
<1>7. IsFiniteSet(AllNew) /\ Cardinality(AllNew) \in Nat
  <2>1. IsFiniteSet(D) /\ AllNew \in SUBSET D
    BY <1>4, FS_Interval
  <2> HIDE DEF AllNew, D
  <2> QED
    BY <2>1, FS_Subset, FS_CardinalityType
<1>8. ASSUME NEW d \in D
      PROVE  /\ IsFiniteSet(Below(d)) /\ Cardinality(Below(d)) \in Nat
             /\ Below(d) \in SUBSET AllNew
  <2>1. Below(d) \in SUBSET AllNew
    BY <1>4
  <2> HIDE DEF AllNew, Below
  <2> QED
    BY <1>7, <2>1, FS_Subset, FS_CardinalityType
<1>9. ASSUME NEW d \in D, New(d)
      PROVE  Cardinality(Below(d)) < Cardinality(AllNew)
  <2>1. d \notin Below(d) /\ d \in AllNew
    BY <1>4, <1>9
  <2> HIDE DEF AllNew, Below
  <2>2. Cardinality(Below(d)) <= Cardinality(AllNew)
       /\ Cardinality(Below(d)) # Cardinality(AllNew)
    BY <1>7, <1>8, <2>1, FS_Subset
  <2> QED
    BY <1>7, <1>8, <2>2
<1>10. ASSUME NEW d \in D, NEW e \in D, New(d), d < e
       PROVE  Cardinality(Below(d)) < Cardinality(Below(e))
  <2>1. d \notin Below(d) /\ d \in Below(e) /\ Below(d) \in SUBSET Below(e)
    BY <1>4, <1>10
  <2> HIDE DEF Below
  <2>2. Cardinality(Below(d)) <= Cardinality(Below(e))
       /\ Cardinality(Below(d)) # Cardinality(Below(e))
    BY <1>8, <2>1, FS_Subset
  <2> QED
    BY <1>8, <2>2
<1>11. ASSUME NEW d \in D, ~New(d)
       PROVE  /\ Of(d) \in M /\ Of(d)[2] = d /\ Of(d)[1] \in DOMAIN tracks
              /\ ids[d] = tracks[Of(d)[1]].id
              /\ detections[d].label = tracks[Of(d)[1]].label
  <2>1. Of(d) \in M /\ Of(d)[2] = d
    <3>1. \E p \in M : p[2] = d
      BY <1>11
    <3> HIDE DEF M
    <3> QED
      BY <3>1
  <2> HIDE DEF M, Of, New, ids
  <2> QED
    BY <1>3, <1>5, <1>11, <2>1
<1>12. ASSUME NEW d \in D, New(d)
       PROVE  /\ ids[d] = tracker.next + Cardinality(Below(d))
              /\ ids[d] \in Nat /\ tracker.next <= ids[d] /\ ids[d] < next
  <2> HIDE DEF M, Of, New, ids, Below, AllNew, next
  <2>1. ids[d] = tracker.next + Cardinality(Below(d))
    BY <1>5, <1>12
  <2>2. Cardinality(Below(d)) \in Nat /\ Cardinality(Below(d)) < Cardinality(AllNew)
    BY <1>8, <1>9, <1>12
  <2> QED
    BY <1>1, <1>6, <1>7, <2>1, <2>2
<1>13. ASSUME NEW d \in D, ~New(d)
       PROVE  ids[d] \in Nat /\ ids[d] < tracker.next
  <2>1. PICK t \in DOMAIN tracks : ids[d] = tracks[t].id
    <3> HIDE DEF M, New, ids, Of
    <3> QED
      BY <1>11, <1>13
  <2>2. tracks[t] \in TrackTypes
    BY <1>1
  <2> HIDE DEF ids
  <2> QED
    BY <2>1, <2>2 DEF TrackTypes, Steady
<1>14. ids \in [D -> Nat]
  <2>1. \A d \in D : ids[d] \in Nat
    BY <1>12, <1>13
  <2>2. ids = [d \in D |-> ids[d]]
    BY DEF TrackIds
  <2> HIDE DEF ids
  <2> QED
    BY <2>1, <2>2
<1>15. next \in Nat /\ tracker.next <= next
  <2> HIDE DEF next, AllNew
  <2> QED
    BY <1>1, <1>6, <1>7
<1>16. ASSUME NEW d \in D, NEW e \in D, ids[d] = ids[e]
       PROVE  d = e
  <2> HIDE DEF M, New, ids, Below, AllNew, Of, next
  <2>1. CASE New(d) /\ New(e)
    <3>1. Cardinality(Below(d)) = Cardinality(Below(e))
      BY <1>1, <1>8, <1>12, <1>16, <2>1
    <3>2. ~(Cardinality(Below(d)) < Cardinality(Below(e)))
         /\ ~(Cardinality(Below(e)) < Cardinality(Below(d)))
      BY <1>8, <3>1
    <3>3. ~(d < e) /\ ~(e < d)
      BY <1>10, <2>1, <3>2
    <3> QED
      BY <1>4, <3>3
  <2>2. CASE New(d) /\ ~New(e)
    BY <1>1, <1>12, <1>13, <1>16, <2>2
  <2>3. CASE ~New(d) /\ New(e)
    BY <1>1, <1>12, <1>13, <1>16, <2>3
  <2>4. CASE ~New(d) /\ ~New(e)
    <3>1. Of(d)[1] = Of(e)[1]
      <4>1. tracks[Of(d)[1]].id = tracks[Of(e)[1]].id
        BY <1>11, <1>16, <2>4
      <4> QED
        BY <1>11, <2>4, <4>1 DEF Steady
    <3>2. Of(d) \in M /\ Of(e) \in M /\ Of(d)[2] = d /\ Of(e)[2] = e
      BY <1>11, <2>4
    <3> QED
      BY <1>2, <3>1, <3>2 DEF IsMatching
  <2> QED
    BY <2>1, <2>2, <2>3, <2>4
<1>17. \A d \in D :
         \/ \E p \in M : /\ p[1] \in DOMAIN tracks /\ p[2] = d
                         /\ ids[d] = tracks[p[1]].id
                         /\ detections[d].label = tracks[p[1]].label
         \/ tracker.next <= ids[d] /\ ids[d] < next
  <2> HIDE DEF M, New, ids, Of, next
  <2> QED
    BY <1>11, <1>12
<1> HIDE DEF ids, next, M
<1>18. \A d, e \in D : ids[d] = ids[e] => d = e
  BY <1>16
<1> QED
  BY <1>14, <1>15, <1>17, <1>18 DEF ids, next, M

-----------------------------------------------------------------------------
(* A run of the pipeline. *)

\* What the pipeline returns, and what it carries from frame to frame.
DetectionEvents == [frame : Nat, track : Nat, label : STRING, box : Boxes]

Runs == [tracker : [tracks : Seq(TrackTypes), next : Nat], found : Seq(DetectionEvents)]

\* TracksAreConsistent, of any list of detections.
Consistent(found) ==
  \A i, j \in DOMAIN found :
    i < j /\ found[i].track = found[j].track =>
      /\ found[i].frame < found[j].frame
      /\ found[i].label = found[j].label
      /\ \E k \in (i + 1)..j : /\ found[k].track = found[i].track
                               /\ found[k].frame - found[i].frame <= MaxMisses + 1

\* The pipeline after n frames: a track that is still followed was last seen as
\* many frames ago as it has misses.
RunInv(run, n) ==
  /\ run \in Runs
  /\ Steady(run.tracker)
  /\ \A k \in DOMAIN run.found :
       run.found[k].track < run.tracker.next /\ run.found[k].frame <= n
  /\ \A i \in DOMAIN run.tracker.tracks : \E k \in DOMAIN run.found :
       /\ run.found[k].track = run.tracker.tracks[i].id
       /\ run.found[k].label = run.tracker.tracks[i].label
       /\ run.found[k].frame + run.tracker.tracks[i].misses = n
  /\ Consistent(run.found)

\* The positions of two sequences in one.
LEMMA Joined ==
  ASSUME NEW T, NEW s \in Seq(T), NEW t \in Seq(T)
  PROVE  /\ s \o t \in Seq(T)
         /\ Len(s) \in Nat /\ DOMAIN s = 1..Len(s) /\ DOMAIN t \subseteq Nat \ {0}
         /\ \A k \in DOMAIN s : k \in DOMAIN (s \o t) /\ (s \o t)[k] = s[k]
         /\ \A k \in DOMAIN t : Len(s) + k \in DOMAIN (s \o t) /\ (s \o t)[Len(s) + k] = t[k]
         /\ \A k \in DOMAIN (s \o t) :
              k \in Nat /\ (k \in DOMAIN s \/ \E j \in DOMAIN t : k = Len(s) + j)
<1>1. /\ s \o t \in Seq(T) /\ Len(s) \in Nat /\ Len(t) \in Nat
      /\ DOMAIN s = 1..Len(s) /\ DOMAIN t = 1..Len(t) /\ DOMAIN (s \o t) = 1..(Len(s) + Len(t))
      /\ \A k \in 1..(Len(s) + Len(t)) : (s \o t)[k] = IF k <= Len(s) THEN s[k] ELSE t[k - Len(s)]
  OBVIOUS
<1> DEFINE st == s \o t
<1> HIDE DEF st
<1>2. \A k \in 1..Len(s) : k \in 1..(Len(s) + Len(t)) /\ st[k] = s[k]
  BY <1>1 DEF st
<1>3. \A k \in 1..Len(t) : Len(s) + k \in 1..(Len(s) + Len(t)) /\ st[Len(s) + k] = t[k]
  BY <1>1 DEF st
<1>4. \A k \in 1..(Len(s) + Len(t)) :
         k \in Nat /\ (k \in 1..Len(s) \/ \E j \in 1..Len(t) : k = Len(s) + j)
  <2> TAKE k \in 1..(Len(s) + Len(t))
  <2>1. k > Len(s) => k - Len(s) \in 1..Len(t) /\ k = Len(s) + (k - Len(s))
    BY <1>1
  <2> QED
    BY <1>1, <2>1
<1>5. 1..Len(t) \subseteq Nat \ {0}
  OBVIOUS
<1> QED
  BY <1>1, <1>2, <1>3, <1>4, <1>5 DEF st

\* One frame keeps what the run promises: a detection either takes up a track
\* that is still followed, and so was seen within the limit, or starts one under
\* an id that no earlier detection has.
LEMMA FrameKeepsRun ==
  ASSUME NEW v \in Seq(Seq(Reports)), NEW frame \in DOMAIN v,
         NEW run \in Runs, Steady(run.tracker)
  PROVE  /\ WithFrame(v, run, frame) \in Runs
         /\ Steady(WithFrame(v, run, frame).tracker)
         /\ RunInv(run, frame - 1) => RunInv(WithFrame(v, run, frame), frame)
<1> DEFINE kept == Retained(v[frame])
           tracker == run.tracker
           tracks == tracker.tracks
           ids == TrackIds(tracker, kept)
           M == Matches(tracks, kept)
           D == DOMAIN kept
           found == run.found
           new == [d \in D |-> [frame |-> frame, track |-> ids[d],
                                label |-> kept[d].label, box |-> kept[d].box]]
           aged == Aged(tracks, M)
           fresh == [d \in D |-> [id |-> ids[d], label |-> kept[d].label,
                                  box |-> kept[d].box, misses |-> 0]]
           next == Updated(tracker, kept).next
           found2 == found \o new
           tracks2 == aged \o fresh
<1>1. WithFrame(v, run, frame) =
         [tracker |-> [tracks |-> tracks2, next |-> next], found |-> found2]
  BY DEF WithFrame, Updated
<1>2. /\ kept \in Seq(Reports) /\ D = 1..Len(kept) /\ Len(kept) \in Nat
  <2>1. v[frame] \in Seq(Reports)
    OBVIOUS
  <2>2. kept \in Seq(Reports)
    BY <2>1, RetainedIsTyped
  <2> HIDE DEF kept
  <2> QED
    BY <2>2
<1> HIDE DEF kept
<1>3. /\ Steady(tracker) /\ tracks \in Seq(TrackTypes) /\ tracker.next \in Nat
      /\ found \in Seq(DetectionEvents)
  BY DEF RunInv, Steady, Runs
<1>4. /\ ids \in [D -> Nat]
      /\ next \in Nat /\ tracker.next <= next
      /\ \A d \in D :
           \/ \E p \in M : /\ p[1] \in DOMAIN tracks /\ p[2] = d
                           /\ ids[d] = tracks[p[1]].id
                           /\ kept[d].label = tracks[p[1]].label
           \/ tracker.next <= ids[d] /\ ids[d] < next
      /\ \A d, e \in D : ids[d] = ids[e] => d = e
  BY <1>2, <1>3, TrackIdsOfFrame
<1>5. /\ aged \in Seq(TrackTypes)
      /\ \E at \in [DOMAIN aged -> DOMAIN tracks] :
           /\ \A i \in DOMAIN aged :
                /\ aged[i].id = tracks[at[i]].id
                /\ aged[i].label = tracks[at[i]].label
                /\ aged[i].misses = tracks[at[i]].misses + 1
                /\ aged[i].misses <= MaxMisses
                /\ \A p \in M : p[1] # at[i]
           /\ \A i, j \in DOMAIN aged : i < j => at[i] < at[j]
  BY <1>3, AgedTracks
<1> HIDE DEF ids, M, aged, next
<1>6. ASSUME NEW d \in D
      PROVE  /\ kept[d].label \in STRING /\ kept[d].box \in Boxes /\ ids[d] \in Nat
  <2>1. kept[d] \in Reports
    BY <1>2
  <2> QED
    BY <1>4, <2>1 DEF Reports
<1>7. new \in Seq(DetectionEvents) /\ DOMAIN new = D
  <2>1. \A d \in D : new[d] \in DetectionEvents
    BY <1>6 DEF DetectionEvents
  <2>2. new \in [1..Len(kept) -> DetectionEvents]
    BY <1>2, <2>1
  <2> QED
    BY <1>2, <2>2
<1>8. fresh \in Seq(TrackTypes) /\ DOMAIN fresh = D
  <2>1. \A d \in D : fresh[d] \in TrackTypes
    BY <1>6 DEF TrackTypes
  <2>2. fresh \in [1..Len(kept) -> TrackTypes]
    BY <1>2, <2>1
  <2> QED
    BY <1>2, <2>2
<1>9. \A d \in D : /\ new[d].frame = frame /\ new[d].track = ids[d]
                   /\ new[d].label = kept[d].label
                   /\ fresh[d].id = ids[d] /\ fresh[d].label = kept[d].label
                   /\ fresh[d].misses = 0
  OBVIOUS
<1> HIDE DEF new, fresh, D
<1>10. /\ found2 \in Seq(DetectionEvents)
       /\ \A k \in DOMAIN found : k \in DOMAIN found2 /\ found2[k] = found[k]
       /\ \A d \in D : Len(found) + d \in DOMAIN found2 /\ found2[Len(found) + d] = new[d]
       /\ \A k \in DOMAIN found2 :
            k \in Nat /\ (k \in DOMAIN found \/ \E d \in D : k = Len(found) + d)
       /\ Len(found) \in Nat /\ DOMAIN found = 1..Len(found) /\ D \subseteq Nat \ {0}
  <2>1. /\ found \o new \in Seq(DetectionEvents)
        /\ Len(found) \in Nat /\ DOMAIN found = 1..Len(found) /\ DOMAIN new \subseteq Nat \ {0}
        /\ \A k \in DOMAIN found : k \in DOMAIN (found \o new) /\ (found \o new)[k] = found[k]
        /\ \A k \in DOMAIN new : /\ Len(found) + k \in DOMAIN (found \o new)
                                 /\ (found \o new)[Len(found) + k] = new[k]
        /\ \A k \in DOMAIN (found \o new) :
             k \in Nat /\ (k \in DOMAIN found \/ \E j \in DOMAIN new : k = Len(found) + j)
    <3> HIDE DEF found
    <3> QED
      BY <1>3, <1>7, Joined
  <2>2. found2 = found \o new
    OBVIOUS
  <2> HIDE DEF found, found2
  <2> QED
    BY <1>7, <2>1, <2>2
<1>11. /\ tracks2 \in Seq(TrackTypes)
       /\ \A k \in DOMAIN aged : k \in DOMAIN tracks2 /\ tracks2[k] = aged[k]
       /\ \A d \in D : Len(aged) + d \in DOMAIN tracks2 /\ tracks2[Len(aged) + d] = fresh[d]
       /\ \A k \in DOMAIN tracks2 :
            k \in Nat /\ (k \in DOMAIN aged \/ \E d \in D : k = Len(aged) + d)
       /\ Len(aged) \in Nat /\ DOMAIN aged = 1..Len(aged)
  <2>1. /\ aged \o fresh \in Seq(TrackTypes)
        /\ Len(aged) \in Nat /\ DOMAIN aged = 1..Len(aged) /\ DOMAIN fresh \subseteq Nat \ {0}
        /\ \A k \in DOMAIN aged : k \in DOMAIN (aged \o fresh) /\ (aged \o fresh)[k] = aged[k]
        /\ \A k \in DOMAIN fresh : /\ Len(aged) + k \in DOMAIN (aged \o fresh)
                                   /\ (aged \o fresh)[Len(aged) + k] = fresh[k]
        /\ \A k \in DOMAIN (aged \o fresh) :
             k \in Nat /\ (k \in DOMAIN aged \/ \E j \in DOMAIN fresh : k = Len(aged) + j)
    BY <1>5, <1>8, Joined
  <2>2. tracks2 = aged \o fresh
    OBVIOUS
  <2> HIDE DEF tracks2
  <2> QED
    BY <1>8, <2>1, <2>2
<1> HIDE DEF found2, tracks2
<1>12. PICK at \in [DOMAIN aged -> DOMAIN tracks] :
           /\ \A i \in DOMAIN aged :
                /\ aged[i].id = tracks[at[i]].id
                /\ aged[i].label = tracks[at[i]].label
                /\ aged[i].misses = tracks[at[i]].misses + 1
                /\ aged[i].misses <= MaxMisses
                /\ \A p \in M : p[1] # at[i]
           /\ \A i, j \in DOMAIN aged : i < j => at[i] < at[j]
  BY <1>5
<1>13. ASSUME NEW t \in DOMAIN tracks
       PROVE  /\ tracks[t].id \in Nat /\ tracks[t].misses \in Nat
              /\ tracks[t].id < tracker.next /\ tracks[t].misses <= MaxMisses
              /\ \A u \in DOMAIN tracks : tracks[t].id = tracks[u].id => t = u
  <2>1. tracks[t] \in TrackTypes
    BY <1>3
  <2> QED
    BY <2>1 DEF Steady, TrackTypes
<1>14. frame \in Nat /\ frame - 1 \in Nat /\ (frame - 1) + 1 = frame
  BY DOMAIN v = 1..Len(v)
<1> HIDE DEF tracks, tracker, found
<1>16. \A i \in DOMAIN aged : at[i] \in DOMAIN tracks
  BY <1>12
<1>17. ASSUME NEW i \in DOMAIN aged
       PROVE  aged[i].id \in Nat /\ aged[i].id < tracker.next /\ aged[i].id < next
  <2>1. aged[i] \in TrackTypes
    BY <1>5
  <2>2. aged[i].id \in Nat
    BY <2>1 DEF TrackTypes
  <2>3. aged[i].id < tracker.next
    BY <1>12, <1>13, <1>16
  <2> QED
    BY <1>3, <1>4, <2>2, <2>3
<1>18. ASSUME NEW d \in D
       PROVE  ids[d] < next
  <2>1. CASE tracker.next <= ids[d] /\ ids[d] < next
    BY <2>1
  <2>2. CASE \E t \in DOMAIN tracks : ids[d] = tracks[t].id
    BY <1>3, <1>4, <1>13, <2>2
  <2> QED
    BY <1>4, <2>1, <2>2
\* The tracks.
<1>19. ASSUME NEW i \in DOMAIN tracks2
       PROVE  tracks2[i].id < next /\ tracks2[i].misses <= MaxMisses
  <2>1. CASE i \in DOMAIN aged
    BY <1>11, <1>12, <1>17, <2>1
  <2>2. CASE \E d \in D : i = Len(aged) + d
    <3>1. PICK d \in D : i = Len(aged) + d
      BY <2>2
    <3>2. tracks2[i].id = ids[d] /\ tracks2[i].misses = 0
      BY <1>9, <1>11, <3>1
    <3> QED
      BY <1>18, <3>2, MaxMissesAssumption
  <2> QED
    BY <1>11, <2>1, <2>2
<1>20. ASSUME NEW i \in DOMAIN aged, NEW d \in D
       PROVE  aged[i].id # ids[d]
  <2>1. CASE tracker.next <= ids[d]
    BY <1>3, <1>6, <1>17, <2>1
  <2>2. CASE \E p \in M : p[1] \in DOMAIN tracks /\ ids[d] = tracks[p[1]].id
    BY <1>12, <1>13, <1>16, <2>2
  <2> QED
    BY <1>4, <2>1, <2>2
<1>21. ASSUME NEW i \in DOMAIN aged, NEW j \in DOMAIN aged, aged[i].id = aged[j].id
       PROVE  i = j
  <2>1. at[i] = at[j]
    BY <1>12, <1>13, <1>16, <1>21
  <2>2. i \in Nat /\ j \in Nat /\ at[i] \in Nat /\ at[j] \in Nat
    BY <1>3, <1>11, <1>16
  <2>3. ~(i < j) /\ ~(j < i)
    BY <1>12, <2>1, <2>2
  <2> QED
    BY <2>2, <2>3
<1>22. ASSUME NEW i \in DOMAIN tracks2, NEW j \in DOMAIN tracks2, tracks2[i].id = tracks2[j].id
       PROVE  i = j
  <2>1. ASSUME NEW k \in DOMAIN tracks2
        PROVE  \/ k \in DOMAIN aged /\ tracks2[k].id = aged[k].id
               \/ \E d \in D : k = Len(aged) + d /\ tracks2[k].id = ids[d]
    <3>1. CASE k \in DOMAIN aged
      BY <1>11, <3>1
    <3>2. CASE \E d \in D : k = Len(aged) + d
      <4>1. PICK d \in D : k = Len(aged) + d
        BY <3>2
      <4>2. tracks2[k].id = ids[d]
        BY <1>9, <1>11, <4>1
      <4> QED
        BY <4>1, <4>2
    <3> QED
      BY <1>11, <3>1, <3>2
  <2> QED
    <3>1. CASE i \in DOMAIN aged /\ tracks2[i].id = aged[i].id
      BY <1>20, <1>21, <1>22, <2>1, <3>1
    <3>2. CASE j \in DOMAIN aged /\ tracks2[j].id = aged[j].id
      BY <1>20, <1>21, <1>22, <2>1, <3>2
    <3>3. CASE \E d, e \in D : /\ i = Len(aged) + d /\ tracks2[i].id = ids[d]
                               /\ j = Len(aged) + e /\ tracks2[j].id = ids[e]
      BY <1>4, <1>22, <3>3
    <3> QED
      BY <2>1, <3>1, <3>2, <3>3
<1>23. Steady([tracks |-> tracks2, next |-> next])
  BY <1>4, <1>11, <1>19, <1>22 DEF Steady
<1> DEFINE run2 == [tracker |-> [tracks |-> tracks2, next |-> next], found |-> found2]
<1>24. run2 \in Runs
  BY <1>4, <1>10, <1>11 DEF Runs
<1>25. ASSUME RunInv(run, frame - 1) PROVE RunInv(run2, frame)
  <2> DEFINE n == frame - 1
  <2>0. n \in Nat /\ n + 1 = frame
    BY <1>14
  <2>1. \A t \in DOMAIN tracks : \E k \in DOMAIN found :
          /\ found[k].track = tracks[t].id
          /\ found[k].label = tracks[t].label
          /\ found[k].frame + tracks[t].misses = n
    BY <1>25 DEF RunInv, tracks, tracker, found
  <2>2. ASSUME NEW k \in DOMAIN found
        PROVE  /\ found[k].track \in Nat /\ found[k].frame \in Nat
               /\ found[k].track < tracker.next /\ found[k].frame <= n
    <3>1. found[k] \in DetectionEvents
      BY <1>3
    <3> QED
      BY <1>25, <3>1 DEF RunInv, DetectionEvents, tracker, found
  <2>3. Consistent(found)
    BY <1>25 DEF RunInv, found
  <2> HIDE DEF n
  \* Where each was last seen.
  <2>4. ASSUME NEW i \in DOMAIN tracks2
         PROVE  \E k \in DOMAIN found2 :
                  /\ found2[k].track = tracks2[i].id
                  /\ found2[k].label = tracks2[i].label
                  /\ found2[k].frame + tracks2[i].misses = frame
    <3>1. CASE i \in DOMAIN aged
      <4>1. PICK k \in DOMAIN found :
                     /\ found[k].track = tracks[at[i]].id
                     /\ found[k].label = tracks[at[i]].label
                     /\ found[k].frame + tracks[at[i]].misses = n
        BY <2>1, <1>16, <3>1
      <4>2. found[k].frame \in Nat /\ tracks[at[i]].misses \in Nat
        BY <1>13, <2>2, <1>16, <3>1
      <4>3. found[k].frame + aged[i].misses = frame
        <5>1. aged[i].misses = tracks[at[i]].misses + 1
          BY <1>12, <3>1
        <5>2. \A a, b \in Nat : a + b = n => a + (b + 1) = frame
          BY <2>0
        <5> QED
          BY <4>1, <4>2, <5>1, <5>2
      <4>4. tracks2[i] = aged[i] /\ k \in DOMAIN found2 /\ found2[k] = found[k]
        BY <1>10, <1>11, <3>1
      <4>5. found[k].track = aged[i].id /\ found[k].label = aged[i].label
        BY <1>12, <3>1, <4>1
      <4> QED
        BY <4>3, <4>4, <4>5
    <3>2. CASE \E d \in D : i = Len(aged) + d
      <4>1. PICK d \in D : i = Len(aged) + d
        BY <3>2
      <4>2. tracks2[i].id = ids[d] /\ tracks2[i].label = kept[d].label /\ tracks2[i].misses = 0
        BY <1>9, <1>11, <4>1
      <4>3. /\ Len(found) + d \in DOMAIN found2
            /\ found2[Len(found) + d].track = ids[d]
            /\ found2[Len(found) + d].label = kept[d].label
            /\ found2[Len(found) + d].frame = frame
        BY <1>9, <1>10
      <4>4. found2[Len(found) + d].frame + tracks2[i].misses = frame
        BY <4>2, <4>3
      <4> QED
        BY <4>2, <4>3, <4>4
    <3> QED
      BY <1>11, <3>1, <3>2
  \* The detections.
  <2>5. ASSUME NEW k \in DOMAIN found2
         PROVE  found2[k].track < next /\ found2[k].frame <= frame
    <3>1. CASE k \in DOMAIN found
      BY <2>0, <1>3, <1>4, <1>10, <2>2, <3>1
    <3>2. CASE \E d \in D : k = Len(found) + d
      <4>1. PICK d \in D : k = Len(found) + d
        BY <3>2
      <4>2. found2[k].track = ids[d] /\ found2[k].frame = frame
        BY <1>9, <1>10, <4>1
      <4> QED
        BY <1>18, <4>2
    <3> QED
      BY <1>10, <3>1, <3>2
  <2>6. ASSUME NEW i \in DOMAIN found, NEW d \in D, found[i].track = ids[d]
         PROVE  found[i].label = kept[d].label /\
                \E k \in (i + 1)..(Len(found) + d) :
                  /\ found2[k].track = found[i].track
                  /\ found2[k].frame - found[i].frame <= MaxMisses + 1
    <3>1. PICK t \in DOMAIN tracks : ids[d] = tracks[t].id /\ kept[d].label = tracks[t].label
      <4>1. found[i].track < tracker.next /\ ids[d] \in Nat
        BY <1>6, <2>2
      <4>2. ~(tracker.next <= ids[d])
        BY <1>3, <2>6, <4>1
      <4> QED
        BY <1>4, <4>2
    <3>2. PICK l \in DOMAIN found :
                     /\ found[l].track = tracks[t].id
                     /\ found[l].label = tracks[t].label
                     /\ found[l].frame + tracks[t].misses = n
      BY <2>1
    <3>3. /\ i \in Nat /\ l \in Nat /\ d \in Nat \ {0} /\ Len(found) \in Nat
          /\ i <= Len(found) /\ l <= Len(found)
      BY <1>10
    <3>4. found[i].frame \in Nat /\ found[l].frame \in Nat /\ tracks[t].misses \in Nat
          /\ tracks[t].misses <= MaxMisses
      BY <1>13, <2>2
    <3>5. Len(found) + d \in (i + 1)..(Len(found) + d)
      BY <3>3
    <3>6. found2[Len(found) + d].track = found[i].track /\ found2[Len(found) + d].frame = frame
      BY <1>9, <1>10, <2>6
    <3>10. frame - found[i].frame <= MaxMisses + 1 =>
             \E k \in (i + 1)..(Len(found) + d) :
                  /\ found2[k].track = found[i].track
                  /\ found2[k].frame - found[i].frame <= MaxMisses + 1
      <4>1. found2[Len(found) + d].frame - found[i].frame = frame - found[i].frame
        BY <3>6
      <4> QED
        BY <3>5, <3>6, <4>1
    <3>7. CASE i = l
      <4>1. frame - found[i].frame <= MaxMisses + 1
        BY <2>0, <3>2, <3>4, <3>7, MaxMissesAssumption
      <4> QED
        BY <3>1, <3>2, <3>7, <3>10, <4>1
    <3>8. CASE l < i
      <4>1. found[l].frame < found[i].frame /\ found[l].label = found[i].label
        BY <2>3, <2>6, <3>1, <3>2, <3>8 DEF Consistent
      <4>2. frame - found[i].frame <= MaxMisses + 1
        <5>1. found[l].frame < found[i].frame /\ found[l].frame + tracks[t].misses = n
          BY <3>2, <4>1
        <5>2. \A a, b, m \in Nat :
              a < b /\ a + m = n /\ m <= MaxMisses => frame - b <= MaxMisses + 1
          BY <2>0, MaxMissesAssumption
        <5> QED
          BY <3>4, <5>1, <5>2
      <4> QED
        BY <3>1, <3>2, <3>10, <4>1, <4>2
    <3>9. CASE i < l
      <4>1. /\ found[i].label = found[l].label
            /\ \E k \in (i + 1)..l : /\ found[k].track = found[i].track
                                     /\ found[k].frame - found[i].frame <= MaxMisses + 1
        BY <2>3, <2>6, <3>1, <3>2, <3>9 DEF Consistent
      <4>2. PICK k \in (i + 1)..l : /\ found[k].track = found[i].track
                                    /\ found[k].frame - found[i].frame <= MaxMisses + 1
        BY <4>1
      <4>3. k \in DOMAIN found /\ k \in (i + 1)..(Len(found) + d)
        BY <1>10, <3>3
      <4>4. found2[k] = found[k]
        BY <1>10, <4>3
      <4>5. found[i].label = kept[d].label
        BY <3>1, <3>2, <4>1
      <4> QED
        BY <4>2, <4>3, <4>4, <4>5
    <3> QED
      BY <3>3, <3>7, <3>8, <3>9
  <2>7. Consistent(found2)
    <3> SUFFICES ASSUME NEW i \in DOMAIN found2, NEW j \in DOMAIN found2,
                        i < j, found2[i].track = found2[j].track
                 PROVE  /\ found2[i].frame < found2[j].frame
                        /\ found2[i].label = found2[j].label
                        /\ \E k \in (i + 1)..j :
                             /\ found2[k].track = found2[i].track
                             /\ found2[k].frame - found2[i].frame <= MaxMisses + 1
      BY DEF Consistent
    <3>1. CASE i \in DOMAIN found /\ j \in DOMAIN found
      <4>1. found2[i] = found[i] /\ found2[j] = found[j]
        BY <1>10, <3>1
      <4>2. /\ found[i].frame < found[j].frame
            /\ found[i].label = found[j].label
            /\ \E k \in (i + 1)..j : /\ found[k].track = found[i].track
                                     /\ found[k].frame - found[i].frame <= MaxMisses + 1
        BY <2>3, <3>1, <4>1 DEF Consistent
      <4>3. \A k \in (i + 1)..j : found2[k] = found[k]
        <5>1. \A k \in (i + 1)..j : k \in DOMAIN found
          BY <1>10, <3>1
        <5> QED
          BY <1>10, <5>1
      <4> QED
        BY <4>1, <4>2, <4>3
    <3>2. CASE i \in DOMAIN found /\ \E d \in D : j = Len(found) + d
      <4>1. PICK d \in D : j = Len(found) + d
        BY <3>2
      <4>2. /\ found2[i] = found[i]
            /\ found2[j].track = ids[d] /\ found2[j].frame = frame
            /\ found2[j].label = kept[d].label
        BY <1>9, <1>10, <3>2, <4>1
      <4>3. found[i].frame < frame
        BY <2>0, <2>2, <3>2
      <4> QED
        BY <2>6, <3>2, <4>1, <4>2, <4>3
    <3>3. CASE (\E d \in D : i = Len(found) + d) /\ j \in DOMAIN found
      <4>1. PICK d \in D : i = Len(found) + d
        BY <3>3
      <4>2. j <= Len(found) /\ j \in Nat /\ d \in Nat /\ Len(found) \in Nat
        BY <1>10, <3>3
      <4> QED
        BY <4>1, <4>2
    <3>4. CASE (\E d \in D : i = Len(found) + d) /\ (\E d \in D : j = Len(found) + d)
      <4>1. PICK d \in D, e \in D : i = Len(found) + d /\ j = Len(found) + e
        BY <3>4
      <4>2. ids[d] = ids[e]
        BY <1>9, <1>10, <4>1
      <4>3. d = e
        BY <1>4, <4>2
      <4> QED
        BY <1>10, <4>1, <4>3
    <3> QED
      BY <1>10, <3>1, <3>2, <3>3, <3>4
  <2> QED
    BY <1>23, <1>24, <2>4, <2>5, <2>7 DEF RunInv
<1> QED
  BY <1>1, <1>23, <1>24, <1>25

\* Before the first frame.
NewRun == [tracker |-> FreshTracker, found |-> <<>>]

\* A fresh tracker has nothing to break.
LEMMA NewRunInv == NewRun \in Runs /\ Steady(NewRun.tracker) /\ RunInv(NewRun, 0)
<1>1. <<>> \in Seq(TrackTypes) /\ <<>> \in Seq(DetectionEvents)
  OBVIOUS
<1>2. NewRun \in Runs
  BY <1>1 DEF NewRun, FreshTracker, NewTracker, Runs
<1>3. NewRun.tracker.tracks = <<>> /\ NewRun.found = <<>>
  BY DEF NewRun, FreshTracker, NewTracker
<1>4. Steady(NewRun.tracker)
  BY <1>2, <1>3 DEF Steady, Runs
<1> QED
  BY <1>2, <1>3, <1>4 DEF RunInv, Consistent

\* run_detection_pipeline ends with a run that keeps its promise over all frames.
LEMMA DetectedByRun ==
  ASSUME NEW v \in Seq(Seq(Reports))
  PROVE  \E run : RunInv(run, Len(v)) /\ run.found = Detected(v)
<1> DEFINE order == [frame \in DOMAIN v |-> frame]
           A == {run \in Runs : Steady(run.tracker)}
           E == DOMAIN v
           D == DOMAIN order
           G == [x \in A \X E |-> WithFrame(v, x[1], x[2])]
           Folded(f) == f = [u \in SUBSET D |->
             IF u = {} THEN NewRun ELSE LET x == Max(u) IN WithFrame(v, f[u \ {x}], order[x])]
<1>1. order \in Seq(E) /\ D = 1..Len(v) /\ E = 1..Len(v)
     /\ Len(v) \in Nat /\ \A k \in E : order[k] = k
  OBVIOUS
<1>2. Detected(v) = (CHOOSE f : Folded(f))[D].found
  BY DEF Detected, FoldLeft, MapThenFoldSet, NewRun
<1> HIDE DEF order
<1>3. G \in [A \X E -> A]
  <2>1. ASSUME NEW run \in A, NEW frame \in E
        PROVE  WithFrame(v, run, frame) \in A
    BY FrameKeepsRun
  <2> HIDE DEF A, E
  <2> QED
    BY <2>1
<1>4. \E f : Folded(f)
  <2>1. PICK f : /\ f \in [SUBSET D -> A]
                 /\ \A u \in SUBSET D :
                      f[u] = IF u = {} THEN NewRun ELSE G[<<f[u \ {Max(u)}], order[Max(u)]>>]
    <3>1. NewRun \in A
      BY NewRunInv
    <3> HIDE DEF G, A, E
    <3>2. PICK f : IsFold(f, A, NewRun, order, G)
      BY <1>1, <1>3, <3>1, FoldExists
    <3> QED
      BY <3>2 DEF IsFold
  <2>2. ASSUME NEW u \in SUBSET D, u # {}
        PROVE  G[<<f[u \ {Max(u)}], order[Max(u)]>>] =
               WithFrame(v, f[u \ {Max(u)}], order[Max(u)])
    <3>1. Max(u) \in u
      BY <1>1, <2>2, GreatestPosition
    <3>2. f[u \ {Max(u)}] \in A /\ order[Max(u)] \in E
      <4> HIDE DEF A
      <4> QED
        BY <1>1, <2>1, <3>1
    <3> HIDE DEF A, E
    <3> QED
      BY <3>2
  <2> HIDE DEF G, A
  <2>3. \A u \in SUBSET D :
          f[u] = IF u = {} THEN NewRun ELSE WithFrame(v, f[u \ {Max(u)}], order[Max(u)])
    BY <2>1, <2>2
  <2>4. Folded(f)
    BY <2>1, <2>3
  <2> QED
    BY <2>4
<1>5. PICK f : f = (CHOOSE g : Folded(g))
  OBVIOUS
<1>6. Folded(f)
  <2> HIDE DEF Folded
  <2> QED
    BY <1>4, <1>5
<1> DEFINE Done == {k \in Nat : k <= Len(v) => RunInv(f[1..k], k)}
<1>7. 0 \in Done
  <2>1. 1..0 = {} /\ {} \in SUBSET D
    OBVIOUS
  <2>2. f[{}] = NewRun
    BY <1>6, <2>1
  <2> QED
    BY <2>1, <2>2, NewRunInv
<1>8. ASSUME NEW k \in Nat, k \in Done
      PROVE  k + 1 \in Done
  <2> SUFFICES ASSUME k + 1 <= Len(v) PROVE RunInv(f[1..(k + 1)], k + 1)
    OBVIOUS
  <2>1. k <= Len(v) /\ k + 1 \in E /\ k + 1 \in 1..Len(v) /\ (k + 1) - 1 = k
    BY <1>1
  <2>2. /\ 1..(k + 1) \in SUBSET D /\ 1..(k + 1) # {}
        /\ Max(1..(k + 1)) = k + 1
        /\ (1..(k + 1)) \ {k + 1} = 1..k
    BY <1>1, <2>1, StepByStep
  <2>3. f[1..(k + 1)] = WithFrame(v, f[1..k], k + 1)
    <3>1. order[k + 1] = k + 1
      BY <1>1, <2>1
    <3>2. f[1..(k + 1)] =
              WithFrame(v, f[(1..(k + 1)) \ {Max(1..(k + 1))}], order[Max(1..(k + 1))])
      BY <1>6, <2>2
    <3> QED
      BY <2>2, <3>1, <3>2
  <2>4. RunInv(f[1..k], k)
    BY <1>8, <2>1
  <2>5. f[1..k] \in Runs /\ Steady(f[1..k].tracker)
    BY <2>4 DEF RunInv
  <2> QED
    BY <2>1, <2>3, <2>4, <2>5, FrameKeepsRun
<1>9. RunInv(f[1..Len(v)], Len(v))
  <2>1. Len(v) <= Len(v)
    BY <1>1
  <2>2. Len(v) \in Done
    <3> HIDE DEF Done
    <3> QED
      BY <1>1, <1>7, <1>8, Counting
  <2> QED
    BY <2>1, <2>2
<1>10. f[1..Len(v)].found = Detected(v)
  BY <1>1, <1>2, <1>5
<1> QED
  BY <1>9, <1>10

-----------------------------------------------------------------------------
(* The worker. *)

WorkerType ==
  [pc : {"pipeline", "publish", "completed", "failed"}, attempt : Nat,
   found : Seq(DetectionEvents), sent : Nat]

WorkerTypeOK ==
  /\ video \in Videos
  /\ worker \in WorkerType
  /\ topic \in Seq(DetectionEvents)

\* What the worker holds, whichever attempt it is in, is what the video shows.
FoundInv ==
  /\ worker.found = <<>> \/ worker.found = Detected(video)
  /\ worker.pc \in {"publish", "completed"} => worker.found = Detected(video)

\* The topic has what the video shows, and all this attempt has sent.
TopicInv ==
  /\ \A e \in DOMAIN topic : \E i \in DOMAIN Detected(video) : topic[e] = Detected(video)[i]
  /\ worker.pc \in {"publish", "completed"} =>
       /\ worker.sent <= Len(worker.found)
       /\ \A i \in 1..worker.sent : \E e \in DOMAIN topic : topic[e] = worker.found[i]
  /\ worker.pc = "completed" => worker.sent = Len(worker.found)

WorkerInv == WorkerTypeOK /\ FoundInv /\ TopicInv

\* Whatever a video shows, its detections are consistent.
LEMMA DetectedIsConsistent ==
  ASSUME NEW v \in Videos
  PROVE  Detected(v) \in Seq(DetectionEvents) /\ Consistent(Detected(v))
<1>1. v \in Seq(Seq(Reports))
  BY VideosAssumption
<1>2. PICK run : RunInv(run, Len(v)) /\ run.found = Detected(v)
  BY <1>1, DetectedByRun
<1> QED
  BY <1>2 DEF RunInv, Runs

\* At first nothing is found and nothing sent.
LEMMA InitWorkerInv == Init => WorkerInv
<1> SUFFICES ASSUME Init PROVE WorkerInv
  OBVIOUS
<1>1. <<>> \in Seq(DetectionEvents)
  OBVIOUS
<1>2. /\ video \in Videos /\ topic = <<>>
      /\ worker = [pc |-> "pipeline", attempt |-> 1, found |-> <<>>, sent |-> 0]
  BY DEF Init
<1>3. WorkerTypeOK
  BY <1>1, <1>2 DEF WorkerTypeOK, WorkerType
<1>4. FoundInv /\ TopicInv
  BY <1>2 DEF FoundInv, TopicInv
<1> QED
  BY <1>3, <1>4 DEF WorkerInv

\* The next detection is put on the topic.
LEMMA SentIsOnTopic ==
  ASSUME WorkerInv, worker.pc = "publish", worker.sent < Len(worker.found),
         topic' = Append(topic, worker.found[worker.sent + 1]), video' = video
  PROVE  /\ topic' \in Seq(DetectionEvents)
         /\ \A e \in DOMAIN topic' :
                \E i \in DOMAIN Detected(video) : topic'[e] = Detected(video)[i]
         /\ \A i \in 1..(worker.sent + 1) : \E e \in DOMAIN topic' : topic'[e] = worker.found[i]
<1> DEFINE n == worker.sent + 1  x == worker.found[n]
<1>1. /\ topic \in Seq(DetectionEvents) /\ worker.sent \in Nat
      /\ worker.found \in Seq(DetectionEvents) /\ worker.found = Detected(video)
  BY DEF WorkerInv, WorkerTypeOK, WorkerType, FoundInv
<1>2. n \in DOMAIN worker.found /\ n \in Nat
  BY <1>1
<1>3. x \in DetectionEvents
  BY <1>1, <1>2
<1> HIDE DEF x
<1>4. /\ topic' \in Seq(DetectionEvents)
      /\ DOMAIN topic' = DOMAIN topic \cup {Len(topic) + 1}
      /\ \A e \in DOMAIN topic : topic'[e] = topic[e]
      /\ topic'[Len(topic) + 1] = x
  BY <1>1, <1>3 DEF x
<1>5. \A e \in DOMAIN topic' : \E i \in DOMAIN Detected(video) : topic'[e] = Detected(video)[i]
  BY <1>1, <1>2, <1>4 DEF x, WorkerInv, TopicInv
<1>6. \A i \in 1..n : \E e \in DOMAIN topic' : topic'[e] = worker.found[i]
  <2>1. \A i \in 1..n : i = n \/ i \in 1..worker.sent
    BY <1>1
  <2> QED
    BY <1>4, <2>1 DEF x, WorkerInv, TopicInv
<1> QED
  BY <1>4, <1>5, <1>6

\* Every step keeps it; a new attempt finds what the last one found.
LEMMA NextWorkerInv == WorkerInv /\ [Next]_vars => WorkerInv'
<1> SUFFICES ASSUME WorkerInv, [Next]_vars PROVE WorkerInv'
  OBVIOUS
<1>1. /\ video \in Videos /\ topic \in Seq(DetectionEvents) /\ worker \in WorkerType
      /\ Detected(video) \in Seq(DetectionEvents)
  BY DetectedIsConsistent DEF WorkerInv, WorkerTypeOK
<1>2. CASE RunPipeline
  <2>1. /\ worker' = [worker EXCEPT !.pc = "publish", !.found = Detected(video), !.sent = 0]
        /\ video' = video /\ topic' = topic
    BY <1>2 DEF RunPipeline
  <2>2. /\ worker' \in WorkerType /\ worker'.pc = "publish"
        /\ worker'.found = Detected(video) /\ worker'.sent = 0
    BY <1>1, <2>1 DEF WorkerType
  <2>3. Len(worker'.found) \in Nat
    BY <1>1, <2>2
  <2>4. TopicInv'
    BY <2>1, <2>2, <2>3 DEF WorkerInv, TopicInv
  <2> QED
    BY <1>1, <2>1, <2>2, <2>4 DEF WorkerInv, WorkerTypeOK, FoundInv
<1>3. CASE Publish
  <2>1. /\ worker.pc = "publish" /\ worker.sent < Len(worker.found)
        /\ topic' = Append(topic, worker.found[worker.sent + 1])
        /\ worker' = [worker EXCEPT !.sent = @ + 1]
        /\ video' = video
    BY <1>3 DEF Publish
  <2>2. /\ worker' \in WorkerType /\ worker'.pc = "publish"
        /\ worker'.found = worker.found /\ worker'.sent = worker.sent + 1
    <3>1. worker.sent + 1 \in Nat
      BY <1>1 DEF WorkerType
    <3> QED
      BY <1>1, <2>1, <3>1 DEF WorkerType
  <2>3. /\ topic' \in Seq(DetectionEvents)
        /\ \A e \in DOMAIN topic' :
                \E i \in DOMAIN Detected(video) : topic'[e] = Detected(video)[i]
        /\ \A i \in 1..(worker.sent + 1) : \E e \in DOMAIN topic' : topic'[e] = worker.found[i]
    BY <2>1, SentIsOnTopic
  <2>4. worker'.sent <= Len(worker'.found)
    <3>1. worker.sent \in Nat /\ Len(worker.found) \in Nat
      BY <1>1 DEF WorkerType
    <3> QED
      BY <2>1, <2>2, <3>1
  <2>5. FoundInv'
    BY <2>1, <2>2 DEF WorkerInv, FoundInv
  <2>6. TopicInv'
    BY <2>1, <2>2, <2>3, <2>4 DEF TopicInv
  <2> QED
    BY <1>1, <2>1, <2>2, <2>3, <2>5, <2>6 DEF WorkerInv, WorkerTypeOK
<1>4. CASE Complete
  <2>1. /\ worker.pc = "publish" /\ worker.sent = Len(worker.found)
        /\ worker' = [worker EXCEPT !.pc = "completed"]
        /\ video' = video /\ topic' = topic
    BY <1>4 DEF Complete
  <2>2. /\ worker' \in WorkerType /\ worker'.pc = "completed"
        /\ worker'.found = worker.found /\ worker'.sent = worker.sent
    BY <1>1, <2>1 DEF WorkerType
  <2>3. FoundInv' /\ TopicInv'
    BY <2>1, <2>2 DEF WorkerInv, FoundInv, TopicInv
  <2> QED
    BY <1>1, <2>1, <2>2, <2>3 DEF WorkerInv, WorkerTypeOK
<1>5. CASE StageFails
  <2>1. /\ \/ topic' = topic
           \/ /\ worker.pc = "publish" /\ worker.sent < Len(worker.found)
              /\ topic' = Append(topic, worker.found[worker.sent + 1])
        /\ worker' = IF worker.attempt < RetryAttempts
                     THEN [worker EXCEPT !.pc = "pipeline", !.attempt = @ + 1]
                     ELSE [worker EXCEPT !.pc = "failed"]
        /\ video' = video
    BY <1>5 DEF StageFails
  <2>2. worker' \in WorkerType /\ worker'.pc \in {"pipeline", "failed"}
       /\ worker'.found = worker.found
    <3>1. worker.attempt + 1 \in Nat
      BY <1>1 DEF WorkerType
    <3>2. CASE worker' = [worker EXCEPT !.pc = "pipeline", !.attempt = @ + 1]
      BY <1>1, <3>1, <3>2 DEF WorkerType
    <3>3. CASE worker' = [worker EXCEPT !.pc = "failed"]
      BY <1>1, <3>3 DEF WorkerType
    <3> QED
      BY <2>1, <3>2, <3>3
  <2>3. /\ topic' \in Seq(DetectionEvents)
        /\ \A e \in DOMAIN topic' :
                \E i \in DOMAIN Detected(video) : topic'[e] = Detected(video)[i]
    <3>1. CASE topic' = topic
      BY <1>1, <3>1 DEF WorkerInv, TopicInv
    <3>2. CASE /\ worker.pc = "publish" /\ worker.sent < Len(worker.found)
               /\ topic' = Append(topic, worker.found[worker.sent + 1])
      BY <2>1, <3>2, SentIsOnTopic
    <3> QED
      BY <2>1, <3>1, <3>2
  <2>4. FoundInv' /\ TopicInv'
    BY <2>1, <2>2, <2>3 DEF WorkerInv, FoundInv, TopicInv
  <2> QED
    BY <1>1, <2>1, <2>2, <2>3, <2>4 DEF WorkerInv, WorkerTypeOK
<1>6. CASE UNCHANGED workerVars
  <2>1. video' = video /\ worker' = worker /\ topic' = topic
    BY <1>6 DEF workerVars
  <2> QED
    BY <2>1 DEF WorkerInv, WorkerTypeOK, FoundInv, TopicInv
<1>7. \/ RunPipeline \/ Publish \/ Complete \/ StageFails \/ UNCHANGED workerVars
  BY DEF Next, WorkerStep, HandlerStep, Reassign, Deliver, Mark, Insert, Relay, DeadLetter, Kill,
         MarkFails, InsertFails, DeadLetterFails, vars
<1> QED
  BY <1>2, <1>3, <1>4, <1>5, <1>6, <1>7

\* What the worker found, and what the topic has of it, over all attempts.
THEOREM WorkerInvariant == Spec => []WorkerInv
BY InitWorkerInv, NextWorkerInv, PTL DEF Spec

\* REQ-5.6: over attempts that fail at any point, a publish whose answer is lost
\* among them, the topic has in the end the detections of the completed run and
\* nothing else (commands_consumer.py).
THEOREM PublishedTheRun == Spec => []PublishedIsTheRun
<1>1. WorkerInv => PublishedIsTheRun
  <2> SUFFICES ASSUME WorkerInv, worker.pc = "completed"
               PROVE  {topic[e] : e \in DOMAIN topic} =
                      {worker.found[i] : i \in DOMAIN worker.found}
    BY DEF PublishedIsTheRun
  <2>1. worker.found = Detected(video) /\ worker.found \in Seq(DetectionEvents)
    BY DEF WorkerInv, WorkerTypeOK, WorkerType, FoundInv
  <2>2. DOMAIN worker.found = 1..worker.sent
    BY <2>1 DEF WorkerInv, TopicInv
  <2>3. \A e \in DOMAIN topic : \E i \in DOMAIN worker.found : topic[e] = worker.found[i]
    BY <2>1 DEF WorkerInv, TopicInv
  <2>4. \A i \in DOMAIN worker.found : \E e \in DOMAIN topic : topic[e] = worker.found[i]
    BY <2>2 DEF WorkerInv, TopicInv
  <2> QED
    BY <2>3, <2>4
<1> QED
  BY <1>1, WorkerInvariant, PTL

\* Whatever the video shows: the detections of a frame have different tracks, a
\* track keeps its label, and it is taken up again only within the misses it
\* survives (tracker.py).
THEOREM TracksKeepTheirPromise == Spec => []TracksAreConsistent
<1>1. WorkerInv => TracksAreConsistent
  <2> SUFFICES ASSUME WorkerInv PROVE TracksAreConsistent
    OBVIOUS
  <2>1. Consistent(Detected(video))
    BY DetectedIsConsistent DEF WorkerInv, WorkerTypeOK
  <2>2. worker.found = <<>> \/ worker.found = Detected(video)
    BY DEF WorkerInv, FoundInv
  <2>3. Consistent(worker.found)
    BY <2>1, <2>2 DEF Consistent
  <2> QED
    BY <2>3 DEF Consistent, TracksAreConsistent
<1> QED
  BY <1>1, WorkerInvariant, PTL
=============================================================================
