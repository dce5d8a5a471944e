--------------------------- MODULE EdgeSync_proofs ---------------------------
(***************************************************************************)
(* Proofs about EdgeSync, for every number of overlapping cycles and every *)
(* bound: agent and API implement EdgeDelivery, and an event the agent no  *)
(* longer holds is accounted for.  SyncInv is the inductive strengthening. *)
(* A prune bounds the buffer, which is always finite.                      *)
(***************************************************************************)
EXTENDS EdgeSync, FiniteSetTheorems, TLAPS

\* A row id names one row, was handed out already, and only detections are
\* synced from the start.
RowInv ==
  /\ \A r \in buffer : r.row <= lastRow
  /\ \A r \in buffer : r.event \in Events => r.event <= recorded
  /\ \A r \in buffer : ~r.synced => r.event \in Events
  /\ \A r, q \in buffer : r.row = q.row => r = q

\* What a row in a batch is about, as long as cycles or requests have it in
\* hand: its id is never given to another event.
Names(r) ==
  /\ r.row <= lastRow
  /\ r.event \in 1..recorded
  /\ \A q \in buffer : q.row = r.row => q.event = r.event

SentInv ==
  \A c \in Cycles :
    /\ \A r \in cycle[c].batch : Names(r)
    /\ \A r \in request[c].todo : Names(r)
    /\ \A r, q \in request[c].todo : r.row = q.row => r = q

\* A request that may still be answered with 2xx has recorded all of its
\* cycle's batch but what it still has to do.
AnswerInv ==
  \A c \in Cycles :
    request[c].at \in {"arriving", "mark", "insert", "touch", "ok"} =>
      \A r \in cycle[c].batch : r \in request[c].todo \/ r.event \in processed

\* The event a request is about to hand on is recorded, not yet handed on, and
\* in no other request's hand.
HandInv ==
  \A c, d \in Cycles : \A r \in InHand(c), q \in InHand(d) :
    /\ r.event \in processed
    /\ r.event \notin lost
    /\ outbox[r.event] = 0
    /\ r.event = q.event => c = d

\* A recorded event is forwarded, lost or in hand; the others are untouched.
RecordInv ==
  \A e \in Events :
    /\ e \in processed =>
         /\ e <= recorded
         /\ \/ outbox[e] = 1 /\ e \notin lost
            \/ outbox[e] = 0 /\ e \in lost
            \/ outbox[e] = 0 /\ \E c \in Cycles : \E r \in InHand(c) : r.event = e
    /\ e \notin processed => outbox[e] = 0 /\ e \notin lost

\* The agent still holds what the API has not recorded.
HeldInv == \A e \in Events : e <= recorded => Held(e) \/ e \in processed

\* A request has touched the device before it answers.
SeenInv ==
  /\ \A c \in Cycles : request[c].at = "ok" => seen
  /\ ReleasedOnlyOnceSeen

SyncInv ==
  /\ TypeOK
  /\ RowInv
  /\ SentInv
  /\ AnswerInv
  /\ HandInv
  /\ RecordInv
  /\ HeldInv
  /\ SeenInv

-----------------------------------------------------------------------------
(* Facts about the table. *)

\* markSynced changes no row but for its synced_at.
LEMMA WithSyncedRows ==
  ASSUME NEW b \in SUBSET BufferRow, NEW ids
  PROVE  /\ WithSynced(b, ids) \in SUBSET BufferRow
         /\ \A s \in WithSynced(b, ids) : \E r \in b :
              /\ s.row = r.row /\ s.event = r.event
              /\ s.synced = (r.synced \/ r.row \in ids)
         /\ \A r \in b : r.row \notin ids => r \in WithSynced(b, ids)
<1> DEFINE Marked(r) == [r EXCEPT !.synced = @ \/ r.row \in ids]
<1>1. ASSUME NEW r \in b
      PROVE  /\ Marked(r) \in BufferRow
             /\ Marked(r).row = r.row /\ Marked(r).event = r.event
             /\ Marked(r).synced = (r.synced \/ r.row \in ids)
             /\ r.row \notin ids => Marked(r) = r
  BY <1>1 DEF BufferRow
<1>2. WithSynced(b, ids) = {Marked(r) : r \in b}
  BY DEF WithSynced
<1> HIDE DEF Marked
<1> QED
  BY <1>1, <1>2

\* prune deletes rows, and only synced ones.
LEMMA PrunedRows ==
  ASSUME NEW b, NEW aged \in SUBSET Synced(b)
  PROVE  Pruned(b, aged) \subseteq b /\ Unsynced(Pruned(b, aged)) = Unsynced(b)
BY DEF Pruned, Oldest, Synced, Unsynced

\* The initial state.
LEMMA InitSyncInv == Init => SyncInv
<1> SUFFICES ASSUME Init PROVE SyncInv
  OBVIOUS
<1> USE DEF Init, Idle, NoRequest
<1>1. TypeOK
  <2>1. cycle \in [Cycles -> [waiting : BOOLEAN, batch : SUBSET BufferRow]]
    OBVIOUS
  <2>2. request \in [Cycles -> [at : Stations, todo : SUBSET BufferRow]]
    BY DEF Stations
  <2>3. \A c \in Cycles : ~cycle[c].waiting
    OBVIOUS
  <2>4. \A c \in Cycles : request[c].at = "none" /\ request[c].todo = {}
    OBVIOUS
  <2>5. 0 \in 0..NumEvents /\ outbox \in [Events -> Nat]
    BY NumEventsAssumption
  <2> QED
    BY <2>1, <2>2, <2>3, <2>4, <2>5 DEF TypeOK
<1>2. RowInv /\ SentInv /\ AnswerInv
  BY DEF RowInv, SentInv, AnswerInv
<1>3. HandInv /\ RecordInv
  BY DEF HandInv, RecordInv, InHand
<1>4. HeldInv /\ SeenInv
  BY DEF HeldInv, SeenInv, ReleasedOnlyOnceSeen, Events
<1> QED
  BY <1>1, <1>2, <1>3, <1>4 DEF SyncInv

-----------------------------------------------------------------------------
(* Types. *)

\* The well-formedness of requests that TypeOK states.
RequestsOK ==
  /\ request \in [Cycles -> [at : Stations, todo : SUBSET BufferRow]]
  /\ \A c \in Cycles : request[c].at \in {"arriving", "mark", "insert"}
                         <=> request[c].todo # {}

\* It is kept where one request is replaced by a well-formed one.
LEMMA RequestReplaced ==
  ASSUME RequestsOK, NEW c \in Cycles, NEW at \in Stations, NEW todo \in SUBSET BufferRow,
         at \in {"arriving", "mark", "insert"} <=> todo # {},
         request' = [request EXCEPT ![c] = [at |-> at, todo |-> todo]]
  PROVE  RequestsOK'
<1>1. request' \in [Cycles -> [at : Stations, todo : SUBSET BufferRow]]
  BY DEF RequestsOK
<1>2. \A d \in Cycles \ {c} : request'[d] = request[d]
  BY DEF RequestsOK
<1>3. request'[c].at = at /\ request'[c].todo = todo
  BY DEF RequestsOK
<1> QED
  BY <1>1, <1>2, <1>3 DEF RequestsOK

\* Answering and going on with the loop keep requests well-formed.
LEMMA AnsweredTypes ==
  ASSUME RequestsOK, NEW c \in Cycles, NEW how \in {"ok", "refused"}, Answered(c, how)
  PROVE  RequestsOK'
<1>1. how \in Stations /\ how \notin {"arriving", "mark", "insert"}
  BY DEF Stations
<1>2. request' = [request EXCEPT ![c] = [at |-> how, todo |-> {}]]
  BY DEF Answered
<1> QED
  BY <1>1, <1>2, RequestReplaced

LEMMA AdvanceTypes ==
  ASSUME RequestsOK, NEW c \in Cycles, NEW r, Advance(c, r)
  PROVE  RequestsOK'
<1> DEFINE rest == request[c].todo \ {r}
<1>1. rest \in SUBSET BufferRow
  BY DEF RequestsOK
<1>2. CASE rest = {}
  <2>1. request' = [request EXCEPT ![c] = [at |-> "touch", todo |-> rest]]
    BY <1>2 DEF Advance
  <2> HIDE DEF rest
  <2> QED
    BY <1>1, <1>2, <2>1, RequestReplaced DEF Stations
<1>3. CASE rest # {}
  <2>1. request' = [request EXCEPT ![c] = [at |-> "mark", todo |-> rest]]
    BY <1>3 DEF Advance
  <2> HIDE DEF rest
  <2> QED
    BY <1>1, <1>3, <2>1, RequestReplaced DEF Stations
<1> QED
  BY <1>2, <1>3

LEMMA AtTypes ==
  ASSUME RequestsOK, NEW c \in Cycles, NEW at \in {"mark", "insert"},
         request[c].at \in {"arriving", "mark"},
         request' = [request EXCEPT ![c].at = at]
  PROVE  RequestsOK'
<1>1. request' = [request EXCEPT ![c] = [at |-> at, todo |-> request[c].todo]]
  <2>1. request[c] \in [at : Stations, todo : SUBSET BufferRow]
    BY DEF RequestsOK
  <2>2. [request[c] EXCEPT !.at = at] = [at |-> at, todo |-> request[c].todo]
    BY <2>1
  <2> QED
    BY <2>2
<1>2. request[c].todo \in SUBSET BufferRow /\ request[c].todo # {}
  BY DEF RequestsOK
<1>3. at \in Stations
  BY DEF Stations
<1> QED
  BY <1>1, <1>2, <1>3, RequestReplaced

\* So do cycles that end.
LEMMA IdleTypes ==
  ASSUME TypeOK, NEW c \in Cycles, cycle' = [cycle EXCEPT ![c] = Idle]
  PROVE  /\ cycle' \in [Cycles -> [waiting : BOOLEAN, batch : SUBSET BufferRow]]
         /\ \A d \in Cycles : cycle'[d].waiting => cycle[d].waiting
<1>1. Idle \in [waiting : BOOLEAN, batch : SUBSET BufferRow] /\ ~Idle.waiting
  BY DEF Idle
<1> HIDE DEF Idle
<1> QED
  BY <1>1 DEF TypeOK

\* TypeOK is kept by every step.
LEMMA TypeStep ==
  ASSUME SyncInv, [Next]_vars
  PROVE  TypeOK'
<1> USE DEF SyncInv, TypeOK
<1>0. RequestsOK
  BY DEF RequestsOK
<1>1. CASE ReportHealth
  <2>1. recorded' \in Events /\ recorded' \in 0..NumEvents /\ lastRow' \in Nat
    BY <1>1, NumEventsAssumption DEF ReportHealth, NextRow, Events
  <2>2. [row |-> lastRow', event |-> recorded', synced |-> FALSE] \in BufferRow
    BY <2>1 DEF BufferRow
  <2>3. buffer' \in SUBSET BufferRow
    BY <1>1, <2>2 DEF ReportHealth, Appended
  <2> QED
    BY <1>1, <2>1, <2>3 DEF ReportHealth, serverVars
<1>2. CASE BufferDetection
  <2>1. lastRow' \in Nat
    BY <1>2 DEF BufferDetection, NextRow
  <2>2. [row |-> lastRow', event |-> LocalOnly, synced |-> TRUE] \in BufferRow
    BY <2>1 DEF BufferRow
  <2>3. buffer' \in SUBSET BufferRow
    BY <1>2, <2>2 DEF BufferDetection, AppendedLocalOnly
  <2> QED
    BY <1>2, <2>1, <2>3 DEF BufferDetection, serverVars
<1>3. CASE Prune
  <2>1. buffer' \subseteq buffer
    BY <1>3, PrunedRows DEF Prune
  <2> QED
    BY <1>3, <2>1 DEF Prune, serverVars
<1>4. CASE Stop
  <2>1. /\ cycle' \in [Cycles -> [waiting : BOOLEAN, batch : SUBSET BufferRow]]
        /\ \A c \in Cycles : ~cycle'[c].waiting
    BY <1>4 DEF Stop, Idle
  <2>2. failures' \in Nat /\ device' \in {"up", "down"}
    BY <1>4 DEF Stop, Fail
  <2> QED
    BY <1>4, <2>1, <2>2 DEF Stop, serverVars
<1>5. CASE Restart
  BY <1>5 DEF Restart, serverVars
<1>6. CASE ApiStops
  <2>1. \A c \in Cycles : \A r \in InHand(c) : r.event \in Events
    BY NumEventsAssumption DEF InHand, SentInv, Names, Events
  <2>2. lost' \in SUBSET Events
    BY <1>6, <2>1 DEF ApiStops
  <2>3. RequestsOK'
    BY <1>6 DEF ApiStops, NoRequest, Stations, RequestsOK
  <2> QED
    BY <1>6, <2>2, <2>3 DEF ApiStops, Fail, deviceVars, RequestsOK
<1>7. CASE Revoke
  BY <1>7 DEF Revoke, deviceVars
<1>8. CASE UNCHANGED vars
  BY <1>8 DEF vars, deviceVars, serverVars
<1>9. ASSUME NEW c \in Cycles, AgentStep(c) \/ NetworkError(c) \/ Unheard(c)
      PROVE  TypeOK'
  <2>1. CASE StartCycle(c)
    <3> PICK S \in SUBSET Unsynced(buffer) :
          /\ IsNextBatch(buffer, S)
          /\ cycle' = [cycle EXCEPT ![c] = [waiting |-> TRUE, batch |-> S]]
          /\ request' = [request EXCEPT ![c] = [at |-> "arriving", todo |-> S]]
      BY <2>1 DEF StartCycle
    <3>1. S \in SUBSET BufferRow /\ S # {}
      BY DEF IsNextBatch, Unsynced
    <3>2. RequestsOK'
      BY <1>0, <3>1, RequestReplaced DEF Stations
    <3>3. cycle' \in [Cycles -> [waiting : BOOLEAN, batch : SUBSET BufferRow]]
      BY <3>1
    <3> QED
      BY <2>1, <3>2, <3>3 DEF StartCycle, RequestsOK, serverVars
  <2>2. CASE Confirm(c) \/ LeaveUnsynced(c)
    <3>1. RequestsOK'
      BY <1>0, <2>2, RequestReplaced DEF Confirm, LeaveUnsynced, EndCycle, NoRequest, Stations
    <3>2. buffer' \in SUBSET BufferRow
      BY <2>2, WithSyncedRows DEF Confirm, LeaveUnsynced
    <3> QED
      BY <2>2, <3>1, <3>2, IdleTypes
      DEF Confirm, LeaveUnsynced, EndCycle, RequestsOK, serverVars
  <2>3. CASE NetworkError(c)
    <3>1. /\ cycle' \in [Cycles -> [waiting : BOOLEAN, batch : SUBSET BufferRow]]
          /\ \A d \in Cycles : cycle'[d].waiting => cycle[d].waiting
      BY <2>3, IdleTypes DEF NetworkError
    <3> QED
      BY <2>3, <3>1 DEF NetworkError, Fail, serverVars
  <2>4. CASE Unheard(c)
    <3>1. RequestsOK'
      BY <1>0, <2>4, RequestReplaced DEF Unheard, NoRequest, Stations
    <3> QED
      BY <2>4, <3>1 DEF Unheard, RequestsOK, deviceVars, serverVars
  <2> QED
    BY <1>9, <2>1, <2>2, <2>3, <2>4 DEF AgentStep
<1>10. ASSUME NEW c \in Cycles,
              \/ Authenticate(c) \/ MarkProcessed(c) \/ InsertOutbox(c) \/ TouchSync(c)
              \/ MarkFails(c) \/ InsertFails(c) \/ TouchFails(c)
       PROVE  TypeOK'
  <2>1. CASE Authenticate(c)
    <3>1. RequestsOK'
      BY <1>0, <2>1, AnsweredTypes, AtTypes DEF Authenticate
    <3> QED
      BY <2>1, <3>1 DEF Authenticate, RequestsOK, deviceVars, serverVars
  <2>2. \A r \in request[c].todo : r.event \in Events
    BY NumEventsAssumption DEF SentInv, Names, Events
  <2>3. CASE MarkProcessed(c)
    <3>1. RequestsOK'
      BY <1>0, <2>3, AdvanceTypes, AtTypes DEF MarkProcessed
    <3>2. processed' \in SUBSET Events
      BY <2>2, <2>3 DEF MarkProcessed
    <3> QED
      BY <2>3, <3>1, <3>2 DEF MarkProcessed, RequestsOK, deviceVars
  <2>4. CASE InsertOutbox(c)
    <3>1. RequestsOK'
      BY <1>0, <2>4, AdvanceTypes DEF InsertOutbox
    <3>2. outbox' \in [Events -> Nat]
      BY <2>2, <2>4 DEF InsertOutbox
    <3> QED
      BY <2>4, <3>1, <3>2 DEF InsertOutbox, RequestsOK, deviceVars
  <2>5. CASE TouchSync(c)
    <3>1. RequestsOK'
      BY <1>0, <2>5, AnsweredTypes DEF TouchSync
    <3> QED
      BY <2>5, <3>1 DEF TouchSync, RequestsOK, deviceVars
  <2>6. CASE MarkFails(c)
    <3>1. RequestsOK'
      BY <1>0, <2>6, AnsweredTypes DEF MarkFails
    <3>2. processed' \in SUBSET Events /\ lost' \in SUBSET Events
      BY <2>2, <2>6 DEF MarkFails
    <3> QED
      BY <2>6, <3>1, <3>2 DEF MarkFails, Fail, RequestsOK, deviceVars
  <2>7. CASE InsertFails(c)
    <3>1. RequestsOK'
      BY <1>0, <2>7, AnsweredTypes DEF InsertFails
    <3>2. outbox' \in [Events -> Nat] /\ lost' \in SUBSET Events
      BY <2>2, <2>7 DEF InsertFails
    <3> QED
      BY <2>7, <3>1, <3>2 DEF InsertFails, Fail, RequestsOK, deviceVars
  <2>8. CASE TouchFails(c)
    <3>1. RequestsOK'
      BY <1>0, <2>8, AnsweredTypes DEF TouchFails
    <3>2. seen' \in BOOLEAN
      BY <2>8 DEF TouchFails
    <3> QED
      BY <2>8, <3>1, <3>2 DEF TouchFails, Fail, RequestsOK, deviceVars
  <2> QED
    BY <1>10, <2>1, <2>3, <2>4, <2>5, <2>6, <2>7, <2>8
<1> QED
  BY <1>1, <1>2, <1>3, <1>4, <1>5, <1>6, <1>7, <1>8, <1>9, <1>10 DEF Next, ApiStep, AgentStep

-----------------------------------------------------------------------------
(* Rows and what batches say of them. *)

\* The steps that touch the table.
TableStep == ReportHealth \/ BufferDetection \/ Prune \/ \E c \in Cycles : Confirm(c)

\* All others leave it alone.
LEMMA OtherSteps ==
  ASSUME [Next]_vars, ~TableStep
  PROVE  UNCHANGED <<buffer, lastRow, recorded>>
<1>1. ASSUME NEW c \in Cycles, AgentStep(c)
      PROVE  UNCHANGED <<buffer, lastRow, recorded>>
  BY <1>1 DEF AgentStep, TableStep, StartCycle, LeaveUnsynced
<1>2. ASSUME NEW c \in Cycles, ApiStep(c)
      PROVE  UNCHANGED <<buffer, lastRow, recorded>>
  BY <1>2 DEF ApiStep, Authenticate, MarkProcessed, InsertOutbox, TouchSync, Unheard, deviceVars
<1>3. ASSUME NEW c \in Cycles,
             NetworkError(c) \/ MarkFails(c) \/ InsertFails(c) \/ TouchFails(c)
      PROVE  UNCHANGED <<buffer, lastRow, recorded>>
  BY <1>3 DEF NetworkError, MarkFails, InsertFails, TouchFails, deviceVars
<1>4. CASE Stop \/ Restart \/ ApiStops \/ Revoke \/ UNCHANGED vars
  BY <1>4 DEF Stop, Restart, ApiStops, Revoke, vars, deviceVars
<1> QED
  BY <1>1, <1>2, <1>3, <1>4 DEF Next, TableStep

\* The table's own facts are kept; no id moves to another event; what is still
\* held is what was, but for the events a confirmed batch names.
LEMMA TableFacts ==
  ASSUME SyncInv, [Next]_vars
  PROVE  /\ RowInv'
         /\ \A r \in BufferRow : Names(r) => Names(r)'
<1> USE DEF SyncInv, TypeOK
<1>1. CASE ReportHealth
  <2> DEFINE new == [row |-> lastRow + 1, event |-> recorded + 1, synced |-> FALSE]
  <2>1. buffer' = buffer \cup {new} /\ lastRow' = lastRow + 1 /\ recorded' = recorded + 1
    BY <1>1 DEF ReportHealth, Appended, NextRow
  <2>2. new.row = lastRow + 1 /\ new.event = recorded + 1 /\ new.synced = FALSE
    OBVIOUS
  <2>3. recorded + 1 \in Events /\ Events \subseteq Nat
    BY <1>1, NumEventsAssumption DEF ReportHealth, Events
  <2>4. \A r \in buffer : r.row \in Nat /\ r.row < lastRow + 1
    BY DEF RowInv, BufferRow
  <2> HIDE DEF new
  <2>5. RowInv'
    <3>1. \A r \in buffer' : r.row <= lastRow'
      BY <2>1, <2>2, <2>4
    <3>2. \A r \in buffer' : r.event \in Events => r.event <= recorded'
      <4>1. recorded \in Nat
        BY NumEventsAssumption
      <4> \A r \in buffer : r.event \in Events => r.event \in Nat
        BY <2>3
      <4>2. \A r \in buffer : r.event \in Events => r.event <= recorded + 1
        BY <4>1 DEF RowInv
      <4>3. new.event <= recorded + 1
        BY <2>2, <4>1
      <4> QED
        BY <2>1, <4>2, <4>3
    <3>3. \A r \in buffer' : ~r.synced => r.event \in Events
      BY <2>1, <2>2, <2>3 DEF RowInv
    <3>4. \A r, q \in buffer' : r.row = q.row => r = q
      BY <2>1, <2>2, <2>4 DEF RowInv
    <3> QED
      BY <3>1, <3>2, <3>3, <3>4 DEF RowInv
  <2>6. ASSUME NEW r \in BufferRow, Names(r)
        PROVE  Names(r)'
    BY <2>1, <2>2, <2>6, NumEventsAssumption DEF Names, BufferRow
  <2> QED
    BY <2>5, <2>6
<1>2. CASE BufferDetection
  <2> DEFINE new == [row |-> lastRow + 1, event |-> LocalOnly, synced |-> TRUE]
  <2>1. buffer' = buffer \cup {new} /\ lastRow' = lastRow + 1 /\ recorded' = recorded
    BY <1>2 DEF BufferDetection, AppendedLocalOnly, NextRow
  <2>2. new.row = lastRow + 1 /\ new.event \notin Events /\ new.synced = TRUE
    BY LocalOnlyAssumption
  <2>3. \A r \in buffer : r.row \in Nat /\ r.row < lastRow + 1
    BY DEF RowInv, BufferRow
  <2> HIDE DEF new
  <2>4. RowInv'
    BY <2>1, <2>2, <2>3 DEF RowInv
  <2>5. ASSUME NEW r \in BufferRow, Names(r)
        PROVE  Names(r)'
    BY <2>1, <2>2, <2>5, NumEventsAssumption DEF Names, BufferRow
  <2> QED
    BY <2>4, <2>5
<1>3. CASE Prune
  <2>1. buffer' \subseteq buffer /\ UNCHANGED <<lastRow, recorded>>
    BY <1>3, PrunedRows DEF Prune
  <2> QED
    BY <2>1 DEF RowInv, Names
<1>4. ASSUME NEW c \in Cycles, Confirm(c)
      PROVE  RowInv' /\ \A r \in BufferRow : Names(r) => Names(r)'
  <2> DEFINE ids == {r.row : r \in cycle[c].batch}
  <2>1. buffer' = WithSynced(buffer, ids) /\ UNCHANGED <<lastRow, recorded>>
    BY <1>4 DEF Confirm
  <2>2. \A s \in buffer' : \E r \in buffer :
          s.row = r.row /\ s.event = r.event /\ s.synced = (r.synced \/ r.row \in ids)
    BY <2>1, WithSyncedRows
  <2>3. buffer' \in SUBSET BufferRow
    BY <2>1, WithSyncedRows
  <2> HIDE DEF ids
  <2>4. \A s, t \in buffer' : s.row = t.row => s = t
    BY <2>2, <2>3 DEF RowInv, BufferRow
  <2>5. \A s \in buffer' : s.row <= lastRow' /\ (s.event \in Events => s.event <= recorded')
    BY <2>1, <2>2 DEF RowInv
  <2>6. \A s \in buffer' : ~s.synced => s.event \in Events
    BY <2>2, <2>3 DEF RowInv, BufferRow
  <2>7. ASSUME NEW r \in BufferRow, Names(r)
        PROVE  Names(r)'
    BY <2>1, <2>2, <2>7 DEF Names
  <2> QED
    BY <2>4, <2>5, <2>6, <2>7 DEF RowInv
<1>5. CASE ~TableStep
  BY <1>5, OtherSteps DEF RowInv, Names
<1> QED
  BY <1>1, <1>2, <1>3, <1>4, <1>5 DEF TableStep

\* What a step leaves of the batches: a cycle starts with rows of the table, or
\* it loses some of what it had.
BatchesShrink ==
  \A c \in Cycles :
    /\ cycle'[c].batch \subseteq cycle[c].batch
    /\ request'[c].todo \subseteq request[c].todo

\* How the request of one cycle changes when it ends, or takes a step.
LEMMA RequestsShrink ==
  ASSUME TypeOK, NEW c \in Cycles, cycle' = cycle \/ cycle' = [cycle EXCEPT ![c] = Idle],
         \/ request' = request
         \/ request' = [request EXCEPT ![c] = NoRequest]
         \/ \E how \in {"ok", "refused"} : Answered(c, how)
         \/ \E r : Advance(c, r)
         \/ \E at \in Stations : request' = [request EXCEPT ![c].at = at]
  PROVE  BatchesShrink
<1>1. \A d \in Cycles : cycle'[d].batch \subseteq cycle[d].batch
  BY DEF TypeOK, Idle
<1>2. CASE request' = request \/ request' = [request EXCEPT ![c] = NoRequest]
  <2>1. \A d \in Cycles : request'[d] = request[d] \/ request'[d].todo = {}
    BY <1>2 DEF TypeOK, NoRequest
  <2> QED
    BY <1>1, <2>1 DEF BatchesShrink
<1>3. CASE \E how \in {"ok", "refused"} : Answered(c, how)
  <2>1. PICK how \in {"ok", "refused"} :
          request' = [request EXCEPT ![c] = [at |-> how, todo |-> {}]]
    BY <1>3 DEF Answered
  <2>2. \A d \in Cycles : request'[d] = request[d] \/ request'[d].todo = {}
    BY <2>1 DEF TypeOK
  <2> QED
    BY <1>1, <2>2 DEF BatchesShrink
<1>4. CASE \E r : Advance(c, r)
  BY <1>1, <1>4 DEF BatchesShrink, TypeOK, Advance
<1>5. CASE \E at \in Stations : request' = [request EXCEPT ![c].at = at]
  BY <1>1, <1>5 DEF BatchesShrink, TypeOK
<1> QED
  BY <1>2, <1>3, <1>4, <1>5

\* Every step but the start of a cycle shrinks the batches.
LEMMA ShrinkingSteps ==
  ASSUME SyncInv, [Next]_vars, ~\E c \in Cycles : StartCycle(c)
  PROVE  BatchesShrink
<1> USE DEF SyncInv
<1>1. ASSUME NEW c \in Cycles, Confirm(c) \/ LeaveUnsynced(c) \/ NetworkError(c) \/ Unheard(c)
      PROVE  BatchesShrink
  BY <1>1, RequestsShrink DEF Confirm, LeaveUnsynced, EndCycle, NetworkError, Unheard, deviceVars
<1>2. ASSUME NEW c \in Cycles,
             Authenticate(c) \/ MarkProcessed(c) \/ InsertOutbox(c) \/ TouchSync(c)
      PROVE  BatchesShrink
  BY <1>2, RequestsShrink
  DEF Authenticate, MarkProcessed, InsertOutbox, TouchSync, deviceVars, Stations
<1>3. ASSUME NEW c \in Cycles, MarkFails(c) \/ InsertFails(c) \/ TouchFails(c)
      PROVE  BatchesShrink
  BY <1>3, RequestsShrink DEF MarkFails, InsertFails, TouchFails, deviceVars
<1>4. CASE Stop \/ ApiStops
  BY <1>4 DEF Stop, ApiStops, Idle, NoRequest, BatchesShrink, deviceVars
<1>5. CASE ReportHealth \/ BufferDetection \/ Prune \/ Restart \/ Revoke \/ UNCHANGED vars
  BY <1>5
  DEF ReportHealth, BufferDetection, Prune, Restart, Revoke, vars, deviceVars, BatchesShrink
<1> QED
  BY <1>1, <1>2, <1>3, <1>4, <1>5 DEF Next, AgentStep, ApiStep

\* SentInv is kept by every step.
LEMMA SentStep ==
  ASSUME SyncInv, [Next]_vars
  PROVE  SentInv'
<1> USE DEF SyncInv
<1>1. ASSUME NEW c \in Cycles, NEW r \in cycle[c].batch \cup request[c].todo
      PROVE  r \in BufferRow /\ Names(r)'
  BY TableFacts DEF SentInv, TypeOK
<1>2. CASE ~\E c \in Cycles : StartCycle(c)
  BY <1>1, <1>2, ShrinkingSteps DEF SentInv, BatchesShrink
<1>3. ASSUME NEW c \in Cycles, StartCycle(c)
      PROVE  SentInv'
  <2> PICK S \in SUBSET Unsynced(buffer) :
        /\ IsNextBatch(buffer, S)
        /\ cycle' = [cycle EXCEPT ![c] = [waiting |-> TRUE, batch |-> S]]
        /\ request' = [request EXCEPT ![c] = [at |-> "arriving", todo |-> S]]
    BY <1>3 DEF StartCycle
  <2>1. UNCHANGED <<buffer, lastRow, recorded>>
    BY <1>3 DEF StartCycle
  <2>2. \A r \in S : Names(r)'
    BY <2>1 DEF RowInv, Names, Unsynced, TypeOK, Events
  <2>3. \A r, q \in S : r.row = q.row => r = q
    BY DEF RowInv, Unsynced
  <2>4. \A d \in Cycles \ {c} : cycle'[d] = cycle[d] /\ request'[d] = request[d]
    BY DEF TypeOK
  <2>5. cycle'[c].batch = S /\ request'[c].todo = S
    BY DEF TypeOK
  <2> QED
    BY <1>1, <2>2, <2>3, <2>4, <2>5 DEF SentInv
<1> QED
  BY <1>2, <1>3

-----------------------------------------------------------------------------
(* Requests and their answers. *)

\* processed, lost and the outbox only grow, and seen stays.
LEMMA Monotone ==
  ASSUME SyncInv, [Next]_vars
  PROVE  processed \subseteq processed' /\ lost \subseteq lost' /\ (seen => seen')
<1> USE DEF SyncInv, TypeOK
<1>1. ASSUME NEW c \in Cycles, AgentStep(c) \/ NetworkError(c)
      PROVE  UNCHANGED serverVars
  BY <1>1 DEF AgentStep, StartCycle, Confirm, LeaveUnsynced, NetworkError
<1>2. ASSUME NEW c \in Cycles, ApiStep(c)
      PROVE  processed \subseteq processed' /\ lost \subseteq lost' /\ (seen => seen')
  BY <1>2
  DEF ApiStep, Authenticate, MarkProcessed, InsertOutbox, TouchSync, Unheard, serverVars
<1>3. ASSUME NEW c \in Cycles, MarkFails(c) \/ InsertFails(c) \/ TouchFails(c)
      PROVE  processed \subseteq processed' /\ lost \subseteq lost' /\ (seen => seen')
  BY <1>3 DEF MarkFails, InsertFails, TouchFails
<1>4. CASE ApiStops
  BY <1>4 DEF ApiStops
<1>5. CASE \/ ReportHealth \/ BufferDetection \/ Prune \/ Stop \/ Restart
           \/ Revoke \/ UNCHANGED vars
  BY <1>5 DEF ReportHealth, BufferDetection, Prune, Stop, Restart, Revoke, vars, serverVars
<1> QED
  BY <1>1, <1>2, <1>3, <1>4, <1>5 DEF Next, serverVars

\* A request that may still be answered with 2xx.
Promising(c) == request[c].at \in {"arriving", "mark", "insert", "touch", "ok"}

\* It was so before, and what it has struck off its list is recorded.
RequestsKeepWord ==
  \A c \in Cycles :
    Promising(c)' =>
      /\ Promising(c)
      /\ \A r \in request[c].todo : r \in request'[c].todo \/ r.event \in processed'

\* Going on with the loop past a recorded event.
LEMMA AdvanceKeepsWord ==
  ASSUME TypeOK, NEW c \in Cycles, NEW r \in request[c].todo, Advance(c, r),
         Promising(c), r.event \in processed'
  PROVE  RequestsKeepWord
<1> DEFINE rest == request[c].todo \ {r}
<1>1. request'[c].todo = rest
  BY DEF Advance, TypeOK
<1>2. \A d \in Cycles \ {c} : request'[d] = request[d]
  BY DEF Advance, TypeOK
<1> QED
  BY <1>1, <1>2 DEF RequestsKeepWord, Promising

\* A request that is gone or refused promises nothing; one that is answered
\* with 2xx had nothing left to do.
LEMMA AnsweredKeepsWord ==
  ASSUME TypeOK, NEW c \in Cycles,
         \/ request' = [request EXCEPT ![c] = NoRequest]
         \/ Answered(c, "refused")
         \/ request[c].at = "touch" /\ Answered(c, "ok")
  PROVE  RequestsKeepWord
<1>1. \A d \in Cycles \ {c} : request'[d] = request[d]
  BY DEF Answered, TypeOK
<1>2. \/ ~Promising(c)'
      \/ Promising(c) /\ request[c].todo = {}
  BY DEF Promising, Answered, NoRequest, TypeOK
<1> QED
  BY <1>1, <1>2 DEF RequestsKeepWord, Promising

\* Every step but the start of a cycle keeps the word of the requests.
LEMMA WordSteps ==
  ASSUME SyncInv, [Next]_vars, ~\E c \in Cycles : StartCycle(c)
  PROVE  RequestsKeepWord
<1> USE DEF SyncInv
<1>1. ASSUME NEW c \in Cycles, Confirm(c) \/ LeaveUnsynced(c) \/ Unheard(c)
      PROVE  RequestsKeepWord
  BY <1>1, AnsweredKeepsWord DEF Confirm, LeaveUnsynced, EndCycle, Unheard
<1>2. ASSUME NEW c \in Cycles,
             TouchSync(c) \/ MarkFails(c) \/ InsertFails(c) \/ TouchFails(c)
      PROVE  RequestsKeepWord
  BY <1>2, AnsweredKeepsWord DEF TouchSync, MarkFails, InsertFails, TouchFails
<1>3. ASSUME NEW c \in Cycles, Authenticate(c)
      PROVE  RequestsKeepWord
  <2>1. CASE Answered(c, "refused")
    BY <2>1, AnsweredKeepsWord
  <2>2. CASE request' = [request EXCEPT ![c].at = "mark"]
    BY <1>3, <2>2 DEF Authenticate, RequestsKeepWord, Promising, TypeOK
  <2> QED
    BY <1>3, <2>1, <2>2 DEF Authenticate
<1>4. ASSUME NEW c \in Cycles, MarkProcessed(c)
      PROVE  RequestsKeepWord
  <2>1. PICK r \in request[c].todo :
          /\ r.event \in processed \/ request' = [request EXCEPT ![c].at = "insert"]
          /\ r.event \in processed => Advance(c, r)
          /\ r.event \in processed'
    BY <1>4 DEF MarkProcessed
  <2>2. CASE r.event \in processed
    BY <1>4, <2>1, <2>2, AdvanceKeepsWord DEF MarkProcessed, Promising
  <2>3. CASE request' = [request EXCEPT ![c].at = "insert"]
    BY <1>4, <2>3 DEF MarkProcessed, RequestsKeepWord, Promising, TypeOK
  <2> QED
    BY <2>1, <2>2, <2>3
<1>5. ASSUME NEW c \in Cycles, InsertOutbox(c)
      PROVE  RequestsKeepWord
  <2>1. PICK r \in request[c].todo : IsCurrent(c, r) /\ Advance(c, r)
    BY <1>5 DEF InsertOutbox
  <2>2. r.event \in processed'
    BY <1>5, <2>1 DEF InsertOutbox, HandInv, InHand
  <2> QED
    BY <1>5, <2>1, <2>2, AdvanceKeepsWord DEF InsertOutbox, Promising
<1>6. CASE ApiStops
  BY <1>6 DEF ApiStops, NoRequest, RequestsKeepWord, Promising
<1>7. CASE request' = request
  BY <1>7 DEF RequestsKeepWord, Promising
<1>8. ASSUME \/ ReportHealth \/ BufferDetection \/ Prune \/ Stop \/ Restart
             \/ Revoke \/ UNCHANGED vars
             \/ \E c \in Cycles : NetworkError(c)
      PROVE  request' = request
  BY <1>8
  DEF ReportHealth, BufferDetection, Prune, Stop, Restart, Revoke, NetworkError, vars
<1> QED
  BY <1>1, <1>2, <1>3, <1>4, <1>5, <1>6, <1>7, <1>8 DEF Next, AgentStep, ApiStep

\* AnswerInv is kept by every step.
LEMMA AnswerStep ==
  ASSUME SyncInv, [Next]_vars
  PROVE  AnswerInv'
<1> USE DEF SyncInv
<1>1. CASE ~\E c \in Cycles : StartCycle(c)
  BY <1>1, WordSteps, ShrinkingSteps, Monotone
  DEF AnswerInv, RequestsKeepWord, BatchesShrink, Promising
<1>2. ASSUME NEW c \in Cycles, StartCycle(c)
      PROVE  AnswerInv'
  <2>1. \A d \in Cycles \ {c} : cycle'[d] = cycle[d] /\ request'[d] = request[d]
    BY <1>2 DEF StartCycle, TypeOK
  <2>2. cycle'[c].batch = request'[c].todo /\ processed' = processed
    BY <1>2 DEF StartCycle, TypeOK, serverVars
  <2> QED
    BY <2>1, <2>2 DEF AnswerInv
<1> QED
  BY <1>1, <1>2

-----------------------------------------------------------------------------
(* What requests have in hand, and what is recorded. *)

\* A request has at most one row in hand, and none but before an insert.
LEMMA OneInHand ==
  ASSUME SyncInv, NEW c \in Cycles
  PROVE  /\ \A r, q \in InHand(c) : r = q
         /\ \A r \in InHand(c) : r \in BufferRow /\ r.event \in Events /\ r.event <= recorded
         /\ request[c].at # "insert" => InHand(c) = {}
<1> USE DEF SyncInv
<1>1. ASSUME NEW r \in InHand(c), NEW q \in InHand(c)
      PROVE  r = q
  <2>1. r.row \in Nat /\ q.row \in Nat /\ r.row <= q.row /\ q.row <= r.row
    BY DEF InHand, IsCurrent, TypeOK, BufferRow
  <2>2. r.row = q.row
    BY <2>1
  <2> QED
    BY <2>2 DEF InHand, SentInv
<1>2. \A r \in InHand(c) : r \in BufferRow /\ r.event \in Events /\ r.event <= recorded
  BY NumEventsAssumption DEF InHand, SentInv, Names, TypeOK, Events
<1>3. request[c].at # "insert" => InHand(c) = {}
  BY DEF InHand
<1> QED
  BY <1>1, <1>2, <1>3

HandsSame == \A c \in Cycles : InHand(c)' = InHand(c)

\* Hands depend on the requests only, and a request away from the insert before
\* and after has none.
LEMMA SameHand ==
  ASSUME NEW c \in Cycles,
         \/ request'[c] = request[c]
         \/ request[c].at # "insert" /\ request'[c].at # "insert"
  PROVE  InHand(c)' = InHand(c)
BY DEF InHand, IsCurrent

\* The steps that neither change a hand nor record, forward or lose an event.
LEMMA QuietStep ==
  ASSUME SyncInv, HandsSame, UNCHANGED <<processed, outbox, lost>>,
         recorded' \in Nat, recorded <= recorded'
  PROVE  HandInv' /\ RecordInv'
<1>1. HandInv'
  BY DEF SyncInv, HandInv, HandsSame
<1>2. \A e \in Events : e \in Nat /\ (e <= recorded => e <= recorded')
  BY NumEventsAssumption DEF SyncInv, TypeOK, Events
<1>3. RecordInv'
  BY <1>2 DEF SyncInv, RecordInv, HandsSame
<1> QED
  BY <1>1, <1>3

\* Which they are.
LEMMA QuietSteps ==
  ASSUME SyncInv, [Next]_vars, ~ApiStops,
         ~\E c \in Cycles : MarkProcessed(c) \/ InsertOutbox(c) \/ MarkFails(c) \/ InsertFails(c)
  PROVE  HandInv' /\ RecordInv'
<1> USE DEF SyncInv
<1>1. recorded' \in Nat /\ recorded <= recorded'
  <2>1. recorded \in Nat
    BY NumEventsAssumption DEF TypeOK
  <2>2. CASE ReportHealth
    BY <2>1, <2>2 DEF ReportHealth
  <2>3. CASE TableStep /\ ~ReportHealth
    <3>1. recorded' = recorded
      BY <2>3 DEF TableStep, BufferDetection, Prune, Confirm
    <3> QED
      BY <2>1, <3>1
  <2>4. CASE ~TableStep
    <3>1. recorded' = recorded
      BY <2>4, OtherSteps
    <3> QED
      BY <2>1, <3>1
  <2> QED
    BY <2>2, <2>3, <2>4
<1>2. ASSUME \/ ReportHealth \/ BufferDetection \/ Prune \/ Stop \/ Restart
             \/ Revoke \/ UNCHANGED vars
             \/ \E c \in Cycles : NetworkError(c)
      PROVE  HandsSame /\ UNCHANGED <<processed, outbox, lost>>
  <2>1. request' = request
    BY <1>2
    DEF ReportHealth, BufferDetection, Prune, Stop, Restart, Revoke, NetworkError, vars
  <2>2. UNCHANGED <<processed, outbox, lost>>
    BY <1>2
    DEF ReportHealth, BufferDetection, Prune, Stop, Restart, Revoke, NetworkError, vars,
        serverVars
  <2> QED
    BY <2>1, <2>2, SameHand DEF HandsSame
<1>3. ASSUME NEW c \in Cycles,
             \/ AgentStep(c) \/ Authenticate(c) \/ TouchSync(c) \/ TouchFails(c) \/ Unheard(c)
      PROVE  HandsSame /\ UNCHANGED <<processed, outbox, lost>>
  <2>1. UNCHANGED <<processed, outbox, lost>>
    BY <1>3
    DEF AgentStep, StartCycle, Confirm, LeaveUnsynced, Authenticate, TouchSync, TouchFails,
        Unheard, serverVars
  <2>2. \A d \in Cycles \ {c} : request'[d] = request[d]
    BY <1>3
    DEF AgentStep, StartCycle, Confirm, LeaveUnsynced, EndCycle, Authenticate, TouchSync,
        TouchFails, Unheard, Answered, TypeOK
  <2>3. request[c].at # "insert" /\ request'[c].at # "insert"
    <3>1. CASE StartCycle(c)
      BY <3>1 DEF StartCycle, NoRequest, TypeOK
    <3>2. CASE Confirm(c) \/ LeaveUnsynced(c) \/ Unheard(c)
      <4>1. request'[c] = NoRequest /\ request[c].at # "insert"
        BY <3>2 DEF Confirm, LeaveUnsynced, Unheard, EndCycle, TypeOK
      <4> QED
        BY <4>1 DEF NoRequest
    <3>3. CASE Authenticate(c) \/ TouchSync(c) \/ TouchFails(c)
      <4>1. request[c].at # "insert"
        BY <3>3 DEF Authenticate, TouchSync, TouchFails
      <4>2. request'[c].at \in {"mark", "ok", "refused"}
        <5>1. CASE \E how \in {"ok", "refused"} : Answered(c, how)
          BY <5>1 DEF Answered, TypeOK
        <5>2. CASE request' = [request EXCEPT ![c].at = "mark"]
          BY <5>2 DEF TypeOK
        <5> QED
          BY <3>3, <5>1, <5>2 DEF Authenticate, TouchSync, TouchFails
      <4> QED
        BY <4>1, <4>2
    <3> QED
      BY <1>3, <3>1, <3>2, <3>3 DEF AgentStep
  <2> QED
    BY <2>1, <2>2, <2>3, SameHand DEF HandsSame
<1> QED
  BY <1>1, <1>2, <1>3, QuietStep DEF Next, AgentStep, ApiStep

\* Recording a new event takes it in hand.
LEMMA MarkHands ==
  ASSUME SyncInv, NEW c \in Cycles, MarkProcessed(c)
  PROVE  HandInv' /\ RecordInv'
<1> USE DEF SyncInv
<1>1. PICK r \in request[c].todo :
        /\ IsCurrent(c, r)
        /\ IF r.event \in processed
             THEN Advance(c, r)
             ELSE request' = [request EXCEPT ![c].at = "insert"]
        /\ processed' = processed \cup {r.event}
  BY <1>1 DEF MarkProcessed
<1>2. UNCHANGED <<recorded, outbox, lost>> /\ request[c].at = "mark"
  BY DEF MarkProcessed, deviceVars
<1>3. \A d \in Cycles \ {c} : InHand(d)' = InHand(d)
  BY <1>1, SameHand DEF Advance, TypeOK
<1>4. r.event \in Events /\ r.event <= recorded
  BY NumEventsAssumption DEF SentInv, Names, TypeOK, Events
<1>5. CASE r.event \in processed
  <2>1. request'[c].at # "insert"
    BY <1>1, <1>5 DEF Advance, TypeOK
  <2>2. HandsSame
    BY <1>2, <1>3, <2>1, SameHand DEF HandsSame
  <2>3. processed' = processed
    BY <1>1, <1>5
  <2> QED
    BY <1>2, <2>2, <2>3, QuietStep, NumEventsAssumption DEF TypeOK
<1>6. CASE r.event \notin processed
  <2>1. request'[c].at = "insert" /\ request'[c].todo = request[c].todo
    BY <1>1, <1>6 DEF TypeOK
  <2>2. \A q \in InHand(c)' : IsCurrent(c, q)
    BY <2>1 DEF InHand, IsCurrent
  <2>3. InHand(c)' = {r}
    <3>1. r \in InHand(c)'
      BY <1>1, <2>1 DEF InHand, IsCurrent
    <3>2. ASSUME NEW q \in InHand(c)'
          PROVE  q = r
      <4>1. r.row \in Nat /\ q.row \in Nat /\ r.row <= q.row /\ q.row <= r.row
        BY <1>1, <2>2 DEF IsCurrent, TypeOK, BufferRow
      <4>2. r.row = q.row
        BY <4>1
      <4> QED
        BY <1>1, <2>2, <4>2 DEF IsCurrent, SentInv
    <3> QED
      BY <3>1, <3>2
  <2>4. outbox[r.event] = 0 /\ r.event \notin lost
    BY <1>4, <1>6 DEF RecordInv
  <2>5. \A d \in Cycles : InHand(d)' = IF d = c THEN {r} ELSE InHand(d)
    BY <1>3, <2>3
  <2>6. HandInv'
    BY <1>1, <1>2, <1>6, <2>4, <2>5 DEF HandInv
  <2>7. InHand(c) = {}
    BY <1>2, OneInHand
  <2>8. RecordInv'
    BY <1>1, <1>2, <1>4, <2>4, <2>5, <2>7 DEF RecordInv
  <2> QED
    BY <2>6, <2>8
<1> QED
  BY <1>5, <1>6

\* A markProcessed that throws loses the event it recorded, if it did.
LEMMA MarkFailsHands ==
  ASSUME SyncInv, NEW c \in Cycles, MarkFails(c)
  PROVE  HandInv' /\ RecordInv'
<1> USE DEF SyncInv
<1>1. HandsSame
  <2>1. \A d \in Cycles \ {c} : request'[d] = request[d]
    BY DEF MarkFails, Answered, TypeOK
  <2>2. request[c].at # "insert" /\ request'[c].at # "insert"
    BY DEF MarkFails, Answered, TypeOK
  <2> QED
    BY <2>1, <2>2, SameHand DEF HandsSame
<1>2. UNCHANGED <<recorded, outbox>>
  BY DEF MarkFails, deviceVars
<1>3. CASE UNCHANGED <<processed, lost>>
  BY <1>1, <1>2, <1>3, QuietStep, NumEventsAssumption DEF TypeOK
<1>4. CASE ~UNCHANGED <<processed, lost>>
  <2>1. PICK r \in request[c].todo :
          /\ r.event \notin processed
          /\ processed' = processed \cup {r.event}
          /\ lost' = lost \cup {r.event}
    BY <1>4 DEF MarkFails
  <2>2. r.event \in Events /\ r.event <= recorded
    BY NumEventsAssumption DEF SentInv, Names, TypeOK, Events
  <2>3. HandInv'
    BY <1>1, <1>2, <2>1 DEF HandInv, HandsSame
  <2>4. RecordInv'
    BY <1>1, <1>2, <2>1, <2>2 DEF RecordInv, HandsSame
  <2> QED
    BY <2>3, <2>4
<1> QED
  BY <1>3, <1>4

\* A request lets go of what it had in hand when it has forwarded or lost it.
LEMMA InsertHands ==
  ASSUME SyncInv, NEW c \in Cycles, InsertOutbox(c) \/ InsertFails(c)
  PROVE  HandInv' /\ RecordInv'
<1> USE DEF SyncInv
<1>1. PICK r \in InHand(c) :
        /\ \/ outbox' = [outbox EXCEPT ![r.event] = @ + 1] /\ lost' = lost
           \/ outbox' = outbox /\ lost' = lost \cup {r.event}
        /\ Advance(c, r) \/ Answered(c, "refused")
  BY DEF InsertOutbox, InsertFails, InHand
<1>2. UNCHANGED <<recorded, processed>>
  BY DEF InsertOutbox, InsertFails, deviceVars
<1>3. request'[c].at # "insert" /\ \A d \in Cycles \ {c} : request'[d] = request[d]
  BY <1>1 DEF Advance, Answered, TypeOK
<1>4. \A d \in Cycles : InHand(d)' = IF d = c THEN {} ELSE InHand(d)
  BY <1>3, SameHand DEF InHand
<1>5. InHand(c) = {r} /\ r.event \in Events
  BY <1>1, OneInHand
<1>6. /\ r.event \in processed /\ r.event \notin lost /\ outbox[r.event] = 0
      /\ \A d \in Cycles \ {c} : \A q \in InHand(d) : q.event # r.event
  BY <1>1 DEF HandInv
<1>7. \A e \in Events \ {r.event} : outbox'[e] = outbox[e] /\ (e \in lost' <=> e \in lost)
  BY <1>1 DEF TypeOK
<1>8. HandInv'
  BY <1>2, <1>4, <1>6, <1>7, OneInHand DEF HandInv
<1>9. \/ outbox'[r.event] = 1 /\ r.event \notin lost'
      \/ outbox'[r.event] = 0 /\ r.event \in lost'
  BY <1>1, <1>5, <1>6 DEF TypeOK
<1>10. ASSUME NEW e \in Events
       PROVE  /\ e \in processed =>
                   /\ e <= recorded
                   /\ \/ outbox'[e] = 1 /\ e \notin lost'
                      \/ outbox'[e] = 0 /\ e \in lost'
                      \/ outbox'[e] = 0 /\ \E d \in Cycles : \E q \in InHand(d)' : q.event = e
              /\ e \notin processed => outbox'[e] = 0 /\ e \notin lost'
  <2>1. CASE e = r.event
    BY <1>6, <1>9, <2>1 DEF RecordInv
  <2>2. CASE e # r.event
    BY <1>4, <1>5, <1>7, <2>2 DEF RecordInv
  <2> QED
    BY <2>1, <2>2
<1> QED
  BY <1>2, <1>8, <1>10 DEF RecordInv

\* When the API dies, everything in hand is lost.
LEMMA ApiStopsHands ==
  ASSUME SyncInv, ApiStops
  PROVE  HandInv' /\ RecordInv'
<1> USE DEF SyncInv
<1>1. \A c \in Cycles : InHand(c)' = {}
  BY DEF ApiStops, InHand, NoRequest
<1>2. \A e : e \in lost' <=> e \in lost \/ \E c \in Cycles : \E r \in InHand(c) : r.event = e
  BY DEF ApiStops
<1>3. UNCHANGED <<recorded, processed, outbox>>
  BY DEF ApiStops, deviceVars
<1>4. HandInv'
  BY <1>1 DEF HandInv
<1>5. RecordInv'
  BY <1>2, <1>3 DEF RecordInv, HandInv
<1> QED
  BY <1>4, <1>5

-----------------------------------------------------------------------------
(* What the agent holds, and whether it was seen. *)

\* An event leaves the backlog only when a cycle whose batch names it is
\* confirmed, which its request has recorded all of; none comes back.
LEMMA HeldFacts ==
  ASSUME SyncInv, [Next]_vars, NEW e \in Events
  PROVE  /\ Held(e)' => Held(e) \/ (recorded < e /\ e = recorded')
         /\ Held(e) /\ ~Held(e)' => e \in processed /\ seen
         /\ recorded < e /\ e <= recorded' => Held(e)'
<1> USE DEF SyncInv
<1> recorded \in Nat /\ e \in Nat
  BY NumEventsAssumption DEF TypeOK, Events
<1>1. CASE ReportHealth
  <2> DEFINE new == [row |-> lastRow + 1, event |-> recorded + 1, synced |-> FALSE]
  <2>1. buffer' = buffer \cup {new} /\ recorded' = recorded + 1
    BY <1>1 DEF ReportHealth, Appended, NextRow
  <2>2. new.event = recorded + 1 /\ ~new.synced
    OBVIOUS
  <2> HIDE DEF new
  <2> QED
    BY <2>1, <2>2 DEF Held, Unsynced
<1>2. CASE BufferDetection
  <2> DEFINE new == [row |-> lastRow + 1, event |-> LocalOnly, synced |-> TRUE]
  <2>1. buffer' = buffer \cup {new} /\ recorded' = recorded
    BY <1>2 DEF BufferDetection, AppendedLocalOnly, NextRow
  <2>2. new.synced
    OBVIOUS
  <2> HIDE DEF new
  <2> QED
    BY <2>1, <2>2 DEF Held, Unsynced
<1>3. CASE Prune
  <2>1. Unsynced(buffer') = Unsynced(buffer) /\ recorded' = recorded
    BY <1>3, PrunedRows DEF Prune
  <2> QED
    BY <2>1 DEF Held, Unsynced
<1>4. ASSUME NEW c \in Cycles, Confirm(c)
      PROVE  /\ Held(e)' => Held(e)
             /\ Held(e) /\ ~Held(e)' => e \in processed /\ seen
             /\ recorded' = recorded
  <2> DEFINE ids == {r.row : r \in cycle[c].batch}
  <2>1. buffer' = WithSynced(buffer, ids) /\ recorded' = recorded
    BY <1>4 DEF Confirm
  <2>2. \A s \in buffer' : \E r \in buffer :
          s.row = r.row /\ s.event = r.event /\ s.synced = (r.synced \/ r.row \in ids)
    BY <2>1, WithSyncedRows DEF TypeOK
  <2>3. \A r \in buffer : r.row \notin ids => r \in buffer'
    BY <2>1, WithSyncedRows DEF TypeOK
  <2>4. Held(e)' => Held(e)
    BY <2>2 DEF Held, Unsynced
  <2>5. ASSUME Held(e), ~Held(e)'
        PROVE  e \in processed
    <3>1. PICK r \in buffer : ~r.synced /\ r.event = e
      BY <2>5 DEF Held, Unsynced
    <3>2. r.row \in ids
      BY <2>3, <2>5, <3>1 DEF Held, Unsynced
    <3>3. PICK q \in cycle[c].batch : q.row = r.row
      BY <3>2
    <3>4. q.event = e
      BY <3>1, <3>3 DEF SentInv, Names
    <3>5. q.event \in processed
      BY <1>4 DEF Confirm, AnswerInv, TypeOK
    <3> QED
      BY <3>4, <3>5
  <2>6. seen
    BY <1>4 DEF Confirm, SeenInv
  <2> QED
    BY <2>1, <2>4, <2>5, <2>6
<1>5. CASE ~TableStep
  <2>1. buffer' = buffer /\ recorded' = recorded
    BY <1>5, OtherSteps
  <2> QED
    BY <2>1 DEF Held, Unsynced
<1> QED
  BY <1>1, <1>2, <1>3, <1>4, <1>5 DEF TableStep

\* HeldInv is kept by every step.
LEMMA HeldStep ==
  ASSUME SyncInv, [Next]_vars
  PROVE  HeldInv'
<1> SUFFICES ASSUME NEW e \in Events, e <= recorded', e \notin processed'
             PROVE  Held(e)'
  BY DEF HeldInv
<1>1. recorded \in Nat /\ e \in Nat /\ e \notin processed
  BY NumEventsAssumption, Monotone DEF SyncInv, TypeOK, Events
<1>2. CASE e <= recorded
  BY <1>1, <1>2, HeldFacts DEF SyncInv, HeldInv
<1>3. CASE recorded < e
  BY <1>3, HeldFacts
<1> QED
  BY <1>1, <1>2, <1>3

\* SeenInv is kept by every step: only touchSync answers with 2xx.
LEMMA SeenStep ==
  ASSUME SyncInv, [Next]_vars
  PROVE  SeenInv'
<1> USE DEF SyncInv
<1>1. seen => seen'
  BY Monotone
<1>2. ASSUME NEW e \in Events, e <= recorded', ~Held(e)'
      PROVE  seen'
  <2>1. recorded \in Nat /\ e \in Nat
    BY NumEventsAssumption DEF TypeOK, Events
  <2>2. e <= recorded
    BY <1>2, <2>1, HeldFacts
  <2> QED
    BY <1>1, <1>2, <2>2, HeldFacts DEF SeenInv, ReleasedOnlyOnceSeen
<1>3. ASSUME NEW c \in Cycles, request'[c].at = "ok"
      PROVE  seen'
  <2>1. CASE \E d \in Cycles : TouchSync(d)
    BY <2>1 DEF TouchSync
  <2>2. CASE \E d \in Cycles : StartCycle(d)
    BY <1>1, <1>3, <2>2 DEF StartCycle, TypeOK, SeenInv
  <2>3. CASE \E d \in Cycles : Confirm(d) \/ LeaveUnsynced(d) \/ Unheard(d)
    BY <1>1, <1>3, <2>3
    DEF Confirm, LeaveUnsynced, Unheard, EndCycle, NoRequest, TypeOK, SeenInv
  <2>4. CASE \E d \in Cycles : MarkProcessed(d) \/ InsertOutbox(d)
    BY <1>1, <1>3, <2>4 DEF MarkProcessed, InsertOutbox, Advance, TypeOK, SeenInv
  <2>5. CASE \E d \in Cycles :
               Authenticate(d) \/ MarkFails(d) \/ InsertFails(d) \/ TouchFails(d)
    <3>1. CASE \E d \in Cycles : Answered(d, "refused")
      BY <1>1, <1>3, <3>1 DEF Answered, TypeOK, SeenInv
    <3>2. CASE \E d \in Cycles : request' = [request EXCEPT ![d].at = "mark"]
      BY <1>1, <1>3, <3>2 DEF TypeOK, SeenInv
    <3> QED
      BY <2>5, <3>1, <3>2 DEF Authenticate, MarkFails, InsertFails, TouchFails
  <2>6. CASE ApiStops
    BY <1>3, <2>6 DEF ApiStops, NoRequest
  <2>7. ASSUME \/ ReportHealth \/ BufferDetection \/ Prune \/ Stop \/ Restart
               \/ Revoke \/ UNCHANGED vars
               \/ \E d \in Cycles : NetworkError(d)
        PROVE  seen'
    <3>1. request' = request
      BY <2>7
      DEF ReportHealth, BufferDetection, Prune, Stop, Restart, Revoke, NetworkError, vars
    <3> QED
      BY <1>1, <1>3, <3>1 DEF SeenInv
  <2> QED
    BY <2>1, <2>2, <2>3, <2>4, <2>5, <2>6, <2>7 DEF Next, AgentStep, ApiStep
<1> QED
  BY <1>2, <1>3 DEF SeenInv, ReleasedOnlyOnceSeen

-----------------------------------------------------------------------------
\* SyncInv is inductive.
THEOREM SyncInvariant == Spec => []SyncInv
<1>1. Init => SyncInv
  BY InitSyncInv
<1>2. SyncInv /\ [Next]_vars => SyncInv'
  <2> SUFFICES ASSUME SyncInv, [Next]_vars PROVE SyncInv'
    OBVIOUS
  <2>1. TypeOK' /\ RowInv' /\ SentInv' /\ AnswerInv' /\ HeldInv' /\ SeenInv'
    BY TypeStep, TableFacts, SentStep, AnswerStep, HeldStep, SeenStep
  <2>2. HandInv' /\ RecordInv'
    BY QuietSteps, MarkHands, MarkFailsHands, InsertHands, ApiStopsHands
  <2> QED
    BY <2>1, <2>2 DEF SyncInv
<1> QED
  BY <1>1, <1>2, PTL DEF Spec

\* TypeOK: the variables of agent, network and API stay in their domains.
THEOREM EdgeTypeCorrect == Spec => []TypeOK
<1>1. SyncInv => TypeOK
  BY DEF SyncInv
<1> QED
  BY <1>1, SyncInvariant, PTL

\* SyncedIsAccountedFor: markSynced, restarts, pruning and overlapping cycles
\* never take an event from the agent that the API has neither put into the
\* outbox, nor is about to, nor lost after recording it.
THEOREM SyncedAccountedFor == Spec => []SyncedIsAccountedFor
<1>1. SyncInv => SyncedIsAccountedFor
  <2> SUFFICES ASSUME SyncInv, NEW e \in Events, e <= recorded, ~Held(e)
               PROVE  \/ outbox[e] = 1 \/ e \in lost
                      \/ \E c \in Cycles : \E r \in InHand(c) : r.event = e
    BY NumEventsAssumption DEF SyncedIsAccountedFor, SyncInv, TypeOK, Events
  <2>1. e \in processed
    BY DEF SyncInv, HeldInv
  <2> QED
    BY <2>1 DEF SyncInv, RecordInv
<1> QED
  BY <1>1, SyncInvariant, PTL

\* ReleasedOnlyOnceSeen: last_sync_at is set before any event leaves the
\* agent's backlog.
THEOREM ReleasedOnceSeen == Spec => []ReleasedOnlyOnceSeen
<1>1. SyncInv => ReleasedOnlyOnceSeen
  BY DEF SyncInv, SeenInv
<1> QED
  BY <1>1, SyncInvariant, PTL

-----------------------------------------------------------------------------
(* How many rows a prune leaves. *)

\* A set of naturals that is not empty has a least member.
LEMMA LeastNatural ==
  ASSUME NEW T, T \subseteq Nat, T # {}
  PROVE  \E n \in T : \A m \in T : n <= m
<1> DEFINE R == OpToRel(<, Nat)
<1>1. IsWellFoundedOn(R, Nat)
  BY NatLessThanWellFounded
<1>2. \A x, y \in Nat : <<x, y>> \in R <=> x < y
  <2>1. R = {ss \in Nat \X Nat : ss[1] < ss[2]}
    BY DEF OpToRel
  <2> QED
    BY <2>1
<1> HIDE DEF R
<1>3. PICK x \in T : \A y \in T : ~(<<y, x>> \in R)
  BY <1>1, WFMin
<1>4. \A y \in T : ~(y < x)
  BY <1>2, <1>3
<1>5. \A y \in T : x <= y
  BY <1>4
<1> QED
  BY <1>5

\* ORDER BY row_id LIMIT n takes all the rows there are, or n at least: the
\* least row it leaves has n smaller ones, and those it takes.
LEMMA OldestTakesEnough ==
  ASSUME NEW b \in SUBSET BufferRow, IsFiniteSet(b), NEW n \in Nat
  PROVE  b \ Oldest(b, n) = {} \/ n <= Cardinality(Oldest(b, n))
<1> SUFFICES ASSUME b \ Oldest(b, n) # {} PROVE n <= Cardinality(Oldest(b, n))
  OBVIOUS
<1> DEFINE Below(r) == {q \in b : q.row < r.row}
           rest == b \ Oldest(b, n)
           T == {r.row : r \in rest}
<1>1. PICK r \in rest : \A q \in rest : r.row <= q.row
  <2>1. T \subseteq Nat /\ T # {}
    BY DEF BufferRow
  <2>2. PICK m \in T : \A k \in T : m <= k
    BY <2>1, LeastNatural
  <2> QED
    BY <2>2
<1>2. Below(r) \subseteq Oldest(b, n)
  <2> SUFFICES ASSUME NEW q \in Below(r), q \in rest PROVE FALSE
    OBVIOUS
  <2>1. r.row <= q.row /\ q.row < r.row /\ r.row \in Nat /\ q.row \in Nat
    BY <1>1 DEF BufferRow
  <2> QED
    BY <2>1
<1>3. IsFiniteSet(Oldest(b, n)) /\ IsFiniteSet(Below(r))
  <2>1. Oldest(b, n) \in SUBSET b /\ Below(r) \in SUBSET b
    BY DEF Oldest
  <2> QED
    BY <2>1, FS_Subset
<1>4. Cardinality(Below(r)) <= Cardinality(Oldest(b, n))
  BY <1>2, <1>3, FS_Subset
<1>5. ~(Cardinality(Below(r)) < n)
  BY <1>1 DEF Oldest
<1>6. Cardinality(Below(r)) \in Nat /\ Cardinality(Oldest(b, n)) \in Nat
  BY <1>3, FS_CardinalityType
<1> QED
  BY <1>4, <1>5, <1>6

\* prune leaves at most the configured number of rows, or no synced one.
LEMMA PrunedBounds ==
  ASSUME NEW b \in SUBSET BufferRow, IsFiniteSet(b), NEW aged \in SUBSET Synced(b)
  PROVE  Cardinality(Pruned(b, aged)) <= BufferMaxRows \/ Synced(Pruned(b, aged)) = {}
<1> DEFINE kept == b \ aged
           total == Cardinality(kept)
           over == total - BufferMaxRows
           gone == Oldest(Synced(kept), over)
<1>1. kept \in SUBSET BufferRow /\ IsFiniteSet(kept) /\ total \in Nat
  BY FS_Difference, FS_CardinalityType
<1>2. CASE ~(total > BufferMaxRows)
  <2>1. Pruned(b, aged) = kept
    BY <1>2 DEF Pruned
  <2> QED
    BY <1>1, <1>2, <2>1, BufferMaxRowsAssumption
<1>3. CASE total > BufferMaxRows
  <2>1. Pruned(b, aged) = kept \ gone /\ over \in Nat
    BY <1>1, <1>3, BufferMaxRowsAssumption DEF Pruned
  <2>2. Synced(kept) \in SUBSET kept /\ Synced(kept) \in SUBSET BufferRow /\ gone \in SUBSET Synced(kept)
    BY <1>1 DEF Synced, Oldest
  <2>3. IsFiniteSet(Synced(kept))
    BY <1>1, <2>2, FS_Subset
  <2> HIDE DEF kept, over, gone
  <2>4. CASE Synced(kept) \ gone = {}
    <3>1. Synced(Pruned(b, aged)) = {}
      BY <2>1, <2>4 DEF Synced
    <3> QED
      BY <3>1
  <2>5. CASE Synced(kept) \ gone # {}
    <3>1. over <= Cardinality(gone)
      BY <2>1, <2>2, <2>3, <2>5, OldestTakesEnough DEF gone
    <3>2. kept \cap gone = gone /\ IsFiniteSet(gone)
      BY <2>2, <2>3, FS_Subset
    <3>3. Cardinality(kept \ gone) = total - Cardinality(gone)
      BY <1>1, <3>2, FS_Difference
    <3>4. Cardinality(gone) \in Nat
      BY <3>2, FS_CardinalityType
    <3> QED
      BY <1>1, <2>1, <3>1, <3>3, <3>4, BufferMaxRowsAssumption DEF over
  <2> QED
    BY <2>4, <2>5
<1> QED
  BY <1>2, <1>3

\* The number of rows is a number.
BufferIsFinite == IsFiniteSet(buffer)

\* The table is finite at all times: one row at a time is added to it.
LEMMA BufferFinite == Spec => []BufferIsFinite
<1>1. Init => BufferIsFinite
  BY FS_EmptySet DEF Init, BufferIsFinite
<1>2. BufferIsFinite /\ [Next]_vars => BufferIsFinite'
  <2> SUFFICES ASSUME IsFiniteSet(buffer), [Next]_vars PROVE IsFiniteSet(buffer')
    BY DEF BufferIsFinite
  <2>1. CASE ReportHealth
    BY <2>1, FS_AddElement DEF ReportHealth, Appended
  <2>2. CASE BufferDetection
    BY <2>2, FS_AddElement DEF BufferDetection, AppendedLocalOnly
  <2>3. CASE Prune
    <3>1. PICK aged \in SUBSET Synced(buffer) : buffer' = Pruned(buffer, aged)
      BY <2>3 DEF Prune
    <3>2. buffer' \in SUBSET buffer
      BY <3>1, PrunedRows
    <3> QED
      BY <3>2, FS_Subset
  <2>4. ASSUME NEW c \in Cycles, Confirm(c) PROVE IsFiniteSet(buffer')
    <3> DEFINE ids == {r.row : r \in cycle[c].batch}
               f == [r \in buffer |-> [r EXCEPT !.synced = @ \/ r.row \in ids]]
    <3>1. buffer' = WithSynced(buffer, ids)
      BY <2>4 DEF Confirm
    <3>2. buffer' = {f[r] : r \in buffer}
      BY <3>1 DEF WithSynced
    <3> HIDE DEF f
    <3>3. DOMAIN f = buffer /\ f = [r \in buffer |-> f[r]]
      BY DEF f
    <3>4. f \in Surjection(buffer, buffer')
      BY <3>2, <3>3 DEF Surjection
    <3> QED
      BY <3>4, FS_Surjection
  <2>5. \/ buffer' = buffer
        \/ ReportHealth \/ BufferDetection \/ Prune
        \/ \E c \in Cycles : Confirm(c)
    BY DEF Next, vars, deviceVars, AgentStep, ApiStep, Stop, Restart, ApiStops, Revoke,
           StartCycle, LeaveUnsynced, NetworkError, MarkFails, InsertFails, TouchFails,
           Authenticate, MarkProcessed, InsertOutbox, TouchSync, Unheard
  <2> QED
    BY <2>1, <2>2, <2>3, <2>4, <2>5
<1> QED
  BY <1>1, <1>2, PTL DEF Spec

\* PruneBoundsTheBuffer: however large the table has grown, a prune brings it
\* down to the cap or to the unsynced backlog, which it spares.
THEOREM PruneBounds == Spec => PruneBoundsTheBuffer
<1>1. TypeOK /\ BufferIsFinite /\ [Next]_vars
        => [Prune => /\ Unsynced(buffer') = Unsynced(buffer)
                     /\ \/ Cardinality(buffer') <= BufferMaxRows
                        \/ Synced(buffer') = {}]_vars
  <2> SUFFICES ASSUME TypeOK, IsFiniteSet(buffer), Prune
               PROVE  /\ Unsynced(buffer') = Unsynced(buffer)
                      /\ \/ Cardinality(buffer') <= BufferMaxRows
                         \/ Synced(buffer') = {}
    BY DEF BufferIsFinite
  <2>1. PICK aged \in SUBSET Synced(buffer) : buffer' = Pruned(buffer, aged)
    BY DEF Prune
  <2>2. buffer \in SUBSET BufferRow
    BY DEF TypeOK
  <2> QED
    BY <2>1, <2>2, PrunedRows, PrunedBounds
<1> QED
  BY <1>1, EdgeTypeCorrect, BufferFinite, PTL DEF PruneBoundsTheBuffer, Spec

-----------------------------------------------------------------------------

\* Every step of agent and API is one of the store-and-forward specification,
\* or changes nothing it can see.
LEMMA DeliveryStep ==
  ASSUME SyncInv, [Next]_vars
  PROVE  [Delivery!Next]_(Delivery!vars)
<1> DEFINE held == {e \in Events : Held(e)}
           handed == {r.event : r \in UNION {InHand(c) : c \in Cycles}}
<1> USE DEF SyncInv
<1>1. CASE ReportHealth
  <2>1. PICK new \in Events : new = recorded + 1
    BY <1>1, NumEventsAssumption DEF ReportHealth, TypeOK, Events
  <2>2. UNCHANGED <<processed, outbox, lost>> /\ recorded' = recorded + 1
    BY <1>1 DEF ReportHealth, serverVars
  <2>3. recorded \in Nat /\ recorded < new /\ new <= recorded'
    BY <2>1, <2>2, NumEventsAssumption DEF TypeOK
  <2>4. \A e \in Events : Held(e)' => Held(e) \/ e = new
    BY <2>1, <2>2, HeldFacts
  <2>5. Held(new)'
    BY <2>3, HeldFacts
  <2>6. ~Held(new) /\ new \notin processed
    BY <2>1, <2>3 DEF Held, Unsynced, RowInv, RecordInv
  <2>7. \A e \in Events : Held(e) => Held(e)'
    BY <1>1 DEF ReportHealth, Appended, Held, Unsynced
  <2>8. held' = held \cup {new}
    BY <2>4, <2>5, <2>7
  <2>9. Delivery!Record(new)
    BY <2>2, <2>6, <2>8 DEF Delivery!Record
  <2> QED
    BY <2>9 DEF Delivery!Next
<1>2. ASSUME NEW c \in Cycles, Confirm(c)
      PROVE  Delivery!Next
  <2>1. UNCHANGED <<processed, outbox, lost>> /\ recorded' = recorded
    BY <1>2 DEF Confirm, serverVars
  <2>2. \A e \in Events : Held(e)' => Held(e)
    BY <2>1, HeldFacts, NumEventsAssumption DEF TypeOK, Events
  <2>3. held \ held' \subseteq processed
    BY HeldFacts
  <2>4. held' = held \ (held \ held')
    BY <2>2
  <2>5. Delivery!Release(held \ held')
    BY <2>1, <2>3, <2>4 DEF Delivery!Release
  <2> QED
    BY <2>5 DEF Delivery!Next
<1>3. held' = held \/ ReportHealth \/ \E c \in Cycles : Confirm(c)
  <2>1. CASE BufferDetection
    <3>1. Unsynced(buffer') = Unsynced(buffer)
      BY <2>1 DEF BufferDetection, AppendedLocalOnly, Unsynced
    <3> QED
      BY <3>1 DEF Held
  <2>2. CASE Prune
    <3>1. Unsynced(buffer') = Unsynced(buffer)
      BY <2>2, PrunedRows DEF Prune
    <3> QED
      BY <3>1 DEF Held
  <2>3. CASE ~TableStep
    BY <2>3, OtherSteps DEF Held
  <2> QED
    BY <2>1, <2>2, <2>3 DEF TableStep
<1>4. ASSUME NEW c \in Cycles, MarkProcessed(c) \/ MarkFails(c)
      PROVE  [Delivery!Next]_(Delivery!vars)
  <2>1. held' = held
    BY <1>3, <1>4 DEF MarkProcessed, MarkFails, deviceVars, Held
  <2>2. UNCHANGED outbox
    BY <1>4 DEF MarkProcessed, MarkFails
  <2>3. PICK r \in request[c].todo :
          \/ UNCHANGED <<processed, lost>>
          \/ /\ r.event \notin processed
             /\ processed' = processed \cup {r.event}
             /\ lost' \in {lost, lost \cup {r.event}}
    BY <1>4 DEF MarkProcessed, MarkFails
  <2>4. r.event \in Events /\ r.event <= recorded
    BY NumEventsAssumption DEF SentInv, Names, TypeOK, Events
  <2>5. CASE UNCHANGED <<processed, lost>>
    BY <2>1, <2>2, <2>5 DEF Delivery!vars
  <2>6. CASE ~UNCHANGED <<processed, lost>>
    <3>1. r.event \in held \ processed
      BY <2>3, <2>4, <2>6 DEF HeldInv
    <3>2. Delivery!Accept(r.event)
      BY <2>1, <2>2, <2>3, <2>6, <3>1 DEF Delivery!Accept
    <3> QED
      BY <2>4, <3>2 DEF Delivery!Next
  <2> QED
    BY <2>5, <2>6
<1>5. ASSUME NEW c \in Cycles, InsertOutbox(c) \/ InsertFails(c)
      PROVE  Delivery!Next
  <2>1. held' = held /\ UNCHANGED processed
    BY <1>3, <1>5 DEF InsertOutbox, InsertFails, deviceVars, Held
  <2>2. PICK r \in InHand(c) :
          \/ outbox' = [outbox EXCEPT ![r.event] = @ + 1] /\ lost' = lost
          \/ outbox' = outbox /\ lost' = lost \cup {r.event}
    BY <1>5 DEF InsertOutbox, InsertFails, InHand
  <2>3. /\ r.event \in Events /\ r.event \in processed
        /\ r.event \notin lost /\ outbox[r.event] = 0
    BY OneInHand DEF HandInv
  <2>4. CASE outbox' = [outbox EXCEPT ![r.event] = @ + 1] /\ lost' = lost
    <3>1. outbox' = [outbox EXCEPT ![r.event] = 1]
      BY <2>3, <2>4 DEF TypeOK
    <3>2. Delivery!Forward(r.event)
      BY <2>1, <2>3, <2>4, <3>1 DEF Delivery!Forward
    <3> QED
      BY <2>3, <3>2 DEF Delivery!Next
  <2>5. CASE outbox' = outbox /\ lost' = lost \cup {r.event}
    <3>1. {r.event} \in SUBSET Events /\ Delivery!Drop({r.event})
      BY <2>1, <2>3, <2>5 DEF Delivery!Drop
    <3> QED
      BY <3>1 DEF Delivery!Next
  <2> QED
    BY <2>2, <2>4, <2>5
<1>6. CASE ApiStops
  <2>1. held' = held /\ UNCHANGED <<processed, outbox>> /\ lost' = lost \cup handed
    BY <1>3, <1>6 DEF ApiStops, deviceVars, Held
  <2>2. \A e \in handed : e \in Events /\ e \in processed /\ outbox[e] = 0
    BY OneInHand DEF HandInv
  <2> HIDE DEF handed
  <2>3. handed \in SUBSET Events /\ Delivery!Drop(handed)
    BY <2>1, <2>2 DEF Delivery!Drop
  <2> QED
    BY <2>3 DEF Delivery!Next
<1>7. ASSUME \/ BufferDetection \/ Prune \/ Stop \/ Restart \/ Revoke \/ UNCHANGED vars
             \/ \E c \in Cycles :
                  \/ StartCycle(c) \/ LeaveUnsynced(c) \/ NetworkError(c) \/ Authenticate(c)
                  \/ TouchSync(c) \/ TouchFails(c) \/ Unheard(c)
      PROVE  UNCHANGED <<processed, outbox, lost>>
  BY <1>7
  DEF BufferDetection, Prune, Stop, Restart, Revoke, vars, StartCycle, LeaveUnsynced,
      NetworkError, Authenticate, TouchSync, TouchFails, Unheard, serverVars
<1> QED
  BY <1>1, <1>2, <1>3, <1>4, <1>5, <1>6, <1>7
  DEF Next, AgentStep, ApiStep, Delivery!vars

\* StoresAndForwards: agent and API implement store and forward with at most one
\* outbox row per event, whatever overlaps, repeats, fails or restarts.
THEOREM StoreAndForwardImplemented == Spec => StoresAndForwards
<1>1. Init => Delivery!Init
  BY DEF Init, Delivery!Init, Held, Unsynced
<1>2. SyncInv /\ [Next]_vars => [Delivery!Next]_(Delivery!vars)
  BY DeliveryStep
<1> QED
  BY <1>1, <1>2, SyncInvariant, PTL DEF Spec, StoresAndForwards, Delivery!Spec
=============================================================================
