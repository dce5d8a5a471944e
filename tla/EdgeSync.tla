------------------------------ MODULE EdgeSync ------------------------------
(***************************************************************************)
(* Store and forward between one edge agent (apps/edge-agent: event        *)
(* buffer, sync cycle, timers of main.ts) and the platform (POST           *)
(* /edge/events: DeviceAuthGuard, EdgeEventsService.ingest).               *)
(*                                                                         *)
(* Sync cycles are started by setInterval whether or not the previous one  *)
(* is done, so several may be under way.  A cycle has two halves, the      *)
(* awaiting fetch in the agent and the request in the API; either may      *)
(* outlive the other.  Each database statement of ingest() is a step of    *)
(* its own, since none of them shares a transaction with another.          *)
(*                                                                         *)
(* lost is a history variable: events recorded as processed whose outbox   *)
(* row will never be written.  Correlation ids, payloads, the counts in    *)
(* the answer and the agent's lastSyncAt are left out.                     *)
(***************************************************************************)
EXTENDS EdgeBuffer

CONSTANTS
  Cycles,          \* bound: sync cycles, with their requests, under way at once
  ServerMaxBatch,  \* MAX_BATCH_SIZE of the request's DTO
  MaxRows,         \* bound: rows ever inserted into the buffer
  MaxFailures      \* bound: calls that fail and processes that stop

ASSUME ServerMaxBatchAssumption == ServerMaxBatch \in Nat
ASSUME MaxRowsAssumption == MaxRows \in Nat
ASSUME MaxFailuresAssumption == MaxFailures \in Nat

VARIABLES
  device,     \* the agent's process: up or down
  buffer,     \* its table edge_events
  lastRow,    \* the largest row id ever used
  recorded,   \* health events appended so far
  cycle,      \* per cycle: whether it awaits an answer, and the rows it sent
  request,    \* per cycle: where its request is, and the rows it still has to do
  revoked,    \* edge_devices.revoked_at is set
  seen,       \* edge_devices.last_sync_at is set
  processed,  \* processed_events rows of consumer api-edge-events
  outbox,     \* outbox rows per event
  lost,
  failures

deviceVars == <<device, buffer, lastRow, recorded, cycle>>
serverVars == <<revoked, seen, processed, outbox, lost>>
vars == <<deviceVars, request, serverVars, failures>>

Idle == [waiting |-> FALSE, batch |-> {}]
NoRequest == [at |-> "none", todo |-> {}]

\* Where a request is: on its way, before one of ingest()'s statements, or
\* answered with 2xx (ok) or anything else (refused).
Stations == {"none", "arriving", "mark", "insert", "touch", "ok", "refused"}

Init ==
  /\ device = "up"
  /\ buffer = {} /\ lastRow = 0 /\ recorded = 0
  /\ cycle = [c \in Cycles |-> Idle]
  /\ request = [c \in Cycles |-> NoRequest]
  /\ revoked = FALSE /\ seen = FALSE
  /\ processed = {}
  /\ outbox = [e \in Events |-> 0]
  /\ lost = {}
  /\ failures = 0

Fail == failures < MaxFailures /\ failures' = failures + 1

-----------------------------------------------------------------------------
(* The agent. *)

\* runHealthReportCycle.
ReportHealth ==
  /\ device = "up" /\ recorded < NumEvents /\ lastRow < MaxRows
  /\ recorded' = recorded + 1
  /\ lastRow' = NextRow(buffer, lastRow)
  /\ buffer' = Appended(buffer, lastRow', recorded')
  /\ UNCHANGED <<device, cycle, request, serverVars, failures>>

\* onDetection.
BufferDetection ==
  /\ device = "up" /\ lastRow < MaxRows
  /\ lastRow' = NextRow(buffer, lastRow)
  /\ buffer' = AppendedLocalOnly(buffer, lastRow')
  /\ UNCHANGED <<device, recorded, cycle, request, serverVars, failures>>

\* runPrune; how long ago each row was synced is left open.
Prune ==
  /\ device = "up"
  /\ \E aged \in SUBSET Synced(buffer) : buffer' = Pruned(buffer, aged)
  /\ UNCHANGED <<device, lastRow, recorded, cycle, request, serverVars, failures>>

\* The timer fires: runSyncCycle up to the await of its fetch.  A cycle that
\* finds nothing unsynced returns at once and is no step.
StartCycle(c) ==
  /\ device = "up" /\ ~cycle[c].waiting /\ request[c] = NoRequest
  /\ Unsynced(buffer) # {}
  /\ \E S \in SUBSET Unsynced(buffer) :
       /\ IsNextBatch(buffer, S)
       /\ cycle' = [cycle EXCEPT ![c] = [waiting |-> TRUE, batch |-> S]]
       /\ request' = [request EXCEPT ![c] = [at |-> "arriving", todo |-> S]]
  /\ UNCHANGED <<device, buffer, lastRow, recorded, serverVars, failures>>

\* The cycle is over and nobody reads its answer any more.
EndCycle(c) ==
  /\ cycle' = [cycle EXCEPT ![c] = Idle]
  /\ request' = [request EXCEPT ![c] = NoRequest]

\* Mutant: response.ok is not looked at.
ConfirmAny(c) ==
  /\ cycle[c].waiting /\ request[c].at \in {"ok", "refused"}
  /\ buffer' = WithSynced(buffer, {r.row : r \in cycle[c].batch})
  /\ EndCycle(c)
  /\ UNCHANGED <<device, lastRow, recorded, serverVars, failures>>

\* A 2xx answer: response.json() and markSynced of the whole batch.
Confirm(c) ==
  /\ cycle[c].waiting /\ request[c].at = "ok"
  /\ buffer' = WithSynced(buffer, {r.row : r \in cycle[c].batch})
  /\ EndCycle(c)
  /\ UNCHANGED <<device, lastRow, recorded, serverVars, failures>>

\* Any other answer, or the connection closed without one: the rows stay
\* unsynced.
LeaveUnsynced(c) ==
  /\ cycle[c].waiting /\ request[c].at \in {"none", "refused"}
  /\ EndCycle(c)
  /\ UNCHANGED <<device, buffer, lastRow, recorded, serverVars, failures>>

\* The catch around fetch: the network fails on the agent's side while the
\* request is on its way, at work, or answered.
NetworkError(c) ==
  /\ cycle[c].waiting /\ request[c].at \notin {"none", "refused"}
  /\ Fail
  /\ cycle' = [cycle EXCEPT ![c] = Idle]
  /\ UNCHANGED <<device, buffer, lastRow, recorded, request, serverVars>>

\* Mutant: the cycles a process was in are taken to go on in the next one.
StopKeepingCycles ==
  /\ device = "up" /\ Fail
  /\ device' = "down"
  /\ UNCHANGED <<buffer, lastRow, recorded, cycle, request, serverVars>>

\* shutdown() or a crash: the process takes its cycles with it, the buffer is
\* on disk.
Stop ==
  /\ device = "up" /\ Fail
  /\ device' = "down"
  /\ cycle' = [c \in Cycles |-> Idle]
  /\ UNCHANGED <<buffer, lastRow, recorded, request, serverVars>>

Restart ==
  /\ device = "down"
  /\ device' = "up"
  /\ UNCHANGED <<buffer, lastRow, recorded, cycle, request, serverVars, failures>>

-----------------------------------------------------------------------------
(* POST /edge/events. *)

\* for (const event of events): the row the loop is at.
IsCurrent(c, r) == r \in request[c].todo /\ \A q \in request[c].todo : r.row <= q.row

Answered(c, how) == request' = [request EXCEPT ![c] = [at |-> how, todo |-> {}]]

\* The loop goes on to the next event, or to touchSync after the last.
Advance(c, r) ==
  LET rest == request[c].todo \ {r}
  IN  request' = [request EXCEPT ![c] =
                    [at |-> IF rest = {} THEN "touch" ELSE "mark", todo |-> rest]]

\* IngestEdgeEventsDto: ArrayMaxSize of events.
WithinCap(S) == Cardinality(S) <= ServerMaxBatch

\* DeviceAuthGuard, the DTO's batch cap, and the first loop of ingest(), which
\* finds nothing to object to.
Authenticate(c) ==
  /\ request[c].at = "arriving"
  /\ IF revoked \/ ~WithinCap(request[c].todo)
       THEN Answered(c, "refused")
       ELSE request' = [request EXCEPT ![c].at = "mark"]
  /\ UNCHANGED <<deviceVars, serverVars, failures>>

\* markProcessed: INSERT .. ON CONFLICT DO NOTHING RETURNING, one statement.
MarkProcessed(c) ==
  /\ request[c].at = "mark"
  /\ \E r \in request[c].todo :
       /\ IsCurrent(c, r)
       /\ IF r.event \in processed
            THEN Advance(c, r)
            ELSE request' = [request EXCEPT ![c].at = "insert"]
       /\ processed' = processed \cup {r.event}
  /\ UNCHANGED <<deviceVars, revoked, seen, outbox, lost, failures>>

\* markProcessed throws, having recorded the event or not.
MarkFails(c) ==
  /\ request[c].at = "mark" /\ Fail
  /\ \E r \in request[c].todo :
       /\ IsCurrent(c, r)
       /\ \/ UNCHANGED <<processed, lost>>
          \/ /\ r.event \notin processed
             /\ processed' = processed \cup {r.event}
             /\ lost' = lost \cup {r.event}
  /\ Answered(c, "refused")
  /\ UNCHANGED <<deviceVars, revoked, seen, outbox>>

\* outboxRepository.insert.
InsertOutbox(c) ==
  /\ request[c].at = "insert"
  /\ \E r \in request[c].todo :
       /\ IsCurrent(c, r)
       /\ outbox' = [outbox EXCEPT ![r.event] = @ + 1]
       /\ Advance(c, r)
  /\ UNCHANGED <<deviceVars, revoked, seen, processed, lost, failures>>

\* The insert throws, having written the row or not.
InsertFails(c) ==
  /\ request[c].at = "insert" /\ Fail
  /\ \E r \in request[c].todo :
       /\ IsCurrent(c, r)
       /\ \/ outbox' = [outbox EXCEPT ![r.event] = @ + 1] /\ UNCHANGED lost
          \/ lost' = lost \cup {r.event} /\ UNCHANGED outbox
  /\ Answered(c, "refused")
  /\ UNCHANGED <<deviceVars, revoked, seen, processed>>

\* Mutant: touchSync is not awaited, so the answer may come first.
TouchNotAwaited(c) ==
  /\ request[c].at = "touch"
  /\ Answered(c, "ok")
  /\ UNCHANGED <<deviceVars, serverVars, failures>>

\* touchSync, then the answer.
TouchSync(c) ==
  /\ request[c].at = "touch"
  /\ seen' = TRUE
  /\ Answered(c, "ok")
  /\ UNCHANGED <<deviceVars, revoked, processed, outbox, lost, failures>>

\* touchSync throws, having set last_sync_at or not.
TouchFails(c) ==
  /\ request[c].at = "touch" /\ Fail
  /\ seen' \in {seen, TRUE}
  /\ Answered(c, "refused")
  /\ UNCHANGED <<deviceVars, revoked, processed, outbox, lost>>

\* Nobody waits for this request: it gets lost on its way, or is done.
Unheard(c) ==
  /\ ~cycle[c].waiting /\ request[c].at \in {"arriving", "ok", "refused"}
  /\ request' = [request EXCEPT ![c] = NoRequest]
  /\ UNCHANGED <<deviceVars, serverVars, failures>>

\* The rows whose event a request has recorded and is about to hand on.
InHand(c) == {r \in request[c].todo : request[c].at = "insert" /\ IsCurrent(c, r)}

\* The API process dies: its requests end where they are.
ApiStops ==
  /\ \E c \in Cycles : request[c] # NoRequest
  /\ Fail
  /\ lost' = lost \cup {r.event : r \in UNION {InHand(c) : c \in Cycles}}
  /\ request' = [c \in Cycles |-> NoRequest]
  /\ UNCHANGED <<deviceVars, revoked, seen, processed, outbox>>

\* EdgeDevicesService.revoke.
Revoke ==
  /\ ~revoked
  /\ revoked' = TRUE
  /\ UNCHANGED <<deviceVars, request, seen, processed, outbox, lost, failures>>

-----------------------------------------------------------------------------
AgentStep(c) == StartCycle(c) \/ Confirm(c) \/ LeaveUnsynced(c)
ApiStep(c) ==
  Authenticate(c) \/ MarkProcessed(c) \/ InsertOutbox(c) \/ TouchSync(c) \/ Unheard(c)

Next ==
  \/ ReportHealth \/ BufferDetection \/ Prune \/ Stop \/ Restart \/ ApiStops \/ Revoke
  \/ \E c \in Cycles :
       \/ AgentStep(c) \/ ApiStep(c)
       \/ NetworkError(c) \/ MarkFails(c) \/ InsertFails(c) \/ TouchFails(c)

Spec == Init /\ [][Next]_vars

\* The timer keeps firing, both event loops run what is ready, and the agent is
\* started again after it stops.  Failures are bounded, never fair.
FairSpec ==
  /\ Spec
  /\ WF_vars(Restart)
  /\ \A c \in Cycles : WF_vars(AgentStep(c)) /\ WF_vars(ApiStep(c))

-----------------------------------------------------------------------------
Held(e) == \E r \in Unsynced(buffer) : r.event = e

\* Every variable stays in its domain, a stopped agent awaits nothing, and only
\* a request with an event left is before a statement that needs one.
TypeOK ==
  /\ device \in {"up", "down"}
  /\ buffer \in SUBSET BufferRow
  /\ lastRow \in Nat
  /\ recorded \in 0..NumEvents
  /\ cycle \in [Cycles -> [waiting : BOOLEAN, batch : SUBSET BufferRow]]
  /\ request \in [Cycles -> [at : Stations, todo : SUBSET BufferRow]]
  /\ revoked \in BOOLEAN /\ seen \in BOOLEAN
  /\ processed \in SUBSET Events
  /\ outbox \in [Events -> Nat]
  /\ lost \in SUBSET Events
  /\ failures \in Nat
  /\ device = "down" => \A c \in Cycles : ~cycle[c].waiting
  /\ \A c \in Cycles : request[c].at \in {"arriving", "mark", "insert"} <=> request[c].todo # {}

Delivery == INSTANCE EdgeDelivery WITH
  held <- {e \in Events : Held(e)}, accepted <- processed,
  forwarded <- outbox, dropped <- lost

\* REQ-9.6 and REQ-9.7: overlapping cycles, repeated batches, pruning and
\* restarts together never forward an event twice, and the agent lets go of no
\* event that the API has not recorded.
StoresAndForwards == Delivery!Spec

\* An event the agent no longer holds has its outbox row, is about to get it
\* from another cycle's request, or fell into the window between markProcessed
\* and the insert that the service's comment accepts.
SyncedIsAccountedFor ==
  \A e \in Events :
    \/ recorded < e \/ Held(e)
    \/ outbox[e] = 1 \/ e \in lost
    \/ \E c \in Cycles : \E r \in InHand(c) : r.event = e

\* touchSync's comment: last_sync_at is set once a batch is durably persisted,
\* so no event leaves the agent's backlog while the device counts as never seen.
ReleasedOnlyOnceSeen == \A e \in Events : e <= recorded /\ ~Held(e) => seen

\* REQ-9.8: a prune leaves at most the configured number of rows, or nothing
\* but the unsynced backlog, and of that it takes nothing.
PruneBoundsTheBuffer ==
  [][Prune =>
       /\ Unsynced(buffer') = Unsynced(buffer)
       /\ \/ Cardinality(buffer') <= BufferMaxRows
          \/ Synced(buffer') = {}]_vars

\* Once failures stop, every health event is confirmed to the agent, unless the
\* device has been revoked.
EveryReportIsConfirmed ==
  \A e \in Events : Held(e) ~> (~Held(e) \/ revoked)

\* Edge_Runtime.md: a failed request leaves every row for the next cycle, so
\* "nothing is lost".
NothingIsLost ==
  \A e \in Events :
    \/ recorded < e \/ Held(e)
    \/ outbox[e] = 1
    \/ \E c \in Cycles : \E r \in InHand(c) : r.event = e
=============================================================================
