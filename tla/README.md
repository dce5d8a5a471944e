# Formal models of the AI Defense Platform

TLA+ models of the platform's core logic, checked with TLC on small instances,
and theorems about them checked by TLAPS for every value of the constants. All
paths are relative to the repository (`src/`). A comment at the head of each
module says what it stands for; `PROJECT.json` maps every definition to the
lines it models.

    tlc -workers 2 -config MCMissions.cfg MCMissions.tla        # one run
    tlapm Missions_proofs.tla                                   # one proof module

## 1. Inventory

The platform stores missions (a video to be analysed), runs a detection
pipeline on each, and shows the result live. A mission goes from an HTTP route
of `apps/api` through a transactional outbox, Kafka, the Python
`apps/vision-service` and Kafka again back to `apps/api`, which moves the
mission's status and tells the browsers. A model registry decides which
detector is loaded, and an edge agent runs the same detector on a device that is
connected now and then.

| Component | State | Operations | Talks to | What is hard | What makes it correct |
|---|---|---|---|---|---|
| Mission service (`apps/api/src/missions`) | `missions`, `audit_log`, `outbox_events` rows | create, update metadata, attach video, transition, delete, archive, unarchive | controllers, processing-events consumer, PostgreSQL | checks outside the transaction that uses them, READ COMMITTED, partial failure | status accounted for by the audit trail, one command per queueing, a delete is final |
| Outbox publisher (`apps/outbox-publisher`) | `outbox_events.published_at`, open transactions | claim, send, mark, commit, roll back | PostgreSQL, Kafka | several replicas, crash between send and commit, sends of unknown fate | at-least-once, no row held twice, every row published |
| Vision commands consumer (`apps/vision-service/.../kafka`) | `processed_events`, group offset, the message in hand | consume, mark, run pipeline, publish, retry, dead-letter | Kafka, MinIO, PostgreSQL | redelivery, rebalance with work in hand, kills, a failing publish | a command runs once, completion follows its output, a failure is told |
| API processing-events consumer (`apps/api/src/kafka`) | `processed_events`, group offset, mission status | consume, mark, transition with retry, relay, dead-letter | mission service, Kafka, realtime gateway | mark before effect, lost answers, two consumers after a rebalance | no event applied twice, none lost without trace, relay only what happened |
| Detections (`apps/api/src/detections`) | `detections`, `processed_events` | consume, insert, list | Kafka, realtime gateway | mark before effect, repeated attempts under fresh event ids | one row per published detection |
| Realtime gateway (`apps/api/src/realtime`) | socket rooms | join, leave, publish | browsers | best effort, reconnects, events lost or late | what a tab is told of comes to be shown |
| Model registry (`apps/api/src/model-registry`) | `model_versions`, `audit_log` | register, promote, roll back | vision service and edge agent read the production model | overlapping promotions, lock order | always a production model, undo is right |
| Datasets, training runs, training scripts (`apps/api/src/datasets`, `training-runs`, `apps/vision-service/.../training`) | insert-only rows, split manifests and artifacts in MinIO | register, split, train, publish, record | MinIO, model registry | keys shared between splits and between trainings, parallel uploads of which one fails | an object stays what the row that names it says |
| Edge device identity (`apps/api/src/edge`, `edge-auth`) | `edge_devices` with token hash and revocation | register, rotate, revoke, authenticate | edge agent | check then insert, revocation during a request | one device per id, a revoked token is refused |
| Edge ingestion (`apps/api/src/edge/edge-events.service.ts`) | `processed_events`, `outbox_events` | ingest a batch | edge agent, outbox | mark, then insert, per event | one outbox row per event |
| Edge agent (`apps/edge-agent`) | SQLite buffer, sidecar process, cached model | append, sync, prune, health report, model check, restart sidecar | edge ingestion, model registry | overlapping timers, lost answers, restarts, in-place model file | nothing unsynced is deleted, everything recorded is eventually sent, a new model is used |
| Detection pipeline, tracker, video, annotation (`apps/vision-service/.../detection` ...) | per-run tracks | detect, filter, track, draw | commands consumer, sidecar | association over frames, repeated attempts | a track is one object, the detections told are those of one run |
| Telemetry (`apps/api/src/telemetry`) | `telemetry` rows | parse, insert, list | web client | repeated upload | ordered points, all or nothing |
| Authentication (`apps/api/src/auth`) | `users` | register, log in, guard | all controllers | check then create | unique e-mail, role checks |
| Object storage (`apps/api/src/storage`) | none in the process | presigned URLs | MinIO | URL outlives its reason | scoped keys |
| Web client (`apps/web`) | query cache, session, socket, map and video element | mission pages, map, video overlay | API, gateway | events racing reads, page changes and logouts; effects that run before what they draw on is there | what the tab was told of is shown, what was read is drawn |
| Shared packages, infrastructure | none | constants, logging, compose | everything | | |

`PROJECT.json` lists these components with their files and status, and the
hazards (places where an order of events nobody wrote a test for could go
wrong) with the properties that watch them.

## 2. Modules

| Module | Models | Builds on |
|---|---|---|
| `MissionStateMachine` | the legal transitions of `mission-state-machine.ts` | |
| `Missions` | `MissionsService` over PostgreSQL | `MissionStateMachine` |
| `OutboxDelivery` | abstract: at-least-once delivery | |
| `OutboxPublisher` | `pollOnce()` of any number of replicas | instance of `OutboxDelivery` as its promise |
| `ProcessingTopics` | the topics of one mission, retry budget, failures | |
| `CommandsConsumer` | the vision-service consumer group | `ProcessingTopics` |
| `ProcessingEventsConsumer` | the API consumer group | `ProcessingTopics`, `MissionStateMachine` |
| `MissionProcessing` | the whole loop: operator, outbox, vision, API | the two consumers, instance of `OutboxDelivery` as the outbox |
| `ModelRegistry` | `ModelRegistryService` over PostgreSQL | |
| `EdgeBuffer` | the SQLite table of `event-buffer.ts` | |
| `EdgeDelivery` | abstract: store and forward, at most once | |
| `EdgeSync` | the agent's timers and sync cycles, `POST /edge/events` | `EdgeBuffer`, instance of `EdgeDelivery` as its promise |
| `EdgeSidecar` | model checks, the cached model file and the supervised sidecar | |
| `Tracker` | filter and tracker as operators over one frame | |
| `MissionDetections` | pipeline, `aidefense.detections` and the API's consumer of it | `Tracker` |
| `MissionView` | one browser tab: query cache, mission channel, session | |
| `Telemetry` | telemetry files, the route, positions in time, as operators | |
| `MissionOverview` | the map and the video overlay of a mission's page | `Telemetry` |
| `Training` | splits, training scripts, runs and registered artifacts | |
| `MC*` | model values, symmetry and definitions for TLC (`MissionView` and `EdgeSidecar` need none) | the module of that name |
| `*_proofs` | theorems and their proofs | the module of that name |

### Missions

A request is a call of one of the service's methods. `Begin` is the read and the
checks before the transaction, `Recheck` is `transition()`'s second read,
`Update` the UPDATE (which waits for the row lock) with the read back
that follows it, `RecordAudit` and `InsertOutbox` the two inserts, `FindAgain`
the read that ends archive and unarchive, `Commit` the COMMIT; `...Fails` are
the exceptions, and `Rollback` is any failure before COMMIT. `row`, `audit` and
`outbox` are the committed tables, `tx` what an open transaction has written,
`lock` PostgreSQL's row lock. A plain SELECT sees committed rows only, an UPDATE
applies to the version that is committed when it gets the lock: that is READ
COMMITTED, Prisma's default here. Requests that are refused change nothing and
are no step.

### OutboxPublisher and OutboxDelivery

`Claim` is `BEGIN` with the claim query (`FOR UPDATE SKIP LOCKED`, oldest
first, at most a batch), `Send` and `Mark` the loop body, `Commit` the COMMIT.
`SendFails` covers the three fates of a rejected send (never arrives, has
arrived, arrives later), `LateDelivery` is the third, `SendRetried` the
producer's own retry, `TransactionFails` a lost connection or process. Rows are
named by their `created_at` rank and may become visible out of order.
`OutboxDelivery` knows only which events wait or are retired and what the topic
holds; the refinement maps rows to events and keeps `stage` and `topic`.

### CommandsConsumer, ProcessingEventsConsumer, MissionProcessing

One mission's partition of `aidefense.commands`, `aidefense.processing-events`
and the dead-letter topic. Each action is the handler from one await to the
next: delivery, `mark_processed`, each publish, the retry, the dead letter. A
process may be killed at any of these points, a partition may move to another
process while the old one works on, and after either the group resumes at any
position up to the one it had reached, which is what aiokafka's timed commits
and kafkajs's resolve-after-return amount to. A failed call may or may not have
taken effect. `transition()` is one step here because `Missions` has its
inside, and the publisher is `OutboxDelivery` because `OutboxPublisher`
implements it.

### ModelRegistry

`promote()` and `rollback()` statement by statement: `FindProduction` (any one
of the production rows, as `LIMIT 1` without `ORDER BY` returns),
`FindDemoted`, `Demote`, `Promote`, `RecordAudit`, `Commit`. What an open
transaction has written follows from its target and the locks it holds, so it
needs no variable. `promotedAt` is read before the UPDATE that may wait, so its
order need not be the commit order. A circle of lock waits is ended by
`DeadlockDetected`.

### EdgeSync, EdgeBuffer and EdgeDelivery

`EdgeBuffer` has one operator per method of the buffer: `Appended`,
`AppendedLocalOnly`, `IsNextBatch`, `WithSynced`, `Pruned`. The calls of
node:sqlite are synchronous, so a method is one step of the agent. Row ids come
from an AUTOINCREMENT column (`NextRow`), which matters: a cycle marks rows by
the ids it read before it awaited the answer.

`EdgeSync` adds the timers of `main.ts` (`ReportHealth`, `Prune`, `StartCycle`),
`onDetection` (`BufferDetection`), `shutdown` and restarts. `runSyncCycle` is `StartCycle` up to
the await of its `fetch`, then `Confirm`, `LeaveUnsynced` or `NetworkError`. The
timer does not wait for the previous cycle, so cycles overlap. A cycle's
request is a variable of its own, because it can outlive the cycle (the agent
stops, the connection breaks) and the cycle can outlive it (the API dies). The
request goes through `Authenticate` (guard and batch cap), then per event
`MarkProcessed` and `InsertOutbox`, then `TouchSync`; these statements share no
transaction, and each may fail having taken effect or not. `lost` is a history
variable: the events recorded as processed whose outbox row will never come.

Left out: payloads (the byte cap may end a batch anywhere after its first row),
the counts in the answer, `lastSyncAt` in the health report, and registration
(the model starts with one registered device).

`EdgeDelivery` says what agent and API promise together: the device lets go of
an event only after the platform has accepted it, the platform forwards an
accepted event once or drops it. The refinement maps the unsynced rows to
`held`, `processed_events` to `accepted`, the outbox to `forwarded`.

### EdgeSidecar

`check` is one `checkForModelUpdate` each: `Resolve`, `OpenFile`
(`createWriteStream` empties the file), `FinishDownload`. The interval does not
wait for the check before, so two downloads may be in the one cache file;
`Written` and `Broken` say what that leaves. `child` is the process the agent
supervises, `timers` the restarts that wait for their backoff. A sidecar reads
the file twice (`LoadModel`), at import and in `run()`, and ends if it cannot
(`LoadFails`). A spawn that fails is `unborn`: it emits `error`, never `exit`,
and nothing restarts it. `StopAgent` is `shutdown()` or a crash.

### Tracker and MissionDetections

A video is what the detector reports in each of its frames, so that all short
videos can be enumerated. Boxes are intervals; overlap ratios are compared over
the integers. `Candidates`, `Matches`, `Aged`, `TrackIds` follow `update()` step
by step. The stable sort of the pairs and the filters are stated by rank
(`Sorted`, `Picked`): the k-th is the one with k - 1 before it, in an order
(`Before`) that breaks ties as the code finds the pairs. `MCMissionDetections`
compares `Matches` with a definition of greedy association (`IsGreedy`), and the
filter with "drops, and keeps the order", for all short lists (its two ASSUMEs,
evaluated when the run starts). `VideosAssumption` gives videos their type, and
bounds neither their length nor their boxes.

The worker (`RunPipeline`, `Publish`, `Complete`, `StageFails`) publishes every
detection of an attempt; the topic holds them in order, an index standing for
the fresh event id. The handler goes from await to await as in
`ProcessingEventsConsumer`: `Mark`, `Insert` with retries, `Relay`,
`DeadLetter`; processes are killed and the partition moves in between.

### MissionView

Changes of the mission (by this tab, the worker, another operator) are numbered
by a global clock; a cache entry shows the change it was read after. There are
two lists, each a cache entry of its own (`Lists`): the default one leaves
archived missions out, and `SetShowArchived` switches to the one that has them.
What an answer holds of the mission is read from the database with it
(`Holding`), because a list provides the tags of the missions in its result and
`LIST` (`Provides`): one that left the mission out is not hit by the mission's
tag. `told` records, per subject, the latest change the tab has been told of:
the mission, which missions the lists have, its detections, its audit rows. An
answer or an event tells of what it is about (`Reflects`, `EventReflects`), and
an entry is held to what it shows (`Concerns`). A request
goes out with the token of its moment (`Read`, `Request`), is answered from the
database as it is then (`Arrive`), and settles. An event (`ReceiveEvent`) or the
answer to a change (`Answered`) invalidates tags; while a query or a mutation is
under way the tags wait (`pendingTags`, RTK Query's delayed invalidation), then
what is subscribed reads again and the rest is dropped. Going back to a page
within `keepUnusedDataFor` shows the cached data; `Expire` ends that. `Connect`,
`Join` and `Drop` are the socket's life, `Relay` reaches the sockets of one API
replica, `RelayLost` is a process killed before it. A 401 of an old token that
arrives after a new login logs the new session out: that is what
`baseQueryWithReauth` does and the model has it.

### Telemetry and MissionOverview

`Telemetry` says which files are accepted (a row is its time and the worst thing
wrong with it), that points are appended all or none, and how positions in time
are found. In `MissionOverview` each React effect is an operator (`Mounts`,
`DataEffect`, `MarkerEffect`, `DrawEffect`) applied by the actions that change
what it depends on, to what is there at that moment.

### Training

A generated split is `GenerateSplit`, three `UploadText` in any order, any of
which may fail while the others go on, then `InsertSplit`. A training script is
`Train`, `UploadArtifact`, `ReportRun`, `RegisterModel`; every step may fail, and
an answer may be lost after its row was inserted. Objects are keyed as in the
code: manifests by dataset and seed, artifacts by dataset alone (every export
has the same file name).

## 3. Runs

| Run | Question | Bounds | Result |
|---|---|---|---|
| `missions` | Do two concurrent calls keep status, audit trail, commands and deletes consistent, and end? | 1 mission, 2 requests, 1 video, no new call after 5 audit rows | holds |
| `outbox` | At-least-once, exclusive claims, everything published? | 2 replicas, 3 rows, batch 2, 2 failures | holds |
| `processing` | Nothing applied twice, nothing lost silently, every mission ends? | 1 command with 2 copies, 2 workers, 2 consumers, 2 attempts, 1 failed call, 1 kill or rebalance, 1 operator transition | holds |
| `processing_failure` | Does a failed pipeline fail its mission? | 1 worker, 1 consumer, 3 attempts, no failures | violated |
| `registry` | A production model at all times, right rollback targets, no lasting deadlock? | 3 versions, 2 requests, 5 clock readings (3 once calls overlap) | holds |
| `edge_sync` | Each event forwarded at most once, nothing released unrecorded, the buffer bounded, everything confirmed? | 2 overlapping cycles, 2 events, 3 rows, buffer limit 1, batch of 2, 1 failure or restart | holds |
| `edge_sidecar` | One sidecar, none left without the model on disk, a model that stays is used? | 2 versions, 2 overlapping checks, 2 promotions, 1 failure, video does not loop | holds |
| `edge_model` | Does a new production model restart the sidecar? | the same, video loops | violated |
| `detections` | Consistent tracks, one run on the topic, every detection stored once and settled? | 27 videos of 3 frames with up to 3 detections, 2 consumers, 2 attempts, up to 4 failed calls, 1 kill or rebalance | holds |
| `mission_view` | Does a tab come to show what it has been told of? | the mission, archived or not at first, and the default list; 2 changes, 2 page changes, toggles, logins or expiries, 1 fault | holds |
| `mission_route` | Does the overview come to show the route? | 2 files, 1 upload, 2 versions of the detections, 2 user steps | violated |
| `training` | Does a model version's artifact stay that of its run? | 2 datasets, 2 scripts, 2 trainings, 1 split, 1 failure | violated |

Why the bounds are enough: every property of `missions` relates one mission to
the calls on it (missions share nothing but the two append-only tables), and
two calls with five audit rows reach every pair of methods in every order, twice
over. Two replicas and a batch of two out of three rows give partial batches,
rows skipped because they are locked, and a second claim of rolled-back rows.
In `processing` one mission is enough because every topic is keyed by mission
id; two processes per group are what a rebalance needs; two attempts behave as
three do (first, last), and the violation runs use the code's three. Three
versions are what tells "most recently demoted" from "any demoted", and five
clock readings reach an undo of an undo; with two overlapping calls three
readings already reach two production rows and a deadlock. In `edge_sync` two
cycles with two events give equal, overlapping and disjoint batches; the third
row is a detection, so that pruning removes local rows, confirmed rows and rows
a cycle still holds; with two failures instead of one (three times the states)
every property holds as well.

In `edge_sidecar` two checks and two versions are what mixes a file; failures
and promotions are events of the environment, and one or two of them reach
every position of a check and of the sidecar. `detections` enumerates every
video of up to two detections, and three of three in which an object beside
another appears, vanishes or comes back, with `MaxMisses` 0: a track is lost
after one frame, taken up by a neighbour, or given a new id. `MaxTrouble` allows
more failures the fewer events there are: three with one event on the topic,
enough for an insert to exhaust its attempts and the dead letter to fail as
well, one with three. In
`mission_view` the mission and the default list are the entries that differ in
tags, pages and what they hold (detections and audit rows behave as the mission
does; the list with the archived missions carries the mission's tag as long as
it is not deleted, and its page is one without an entry here); a change under
way while another is read, with a page change or a new session in between, takes
two changes and two moves.

The violated runs each check one claim a document or a comment makes:

* `processing_failure`: `commands_consumer.py:16-18` has failures reported so that
  the mission becomes FAILED. A failure before PROCESSING_STARTED meets a QUEUED
  mission, and QUEUED to FAILED is not a legal transition.
* `edge_model`: `Edge_Runtime.md:55-59` has the sidecar restarted with a newly
  promoted model. `checkForModelUpdate` compares paths, and the path is always
  the cache path: after the first download nothing restarts the sidecar.
* `mission_route`: `MissionMap.tsx:82-84` has the data applied by effects gated on
  the map's load event. The effect that makes the map runs on mount only, when
  its container is not rendered before telemetry is read, and nothing runs the
  data effect when the map loads.
* `training`: `PRD-Phase-8.md:219-221` has the registry record every exported
  artifact with its lineage. The next training of the same dataset overwrites
  the object (`train.py:127`), also that of the model in production.

### Further disagreements

Shown by configurations kept beside the runs, each of one property that TLC
finds violated (`tlc -config X.cfg` with the module given):

| Configuration | Module | Property | What is said, and what the code does |
|---|---|---|---|
| `MissionsRace.cfg` | `MCMissions` | `NoTransitionClobbers` | `missions.service.ts:120-123`: a concurrent transition loses with a conflict. The re-check takes no lock, so both can pass it. |
| `MissionsDelete.cfg` | `MCMissions` | `DeletedOnlyInDraft` | `Mission_State_Machine.md:65-66`: a delete is only legal in DRAFT. `deleteMission` does not look again inside its transaction. |
| `ProcessingKill.cfg` | `MCMissionProcessing` | `KillLosesNoCommand` | `PRD-Phase-3.md:240-241`: a killed consumer does not lose its command. The command is recorded as processed before it runs. |
| `RegistryRace.cfg` | `MCModelRegistry` | `AtMostOneProduction` | `model-registry.repository.ts:84`: at most one row in production by construction. Overlapping promotions read the same one. |
| `EdgeLoss.cfg` | `MCEdgeSync` | `NothingIsLost` | `Edge_Runtime.md:45-47`: nothing is lost by a failed sync; ADR-011 (62-65): recording and outbox row share a transaction. They are two statements; if the second fails the repeated batch is a duplicate. |
| `MissionViewReconnect.cfg` | `MissionView` | `ReconnectReadsAgain` | `PRD-Phase-6.md:194-198` (REQ-6.12): a dropped socket does not leave the page stale. Rejoining the room reads nothing again (`useMissionSocket.ts:42-45`). |
| `MissionOverlay.cfg` | `MCMissionOverview` | `OverlayIsDrawn` | `VideoPlayerWithOverlay.tsx:28`: an overlay synced to the video. The effect that draws does not depend on the video element, which appears after it ran. |
| `MissionListToggle.cfg` | `MissionView` | `ToggledListIsCurrent` | `MissionListPage.tsx:27-31`: toggling "Show archived" refetches, so the list always reflects the server's state. The default list read while the mission was archived carries no tag of it (`apiSlice.ts:81-90`); when another operator has unarchived it, an event or the operator's own edit invalidates the mission's tag only, and toggling back within `keepUnusedDataFor` reads nothing. The property excuses a tab that was told of nothing since. |
| `DetectionsRepeat.cfg` | `MCMissionDetections` | `OneEventPerDetection` | `PRD-Phase-5.md:156-158`: one event is published per retained detection. The loop that publishes is inside what `with_bounded_retry` repeats, under fresh event ids: an attempt that fails after the first send leaves its events, and the next one publishes them again. |
| `TrainingSplits.cfg` | `MCTraining` | `SplitIsReproducible` | `datasets.service.ts:75-81`: a later training fetches exactly the lists this call produced. A second split with the same seed overwrites the manifests. |

`TrainingArtifacts.cfg` is the opposite: `ArtifactExists` (`train.py:122-124`)
holds over all 126,027 states of its instance.

`CHECK_DEADLOCK` is off everywhere because each model stops when its bounds are
used up: an idle API or consumer is no error.

## 4. Properties and the hazards they watch

* `Missions`: `StatusIsAudited`, `AuditTrailIsComplete` (every committed change
  carries its audit row), `CommandPerQueueing` and `CommandHasVideo` (REQ-3.6),
  `DeletedIsFinal`, `CallsEnd`.
* `OutboxPublisher`: `ClaimsAreExclusive`, `DeliversAtLeastOnce` (refinement of
  `OutboxDelivery`), `EveryRowIsPublished` (REQ-3.7).
* `MissionProcessing`: `CommandRunsOnce`, `CompletionHasOutput`,
  `EventsAppliedOnce`, `RelayedWasApplied`, `NoEventVanishes`,
  `DeadLettersAreUnapplied` (REQ-3.8, 3.9, 5.6, 6.5), `MissionEnds`.
* `ModelRegistry`: `AuditNamesProduction`, `FormerProductionIsRollbackTarget`,
  `RollbackUndoesLastSwitch`, `CallsEnd` (REQ-8.10 to 8.12).
* `EdgeSync`: `StoresAndForwards` (refinement of `EdgeDelivery`),
  `SyncedIsAccountedFor`, `ReleasedOnlyOnceSeen`, `PruneBoundsTheBuffer`,
  `EveryReportIsConfirmed` (REQ-9.6 to 9.8).
* `EdgeSidecar`: `OneSidecar`, `NoModelLeftUnused`, `ModelIsUsed` (REQ-9.13,
  9.14).
* `MissionDetections`: `TracksAreConsistent`, `PublishedIsTheRun` (a second attempt
  repeats the first one's events and adds no others), `StoredOnce`,
  `EveryDetectionSettles` (REQ-5.6, 6.1).
* `MissionView`: `ToldIsComing` (a page that shows less than it was told of has
  the read that will fix it under way or waiting) and `ToldIsShown`. A list that
  leaves the mission out is held only to what lists hold: what it then misses is
  the subject of `ToggledListIsCurrent`, which does not hold.

Each property of a passing run is paired in `PROJECT.json` with a plausible bug
(an operator commented "Mutant" next to the definition it would replace) under
which the same run finds it violated.

`EventsAppliedOnce`, `StoredOnce` and `PublishedIsTheRun` do not forbid that a
repeated attempt publishes a detection twice, under two event ids; that is
`OneEventPerDetection`, which does not hold. `CommandPerQueueing` counts the
audited DRAFT -> QUEUED transitions; a resubmission from FAILED gets no command.

Five properties speak of the ways the code knowingly gives something up. A
message counts as `dropped` where the code itself leaves no trace: a process
killed after the duplicate mark, an exception swallowed by the runner's guard, a
dead letter that could not be sent. `NoEventVanishes` and `MissionEnds` say that
these are the only ways. `DeadLettersAreUnapplied` allows an applied event among
the dead letters only after a lost answer. `SyncedIsAccountedFor` allows an
event to be missing from the outbox only through the window between
`markProcessed` and the insert that the comment at
`edge-events.service.ts:31-35` accepts. `EveryDetectionSettles` counts as settled
what was dropped between mark and insert, and `ModelIsUsed` excepts an agent
whose last attempt to start a sidecar failed to spawn it.

## 5. Fairness

* `Missions`, `ModelRegistry`: weak fairness of a request's next statement (the
  Node event loop runs every continuation that is ready), strong fairness of an
  UPDATE that waits for a row lock (PostgreSQL serves lock waiters in order, so
  one that keeps becoming possible is not passed over for ever). Failures are
  never fair: no property relies on a rollback, except that PostgreSQL's
  deadlock detection runs (`DeadlockDetected`, weakly fair).
* `OutboxPublisher`: weak fairness of each replica's cycle: `main()` loops while
  the process lives and compose restarts it (`restart: unless-stopped`). Failures are bounded by
  `MaxFailures`, so liveness says: if failures stop, every row is published.
* `MissionProcessing`: weak fairness of the first delivery (which is what
  `EveryRowIsPublished` gives) and of each live consumer's next step; kills,
  failures, operators and further copies are not fair.
* `EdgeSync`: weak fairness of the agent's restart (an assumption about
  the device: the repository ships no service unit for the agent), of each cycle (`setInterval` keeps firing) and of each request's next statement.
  Failures are bounded by `MaxFailures` and never fair; pruning, reports and
  revocation are not fair either.
* `EdgeSidecar`: weak fairness of timers, of the sidecar's own progress and end,
  of reading its pipe and of each check's next step. Polls, promotions and
  failures are not fair.
* `MissionDetections`: weak fairness of each consumer's next step, as above.
* `MissionView`: weak fairness of requests and their answers, of changes already
  sent, of connecting, joining and receiving what is on a standing connection.
  Nobody has to click, log in, or publish.
* `MissionOverview`: weak fairness of the mission, telemetry and detection reads,
  of the map's style and of the URL request. Without it the counterexample could
  be a page that waits; with it the route is never drawn although everything
  has been answered.

## 6. Theorems

Proved by TLAPS for all values of the constants allowed by the named assumptions
of each module (natural-number bounds, null values outside their sets).

`Missions_proofs`: `TypeCorrect`, `StatusAudited`, `CommandsHaveVideos`,
`AuditTrailComplete`, `DeletionFinal`, `OneCommandPerQueueing`, from `TxInvariant`. None of these is
inductive by itself: at COMMIT the tables take what the transaction staged
several steps earlier. `TxInv` adds that a lock belongs to a call on that
mission past its UPDATE, that the staged row is the call's change of the row
that is committed now (the lock has kept others out), that the staged audit and
outbox rows are those of the call, and that a queueing call saw a video, which
no call detaches. One lemma per conjunct shows it preserved.
`OneCommandPerQueueing` counts positions in two growing tables: a COMMIT appends
to both or to neither (`CommitCounts`): a call that moves its mission from DRAFT
to QUEUED has its command staged when it reaches COMMIT (`QueueInv`), and `TxInv` says
that only such a call stages one. A mission has no audit row before it is
created (`NoEarlyAudit`).

`OutboxPublisher_proofs`: `PublisherTypeCorrect`, `ClaimsExclusive`,
`PublisherImplementsDelivery` from `OutboxInvariant`. The invariant adds that
what a replica marked is already in the topic, also in the topic of the
abstract specification, that idle replicas hold nothing, and that only inserted
rows are in flight; with it `Commit` is `Retire`, `Send`, `SendRetried`,
`SendFails` and `LateDelivery` are `Deliver` or stutter, and the rest stutters.

`ModelRegistry_proofs`: `RegistryTypeCorrect`, `ProductionIsKept`,
`RollbackTargetsKept` from `RegistryInvariant`: locks belong to transactions past
their first UPDATE and cover only the model they read and their target, a
committing transaction holds its target's lock, and the model a transaction read
in production is still one that can be rolled back to. `RollbackUndoes` needs
`SequentialInv`, which holds as long as calls have not overlapped: the target of
the last switch is in production and nothing else is, the model it replaced is
the most recently demoted one, and a call under way has read both and stamps
later than any row; so what a rollback picks by `promoted_at` alone is what the
audit trail says was replaced.

`EdgeSync_proofs`: `EdgeTypeCorrect`, `SyncedAccountedFor`, `ReleasedOnceSeen`,
`StoreAndForwardImplemented` from `SyncInvariant`, for any number of cycles. A
2xx answer confirms a batch sent many steps before, so the invariant follows it
all the way: a row id in a batch is never given to another event (`RowInv`,
`SentInv`), a request that can still be answered 2xx has recorded what it has
struck off (`AnswerInv`), an event between mark and insert is in one request's
hand only (`HandInv`), a recorded event is forwarded, lost or in hand
(`RecordInv`), and what is not recorded the agent still holds (`HeldInv`).
`StartCycle`, `Authenticate`, `TouchSync`, `Revoke` and the like stutter,
`MarkProcessed` is `Accept`, `InsertOutbox` is `Forward`, `Confirm` is `Release`,
and the failures are `Accept`, `Forward` or `Drop`. `PruneBounds`: the buffer is
finite, and the `n` oldest rows of a finite set are `n` or all of them
(`OldestTakesEnough`, from the least row that is not among them), so a prune that
takes as many synced rows as there are too many leaves the cap or no synced row.

`EdgeSidecar_proofs`: `SidecarTypeCorrect`, `ExactlyOneSidecar`,
`ModelReachesSidecar` from `SidecarInvariant`, for any number of versions and
overlapping checks. Here `TypeOK` carries the strengthening: an agent that is
not up supervises nothing, so an exit is only ever seen by an agent that is up,
and `OneSidecar` says that it then had no restart to come. A check changes the
sidecar only when the path is new, and then tells it to stop.

`MissionProcessing_proofs`: `ProcessingTypeCorrect`, `CommandRunsAtMostOnce`,
`CompletionAfterOutput`, `RelayAfterTransition`, `MarkedEventsAreAccounted`,
`DeadLettersHadNoEffect` and `EventsMoveOnce` from `ProcessingInvariant`, for any
non-empty sets of vision and API replicas. Its parts: `VisionInv`, that a command
was marked before it ran and that its output is behind the completion that reports
it; `AccountInv`, which follows an event from its duplicate mark to its end
(`MarkedFirst`, `HeldOnce`, `AppliedBeforeRelay`, `Accounted`, `TriedIsUnapplied`);
and `OrderInv`, that the status is the one the last audit row names and that
events only move it to a higher rank, which is why an event handed over twice
moves nothing again; while no replica has restarted, they also move it in turn.

`MissionDetections_proofs`: `DetectionsStoredOnce` from `DetectionsInvariant`. A row
is stored several steps after its event was marked, by a replica that may have been
replaced meanwhile: what is stored is marked, a marked event is in one replica's
hand only, and that replica has not stored it yet.

The same module proves what the pipeline computes, for videos of any length.
Induction is over sets of naturals (`Counting`, from the least member of a set),
which stays first order. `SortedLists` and `PickedElements` say that a sort by rank
is a listing, `BeforeIsOrder` that overlap ratios with ties by position are a strict
total order (`Fractions`: cross products compare transitively), `FoldExists` and
`StepByStep` that a fold is what its steps say. From these `MatchesGreedily` is
proved, then `FrameKeepsRun`: one frame keeps `RunInv`, by which a track that is
still followed was last seen exactly as many frames ago as it has misses, under its
own id and label, and ids below `next` are never given again. `DetectedByRun` takes
it over all frames. `WorkerInvariant` goes on from there over the attempts of the
worker: each one finds `Detected(video)`, the topic holds nothing else and all that
was sent. `TracksKeepTheirPromise` and `PublishedTheRun` follow.

`MissionView_proofs`: `NewsIsComing` from `ViewInvariant`, for any subset of the
cache entries. `ToldIsComing` is about the open page, but what the next page will
need is decided before it opens, so `Coming` follows every entry: at rest it has
what the tab was told of the things it shows, failed, waits for a tag of its own, or is not used and
shows nothing; and a read that began too early waits for a tag of what it will
provide. That a tag of the entry is among those of the change holds subject by
subject (`MutationTagsReflect`, `EventTagsReflect`): a list that has the mission
carries both tags, one that leaves it out carries `LIST` and shows nothing of
the mission. `Settle` keeps `Coming`, because tags take effect only when every entry is at
rest, and `Mounted` keeps it, because a page asks for what shows nothing; all
actions go through these two.

Every invariant, action property and refinement that a passing run checks is now
also a theorem. Only model-checked: the liveness properties (`CallsEnd` of
`Missions` and of `ModelRegistry`, `EveryRowIsPublished`, `MissionEnds`,
`EveryReportIsConfirmed`, `ModelIsUsed`, `EveryDetectionSettles`, `ToldIsShown`),
which rest on fairness and so on ENABLED; that the filter keeps the order
(`RetainedInOrder`, over short lists); and what the violated configurations and
`TrainingArtifacts.cfg` show about `MissionOverview` and `Training`.

## 7. Not modelled, and why

* Inference, drawing, evaluation scores and annotation formats are numeric code or
  file formats; a detector is the list it reports, a report the labels it has.
* Video reading, object storage and presigned URLs are I/O without state of their
  own in the process; their failures are inputs of the models. That an upload URL
  stays usable after its mission was queued (`missions.controller.ts:256`) would
  need the object store and a clock as state.
* Authentication: registration is a check and an insert under a unique index, and
  the guards are stateless functions of the token; what a token does over time is
  in `MissionView` (browser) and `EdgeSync` (device).
* How text becomes telemetry rows, and floating-point rounding of split ratios.
* Roles in the web client, forms' wording and layout.
* Shared packages, logging, health endpoints and deployment hold no logic of the
  kind checked here.
* Malformed Kafka messages and unknown event types are skipped by the code and
  left out. Payloads, timestamps (except the registry's order), correlation ids
  and log lines are abstracted away.
* A mission resubmitted from FAILED gets no command; `OperatorTransitions` has
  it, and `MissionEnds` speaks of the first run.

## 8. Plan

1. Registration and rotation of edge devices, and `rollback(toVersionId)` with a
   version that never was in production.
2. The upload of the video: URL lifetime, replacement while it is processed.
