-------------------------- MODULE MissionDetections --------------------------
(***************************************************************************)
(* A mission's detections on their way from the pipeline to the table:     *)
(* run_detection_pipeline and the publishing loop of commands_consumer.py, *)
(* aidefense.detections, and the api-detections consumer group             *)
(* (detections.handler.ts, detections.repository.ts).                      *)
(*                                                                         *)
(* The detector is deterministic, so a video stands for what is detected   *)
(* in each of its frames.  The worker's other messages, and its being      *)
(* killed, are in CommandsConsumer.                                        *)
(***************************************************************************)
EXTENDS Tracker

CONSTANTS
  Videos,         \* sequences of frames, each a sequence of detections
  Consumers,      \* API processes
  RetryAttempts,  \* attempts of the worker and of the handler, 3 in the code
  MaxTrouble,     \* bound: a call may report an error while the errors so far
                  \* and the events on the topic are fewer than this
  MaxRestarts     \* bound: processes killed, partitions reassigned

ASSUME VideosAssumption == Videos \subseteq Seq(Seq(Reports))

VARIABLES
  video,        \* what is detected in the mission's video
  worker,       \* the attempt under way: its stage, what the pipeline
                \* returned, how much of it has been sent
  topic,        \* aidefense.detections; event ids are fresh, an index stands for one
  owner,        \* the consumer the partition is assigned to
  offset,       \* messages resolved
  processed,    \* event ids with a processed_events row of "api-detections"
  handler,      \* per consumer, where it is, in which event and attempt
  rows,         \* detections table: the event each row was inserted for
  relayed,      \* events published on the mission's realtime channel
  deadLetters,
  unsure,       \* history: events whose INSERT was applied and reported as failed
  dropped,      \* history: events given up without a trace
  failures, restarts

workerVars == <<video, worker, topic>>
groupVars == <<owner, offset, processed, handler>>
tableVars == <<rows, relayed, deadLetters, unsure, dropped>>
vars == <<workerVars, groupVars, tableVars, failures, restarts>>

Waiting == [pc |-> "idle", event |-> 0, attempt |-> 0]

Init ==
  /\ video \in Videos
  /\ worker = [pc |-> "pipeline", attempt |-> 1, found |-> <<>>, sent |-> 0]
  /\ topic = <<>>
  /\ owner = CHOOSE c \in Consumers : TRUE
  /\ offset = 0 /\ processed = {}
  /\ handler = [c \in Consumers |-> Waiting]
  /\ rows = <<>> /\ relayed = {} /\ deadLetters = {} /\ unsure = {} /\ dropped = {}
  /\ failures = 0 /\ restarts = 0

CallFails == failures + Len(topic) < MaxTrouble /\ failures' = failures + 1
Disrupted == restarts < MaxRestarts /\ restarts' = restarts + 1

-----------------------------------------------------------------------------
(* The worker. *)

\* Mutant: one tracker for the life of the process.
KeptTracker ==
  [NewTracker EXCEPT !.next = 1 + Cardinality({worker.found[i].track : i \in DOMAIN worker.found})]

FreshTracker == NewTracker

\* One frame: detect, filter, track, and an event per tracked detection.
WithFrame(v, run, frame) ==
  LET kept == Retained(v[frame])
      ids == TrackIds(run.tracker, kept)
  IN  [tracker |-> Updated(run.tracker, kept),
       found |-> run.found
         \o [d \in DOMAIN kept |-> [frame |-> frame, track |-> ids[d],
                                    label |-> kept[d].label, box |-> kept[d].box]]]

\* run_detection_pipeline: every frame in order, with a tracker of its own.
Detected(v) ==
  FoldLeft(LAMBDA run, frame : WithFrame(v, run, frame),
           [tracker |-> FreshTracker, found |-> <<>>],
           [frame \in DOMAIN v |-> frame]).found

RunPipeline ==
  /\ worker.pc = "pipeline"
  /\ worker' = [worker EXCEPT !.pc = "publish", !.found = Detected(video), !.sent = 0]
  /\ UNCHANGED <<video, topic, groupVars, tableVars, failures, restarts>>

\* The next DETECTION_PUBLISHED, under an event id of its own.
Publish ==
  /\ worker.pc = "publish" /\ worker.sent < Len(worker.found)
  /\ topic' = Append(topic, worker.found[worker.sent + 1])
  /\ worker' = [worker EXCEPT !.sent = @ + 1]
  /\ UNCHANGED <<video, groupVars, tableVars, failures, restarts>>

\* The upload and PROCESSING_COMPLETED.
Complete ==
  /\ worker.pc = "publish" /\ worker.sent = Len(worker.found)
  /\ worker' = [worker EXCEPT !.pc = "completed"]
  /\ UNCHANGED <<video, topic, groupVars, tableVars, failures, restarts>>

\* A stage raises, a publish possibly after it reached the topic: the whole
\* run is tried again, from the pipeline on.
StageFails ==
  /\ worker.pc \in {"pipeline", "publish"} /\ CallFails
  /\ \/ UNCHANGED topic
     \/ /\ worker.pc = "publish" /\ worker.sent < Len(worker.found)
        /\ topic' = Append(topic, worker.found[worker.sent + 1])
  /\ worker' = IF worker.attempt < RetryAttempts
               THEN [worker EXCEPT !.pc = "pipeline", !.attempt = @ + 1]
               ELSE [worker EXCEPT !.pc = "failed"]
  /\ UNCHANGED <<video, groupVars, tableVars, restarts>>

-----------------------------------------------------------------------------
(* handleDetectionMessage. *)

At(c, position) == handler[c].pc = position
Goto(c, position) == handler' = [handler EXCEPT ![c].pc = position]

\* Mutant: a skipped message is not resolved.
ResolveNot(c) ==
  /\ handler' = [handler EXCEPT ![c] = Waiting]
  /\ UNCHANGED offset

\* eachMessage returns: the offset moves if the consumer still has the partition.
Resolve(c) ==
  /\ handler' = [handler EXCEPT ![c] = Waiting]
  /\ offset' = IF owner = c /\ offset = handler[c].event - 1
               THEN handler[c].event ELSE offset

\* eachMessage throws: the same message comes again.
Throw(c) == handler' = [handler EXCEPT ![c] = Waiting] /\ UNCHANGED offset

Deliver(c) ==
  /\ owner = c /\ At(c, "idle") /\ offset < Len(topic)
  /\ handler' = [handler EXCEPT ![c] = [pc |-> "mark", event |-> offset + 1, attempt |-> 1]]
  /\ UNCHANGED <<workerVars, owner, offset, processed, tableVars, failures, restarts>>

\* Mutant: the answer of markProcessed is ignored.
MarkIgnored(c) ==
  /\ At(c, "mark")
  /\ processed' = processed \cup {handler[c].event}
  /\ Goto(c, "insert")
  /\ UNCHANGED <<workerVars, owner, offset, tableVars, failures, restarts>>

\* markProcessed; a duplicate is skipped.
Mark(c) ==
  /\ At(c, "mark")
  /\ processed' = processed \cup {handler[c].event}
  /\ IF handler[c].event \in processed THEN Resolve(c)
     ELSE Goto(c, "insert") /\ UNCHANGED offset
  /\ UNCHANGED <<workerVars, owner, tableVars, failures, restarts>>

\* markProcessed rejects: if its INSERT committed, the redelivery is skipped.
MarkFails(c) ==
  /\ At(c, "mark") /\ CallFails
  /\ \/ UNCHANGED <<processed, dropped>>
     \/ /\ handler[c].event \notin processed
        /\ processed' = processed \cup {handler[c].event}
        /\ dropped' = dropped \cup {handler[c].event}
  /\ Throw(c)
  /\ UNCHANGED <<workerVars, owner, rows, relayed, deadLetters, unsure, restarts>>

\* DetectionsRepository.insert, under a row id made for this very statement.
Insert(c) ==
  /\ At(c, "insert")
  /\ rows' = Append(rows, handler[c].event)
  /\ Goto(c, "relay")
  /\ UNCHANGED <<workerVars, owner, offset, processed, relayed, deadLetters, unsure, dropped,
                 failures, restarts>>

\* withBoundedRetry: again, or give up.
Retried(h) == IF h.attempt < RetryAttempts THEN [h EXCEPT !.attempt = @ + 1]
                                           ELSE [h EXCEPT !.pc = "deadletter"]

\* The INSERT rejects, applied or not.
InsertFails(c) ==
  /\ At(c, "insert") /\ CallFails
  /\ \/ UNCHANGED <<rows, unsure>>
     \/ /\ rows' = Append(rows, handler[c].event)
        /\ unsure' = unsure \cup {handler[c].event}
  /\ handler' = [handler EXCEPT ![c] = Retried(@)]
  /\ UNCHANGED <<workerVars, owner, offset, processed, relayed, deadLetters, dropped, restarts>>

\* publishMissionEvent, then the handler returns.
Relay(c) ==
  /\ At(c, "relay")
  /\ relayed' = relayed \cup {handler[c].event}
  /\ Resolve(c)
  /\ UNCHANGED <<workerVars, owner, processed, rows, deadLetters, unsure, dropped,
                 failures, restarts>>

DeadLetter(c) ==
  /\ At(c, "deadletter")
  /\ deadLetters' = deadLetters \cup {handler[c].event}
  /\ Resolve(c)
  /\ UNCHANGED <<workerVars, owner, processed, rows, relayed, unsure, dropped,
                 failures, restarts>>

\* dlqProducer.send rejects: the message comes again and is skipped.
DeadLetterFails(c) ==
  /\ At(c, "deadletter") /\ CallFails
  /\ deadLetters' \in {deadLetters, deadLetters \cup {handler[c].event}}
  /\ dropped' = dropped \cup {handler[c].event}
  /\ Throw(c)
  /\ UNCHANGED <<workerVars, owner, processed, rows, relayed, unsure, restarts>>

\* The group resumes where it had committed to.
Resume == owner' \in Consumers /\ offset' \in 0..offset

\* The process is killed with a message in hand.
Kill(c) ==
  /\ ~At(c, "idle") /\ Disrupted
  /\ handler' = [handler EXCEPT ![c] = Waiting]
  /\ IF owner = c THEN Resume ELSE UNCHANGED <<owner, offset>>
  /\ dropped' = IF handler[c].pc \in {"insert", "deadletter"}
                THEN dropped \cup {handler[c].event} ELSE dropped
  /\ UNCHANGED <<workerVars, processed, rows, relayed, deadLetters, unsure, failures>>

\* The partition is reassigned while its owner goes on with its message.
Reassign ==
  /\ Disrupted /\ Resume
  /\ UNCHANGED <<workerVars, processed, handler, tableVars, failures>>

-----------------------------------------------------------------------------
WorkerStep == RunPipeline \/ Publish \/ Complete
HandlerStep(c) == Deliver(c) \/ Mark(c) \/ Insert(c) \/ Relay(c) \/ DeadLetter(c)

Next ==
  \/ WorkerStep \/ StageFails \/ Reassign
  \/ \E c \in Consumers : \/ HandlerStep(c) \/ Kill(c)
                          \/ MarkFails(c) \/ InsertFails(c) \/ DeadLetterFails(c)

Spec == Init /\ [][Next]_vars

\* kafkajs goes on fetching, Node runs every continuation that is ready.
FairSpec == Spec /\ \A c \in Consumers : WF_vars(HandlerStep(c))

-----------------------------------------------------------------------------
\* What the tracker promises over a whole run, with boxes of several objects
\* crossing, appearing and vanishing: the detections of one frame have tracks
\* of their own, a track keeps its label, and it is never taken up again after
\* more frames than it survives.
TracksAreConsistent ==
  \A i, j \in DOMAIN worker.found :
    LET a == worker.found[i]  b == worker.found[j]
    IN  i < j /\ a.track = b.track =>
          /\ a.frame < b.frame
          /\ a.label = b.label
          /\ \E k \in (i + 1)..j : /\ worker.found[k].track = a.track
                                   /\ worker.found[k].frame - a.frame <= MaxMisses + 1

\* REQ-5.6: whatever attempts it took, the detections on the topic are those of
\* the run that completed, under the same track ids.
PublishedIsTheRun ==
  worker.pc = "completed" =>
    {topic[e] : e \in DOMAIN topic} = {worker.found[i] : i \in DOMAIN worker.found}

\* REQ-5.6, as PRD-Phase-5.md:156-158 has it: one event per retained detection,
\* however many attempts of the worker it takes to publish them.
OneEventPerDetection == \A i, j \in DOMAIN topic : topic[i] = topic[j] => i = j

\* REQ-6.1: an event is stored once, and told to the browser only once stored,
\* over redeliveries, kills and two processes at work: only an INSERT whose
\* answer was lost is repeated.
StoredOnce ==
  /\ \A i, j \in DOMAIN rows : i # j /\ rows[i] = rows[j] => rows[i] \in unsure
  /\ relayed \subseteq {rows[i] : i \in DOMAIN rows}

Settled(e) == (\E i \in DOMAIN rows : rows[i] = e) \/ e \in deadLetters \cup dropped

\* Every published detection is stored or dead-lettered in the end, unless its
\* handler was killed or a call failed after the event was marked as processed.
EveryDetectionSettles == <>[](\A e \in DOMAIN topic : Settled(e))
=============================================================================
