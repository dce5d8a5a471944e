-------------------------- MODULE CommandsConsumer --------------------------
(***************************************************************************)
(* apps/vision-service: the consumer group that runs the pipeline for one  *)
(* mission's MISSION_PROCESSING_REQUESTED command.                         *)
(*                                                                         *)
(* aiokafka moves its position past a message when it hands it out and     *)
(* commits that position on a timer, so after a restart or a rebalance the *)
(* group resumes anywhere up to it.  A worker that loses the partition is  *)
(* not stopped: it finishes the message it has in hand.                    *)
(*                                                                         *)
(* A mission's video may be unreadable and its inference may fail at any   *)
(* attempt; those are inputs.  Lost answers of broker and database and     *)
(* killed processes are failures, and are bounded.                         *)
(***************************************************************************)
EXTENDS ProcessingTopics

CONSTANT Workers   \* vision-service processes

ASSUME WorkersAssumption == Workers # {}

VARIABLES
  commandOwner,      \* the worker the partition is assigned to
  commandOffset,     \* messages the group has handed out
  commandProcessed,  \* processed_events has (Command, "vision-service")
  runs,              \* history: how often a worker got past the duplicate check
  work,              \* per worker, where it is and in which attempt
  output             \* what the mission's pipeline has produced so far

visionVars == <<commandOwner, commandOffset, commandProcessed, runs, work, output>>

Idle == [pc |-> "idle", attempt |-> 0]

WorkerPositions ==
  {"idle", "mark", "fetch", "pipeline", "upload", "completed", "failed", "deadletter"}

\* Which worker starts with the partition makes no difference.
VisionInit ==
  /\ commandOwner = CHOOSE w \in Workers : TRUE
  /\ commandOffset = 0
  /\ commandProcessed = FALSE
  /\ runs = 0
  /\ work = [w \in Workers |-> Idle]
  /\ output = {}

At(w, position) == work[w].pc = position
Goto(w, position) == work' = [work EXCEPT ![w].pc = position]
Return(w) == work' = [work EXCEPT ![w] = Idle]

Announce(type) == events' = Append(events, type)

\* with_bounded_retry: the next attempt starts over, after the last one the
\* handler gives up.
AttemptFailed(w) ==
  work' = [work EXCEPT ![w] =
    IF @.attempt < RetryAttempts THEN [pc |-> "fetch", attempt |-> @.attempt + 1]
    ELSE [pc |-> "failed", attempt |-> @.attempt]]

-----------------------------------------------------------------------------
\* `async for message in self._consumer`.
DeliverCommand(w) ==
  /\ commandOwner = w /\ At(w, "idle")
  /\ commandOffset < Len(topic)
  /\ commandOffset' = commandOffset + 1
  /\ work' = [work EXCEPT ![w] = [pc |-> "mark", attempt |-> 1]]
  /\ UNCHANGED <<commandOwner, commandProcessed, runs, output, events, deadLetters,
                 failures, dropped>>

\* Mutant: the result of mark_processed is ignored.
MarkCommandIgnored(w) ==
  /\ At(w, "mark")
  /\ commandProcessed' = TRUE
  /\ runs' = runs + 1
  /\ Goto(w, "fetch")
  /\ UNCHANGED <<commandOwner, commandOffset, output, events, deadLetters, failures, dropped>>

\* mark_processed: one INSERT .. ON CONFLICT DO NOTHING, committed at once.
MarkCommand(w) ==
  /\ At(w, "mark")
  /\ commandProcessed' = TRUE
  /\ \/ commandProcessed /\ Return(w) /\ UNCHANGED runs
     \/ ~commandProcessed /\ Goto(w, "fetch") /\ runs' = runs + 1
  /\ UNCHANGED <<commandOwner, commandOffset, output, events, deadLetters, failures, dropped>>

\* mark_processed raises, with or without its INSERT committed: _run's guard
\* logs the error and takes the next message.
MarkCommandFails(w) ==
  /\ At(w, "mark") /\ CallFails
  /\ commandProcessed' \in {commandProcessed, TRUE}
  /\ Return(w)
  /\ dropped' = TRUE
  /\ UNCHANGED <<commandOwner, commandOffset, runs, output, events, deadLetters>>

\* process(): the download and the metadata, then PROCESSING_STARTED.
PublishStarted(w) ==
  /\ At(w, "fetch") /\ Goto(w, "pipeline")
  /\ Announce("PROCESSING_STARTED")
  /\ UNCHANGED <<commandOwner, commandOffset, commandProcessed, runs, output,
                 deadLetters, failures, dropped>>

\* The pipeline, then one DETECTION_PUBLISHED after the other.
PublishDetections(w) ==
  /\ At(w, "pipeline") /\ Goto(w, "upload")
  /\ output' = output \cup {"detections"}
  /\ UNCHANGED <<commandOwner, commandOffset, commandProcessed, runs,
                 events, deadLetters, failures, dropped>>

\* Mutant: the upload is not awaited and its failure goes unseen.
UploadNotAwaited(w) ==
  /\ At(w, "upload") /\ Goto(w, "completed")
  /\ UNCHANGED <<commandOwner, commandOffset, commandProcessed, runs, output,
                 events, deadLetters, failures, dropped>>

Upload(w) ==
  /\ At(w, "upload") /\ Goto(w, "completed")
  /\ output' = output \cup {"annotated video"}
  /\ UNCHANGED <<commandOwner, commandOffset, commandProcessed, runs,
                 events, deadLetters, failures, dropped>>

PublishCompleted(w) ==
  /\ At(w, "completed") /\ Return(w)
  /\ Announce("PROCESSING_COMPLETED")
  /\ UNCHANGED <<commandOwner, commandOffset, commandProcessed, runs, output,
                 deadLetters, failures, dropped>>

\* The download, the metadata, the model or the upload fails.
ProcessingFails(w) ==
  /\ work[w].pc \in {"fetch", "pipeline", "upload"}
  /\ AttemptFailed(w)
  /\ UNCHANGED <<commandOwner, commandOffset, commandProcessed, runs, output,
                 events, deadLetters, failures, dropped>>

\* send_and_wait raises; the broker may have the message all the same.
PublishFails(w) ==
  /\ CallFails
  /\ \/ /\ work[w].pc \in {"fetch", "pipeline", "completed"}
        /\ UNCHANGED <<events, output>>
     \/ At(w, "fetch") /\ Announce("PROCESSING_STARTED") /\ UNCHANGED output
     \/ /\ At(w, "pipeline")
        /\ output' = output \cup {"detections"} /\ UNCHANGED events
     \/ At(w, "completed") /\ Announce("PROCESSING_COMPLETED") /\ UNCHANGED output
  /\ AttemptFailed(w)
  /\ UNCHANGED <<commandOwner, commandOffset, commandProcessed, runs,
                 deadLetters, dropped>>

\* Every attempt has failed.
PublishFailed(w) ==
  /\ At(w, "failed") /\ Goto(w, "deadletter")
  /\ Announce("PROCESSING_FAILED")
  /\ UNCHANGED <<commandOwner, commandOffset, commandProcessed, runs, output,
                 deadLetters, failures, dropped>>

\* Mutant: a failure to announce the failure ends the handler.
PublishFailedGivesUp(w) ==
  /\ At(w, "failed") /\ Return(w)
  /\ CallFails
  /\ Announce("PROCESSING_FAILED") \/ UNCHANGED events
  /\ UNCHANGED <<commandOwner, commandOffset, commandProcessed, runs, output,
                 deadLetters, dropped>>

\* That announcement fails: it is logged and the dead letter still goes out.
PublishFailedFails(w) ==
  /\ At(w, "failed") /\ Goto(w, "deadletter")
  /\ CallFails
  /\ Announce("PROCESSING_FAILED") \/ UNCHANGED events
  /\ UNCHANGED <<commandOwner, commandOffset, commandProcessed, runs, output,
                 deadLetters, dropped>>

DeadLetterCommand(w) ==
  /\ At(w, "deadletter") /\ Return(w)
  /\ deadLetters' = deadLetters \cup {Command}
  /\ UNCHANGED <<commandOwner, commandOffset, commandProcessed, runs, output,
                 events, failures, dropped>>

\* The dead letter fails too: _run's guard logs it.
DeadLetterCommandFails(w) ==
  /\ At(w, "deadletter") /\ Return(w)
  /\ CallFails
  /\ deadLetters' \in {deadLetters, deadLetters \cup {Command}}
  /\ dropped' = TRUE
  /\ UNCHANGED <<commandOwner, commandOffset, commandProcessed, runs, output, events>>

-----------------------------------------------------------------------------
\* After a restart or a rebalance the group resumes at some committed position.
Resume == commandOffset' \in 0..commandOffset

\* The process is killed; whoever gets the partition next resumes.
KillWorker(w) ==
  /\ ~At(w, "idle")
  /\ Return(w)
  /\ IF commandOwner = w THEN commandOwner' \in Workers /\ Resume
     ELSE UNCHANGED <<commandOwner, commandOffset>>
  /\ dropped' = TRUE
  /\ UNCHANGED <<commandProcessed, runs, output, events, deadLetters, failures>>

\* The partition is reassigned while the old owner goes on with its message.
ReassignCommands ==
  /\ commandOwner' \in Workers
  /\ Resume
  /\ UNCHANGED <<commandProcessed, runs, work, output, events, deadLetters,
                 failures, dropped>>

VisionStep(w) ==
  \/ DeliverCommand(w) \/ MarkCommand(w)
  \/ PublishStarted(w) \/ PublishDetections(w)
  \/ Upload(w) \/ PublishCompleted(w) \/ ProcessingFails(w)
  \/ PublishFailed(w) \/ DeadLetterCommand(w)

VisionFails(w) ==
  \/ MarkCommandFails(w) \/ PublishFails(w) \/ PublishFailedFails(w)
  \/ DeadLetterCommandFails(w)

-----------------------------------------------------------------------------
VisionTypeOK ==
  /\ commandOwner \in Workers
  /\ commandOffset \in 0..Len(topic)
  /\ commandProcessed \in BOOLEAN
  /\ runs \in Nat
  /\ work \in [Workers -> [pc: WorkerPositions, attempt: 0..RetryAttempts]]
  /\ output \subseteq {"detections", "annotated video"}

\* REQ-3.8: however often the command is delivered and whoever is killed, the
\* pipeline runs for it at most once.
CommandRunsOnce == runs <= 1

\* REQ-5.6/5.7: PROCESSING_COMPLETED is announced only once the detections and
\* the annotated video of the mission are out, whichever attempt announces it.
CompletionHasOutput ==
  (\E i \in DOMAIN events : events[i] = "PROCESSING_COMPLETED")
    => output = {"detections", "annotated video"}
=============================================================================
