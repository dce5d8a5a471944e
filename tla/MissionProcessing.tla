-------------------------- MODULE MissionProcessing --------------------------
(***************************************************************************)
(* A mission's way from DRAFT to its end: an operator submits it, the      *)
(* outbox delivers its command at least once (OutboxDelivery), a vision    *)
(* worker runs the pipeline (CommandsConsumer), and the API moves the      *)
(* status by the events it announces (ProcessingEventsConsumer).           *)
(***************************************************************************)
EXTENDS CommandsConsumer, ProcessingEventsConsumer

CONSTANTS
  MaxRestarts,  \* bound: processes killed and partitions reassigned
  MaxCopies,    \* bound: copies of the command the outbox delivers
  MaxOperator   \* bound: transitions operators ask for after the submission

ASSUME MaxRestartsAssumption == MaxRestarts \in Nat
ASSUME MaxCopiesAssumption == MaxCopies \in Nat \ {0}
ASSUME MaxOperatorAssumption == MaxOperator \in Nat

VARIABLES
  stage,     \* the mission's outbox row, see OutboxDelivery
  restarts,  \* how many processes were killed or partitions reassigned
  requests   \* how many transitions operators have made

vars == <<stage, topic, events, deadLetters, failures, restarts, dropped,
          requests, visionVars, apiVars>>

Outbox == INSTANCE OutboxDelivery WITH Events <- {Command}

Init ==
  /\ Outbox!Init
  /\ VisionInit /\ ApiInit
  /\ events = <<>> /\ deadLetters = {}
  /\ failures = 0 /\ restarts = 0 /\ requests = 0
  /\ dropped = FALSE

\* POST /missions/:id/transition to QUEUED from DRAFT: the status and the
\* outbox row, one transaction.
Submit ==
  /\ status = "DRAFT"
  /\ Transition(0, "QUEUED")
  /\ Outbox!Submit(Command)
  /\ UNCHANGED <<events, deadLetters, failures, restarts, dropped, requests, visionVars,
                 eventOwner, eventOffset, eventsProcessed, handler, relayed>>

\* The same route for any other legal target.  FAILED -> QUEUED writes no
\* outbox row: only DRAFT -> QUEUED does.
OperatorTransitions(to) ==
  /\ status # "DRAFT" /\ requests < MaxOperator
  /\ Transition(0, to)
  /\ requests' = requests + 1
  /\ UNCHANGED <<stage, topic, events, deadLetters, failures, restarts, dropped,
                 visionVars, eventOwner, eventOffset, eventsProcessed, handler, relayed>>

\* The outbox publisher, as far as its consumer sees it.
DeliverCopy ==
  /\ Len(topic) < MaxCopies
  /\ Outbox!Deliver(Command)
  /\ UNCHANGED <<events, deadLetters, failures, restarts, dropped, requests,
                 visionVars, apiVars>>

Vision ==
  /\ \E w \in Workers : VisionStep(w) \/ VisionFails(w)
  /\ UNCHANGED <<stage, topic, restarts, requests, apiVars>>

Api ==
  /\ \E c \in Consumers : ApiStep(c) \/ ApiFails(c)
  /\ UNCHANGED <<stage, topic, events, restarts, requests, visionVars>>

Restart ==
  /\ restarts < MaxRestarts
  /\ restarts' = restarts + 1
  /\ UNCHANGED <<stage, topic, events, requests>>
  /\ \/ (ReassignCommands \/ \E w \in Workers : KillWorker(w)) /\ UNCHANGED apiVars
     \/ (ReassignEvents \/ \E c \in Consumers : KillConsumer(c)) /\ UNCHANGED visionVars

Next ==
  \/ Submit \/ DeliverCopy
  \/ \E to \in Statuses : OperatorTransitions(to)
  \/ Vision \/ Api \/ Restart

Spec == Init /\ [][Next]_vars

\* The publisher delivers (EveryRowIsPublished); asyncio and the Node event
\* loop keep every live consumer going.
Fairness ==
  /\ WF_vars(topic = <<>> /\ DeliverCopy)
  /\ \A w \in Workers :
       WF_vars(VisionStep(w) /\ UNCHANGED <<stage, topic, restarts, requests, apiVars>>)
  /\ \A c \in Consumers :
       WF_vars(ApiStep(c) /\ UNCHANGED <<stage, topic, events, restarts, requests, visionVars>>)

FairSpec == Spec /\ Fairness

-----------------------------------------------------------------------------
\* Every variable stays in its domain.
TypeOK ==
  /\ TopicsTypeOK /\ VisionTypeOK /\ ApiTypeOK
  /\ stage \in [{Command} -> {"absent", "waiting", "published"}]
  /\ restarts \in 0..MaxRestarts
  /\ requests \in 0..MaxOperator

Applied(e) == \E i \in DOMAIN audit : audit[i].by = e

InHand(e) == \E c \in Consumers : handler[c].pc # "idle" /\ handler[c].event = e

\* REQ-3.9: an event the API has marked processed, and has no more in hand, has
\* moved the mission or is in the dead-letter topic, unless a process died or a
\* dead letter could not be sent while it was in hand.
NoEventVanishes ==
  \A e \in eventsProcessed : InHand(e) \/ Applied(e) \/ e \in deadLetters \/ dropped

\* REQ-3.8: redelivery never turns success into a dead letter: an event that
\* moved the mission is dead-lettered only if a call's answer was lost.
DeadLettersAreUnapplied ==
  \A e \in deadLetters \ {Command} : Applied(e) => failures > 0

\* REQ-3.2/3.8: between two operator actions no event moves a mission twice, not
\* after a lost answer, a redelivery, or with two consumers at work on the
\* partition; and while the partition stays where it is, the events that do
\* move it do so in the order they were produced.
EventsAppliedOnce ==
  \A i, j \in DOMAIN audit :
    (i < j /\ \A k \in i..j : audit[k].by # 0) =>
      /\ audit[i].by # audit[j].by
      /\ restarts = 0 => audit[i].by < audit[j].by

Ended == status \in {"COMPLETED", "FAILED"}

\* PRD-Phase-3's loop closes: a mission whose command was published ends, or
\* leaves a dead letter to look into, also when calls fail and are retried;
\* only a message given up without a trace can leave it waiting.
MissionEnds == topic # <<>> ~> (Ended \/ deadLetters # {} \/ dropped)

\* PRD-Phase-3: killing and restarting a consumer mid-processing does not lose
\* the in-flight command.  It does: processed_events is written first.
KillLosesNoCommand == topic # <<>> ~> (Ended \/ deadLetters # {})

\* commands_consumer.py: a failure publishes PROCESSING_FAILED so that the API
\* can move the mission to FAILED.  A failure before PROCESSING_STARTED cannot.
FailureFailsMission ==
  \A e \in eventsProcessed :
    (events[e] = "PROCESSING_FAILED" /\ ~InHand(e)) => Applied(e)
=============================================================================
