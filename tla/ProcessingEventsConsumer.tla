---------------------- MODULE ProcessingEventsConsumer ----------------------
(***************************************************************************)
(* apps/api: the consumer group on aidefense.processing-events that drives *)
(* one mission's status.                                                   *)
(*                                                                         *)
(* kafkajs resolves a message when eachMessage returns, so the one in hand *)
(* is delivered again after a restart, a rebalance or an exception.  As in *)
(* CommandsConsumer, a consumer that loses the partition finishes what it  *)
(* has in hand.  transition() is one step here, committed or not, its      *)
(* answer lost or not; Missions has its inside.                            *)
(***************************************************************************)
EXTENDS ProcessingTopics, MissionStateMachine

CONSTANT Consumers   \* API processes

ASSUME ConsumersAssumption == Consumers # {}

VARIABLES
  eventOwner,       \* the consumer the partition is assigned to
  eventOffset,      \* messages resolved
  eventsProcessed,  \* event ids with a processed_events row of "api"
  handler,          \* per consumer, where it is, in which event and attempt
  status,           \* missions.status
  audit,            \* its audited transitions: by which event (0: an operator)
  relayed           \* events published on the mission's realtime channel

apiVars == <<eventOwner, eventOffset, eventsProcessed, handler, status, audit, relayed>>

Waiting == [pc |-> "idle", event |-> 0, attempt |-> 0]

HandlerPositions == {"idle", "mark", "attempt", "relay", "deadletter"}

ApiInit ==
  /\ eventOwner = CHOOSE c \in Consumers : TRUE
  /\ eventOffset = 0
  /\ eventsProcessed = {}
  /\ handler = [c \in Consumers |-> Waiting]
  /\ status = "DRAFT"
  /\ audit = <<>>
  /\ relayed = {}

\* EVENT_TYPE_TARGET_STATUS.
Target(type) ==
  CASE type = "PROCESSING_STARTED"   -> "PROCESSING"
    [] type = "PROCESSING_COMPLETED" -> "COMPLETED"
    [] type = "PROCESSING_FAILED"    -> "FAILED"

HandlerAt(c, position) == handler[c].pc = position
HandlerGoto(c, position) == handler' = [handler EXCEPT ![c].pc = position]

\* Mutant: a consumer that lost the partition moves its offset all the same.
ResolveUnowned(c) ==
  /\ handler' = [handler EXCEPT ![c] = Waiting]
  /\ eventOffset' = eventOffset + 1

\* eachMessage returns: the offset moves if the consumer still has the partition.
Resolve(c) ==
  /\ handler' = [handler EXCEPT ![c] = Waiting]
  /\ eventOffset' = IF eventOwner = c /\ eventOffset = handler[c].event - 1
                    THEN handler[c].event ELSE eventOffset

\* eachMessage throws: the same message comes again.
Throw(c) == handler' = [handler EXCEPT ![c] = Waiting] /\ UNCHANGED eventOffset

\* MissionsService.transition(), committed.
Transition(by, to) ==
  /\ isLegalMissionTransition(status, to)
  /\ status' = to
  /\ audit' = Append(audit, [by |-> by, from |-> status, to |-> to])

-----------------------------------------------------------------------------
DeliverEvent(c) ==
  /\ eventOwner = c /\ HandlerAt(c, "idle")
  /\ eventOffset < Len(events)
  /\ handler' = [handler EXCEPT ![c] = [pc |-> "mark", event |-> eventOffset + 1, attempt |-> 1]]
  /\ UNCHANGED <<eventOwner, eventOffset, eventsProcessed, status, audit, relayed,
                 deadLetters, failures, dropped>>

\* Mutant: the result of markProcessed is ignored.
MarkEventIgnored(c) ==
  /\ HandlerAt(c, "mark")
  /\ eventsProcessed' = eventsProcessed \cup {handler[c].event}
  /\ HandlerGoto(c, "attempt")
  /\ UNCHANGED <<eventOwner, eventOffset, status, audit, relayed, deadLetters, failures, dropped>>

\* markProcessed: one INSERT .. ON CONFLICT DO NOTHING.  A duplicate is skipped.
MarkEvent(c) ==
  /\ HandlerAt(c, "mark")
  /\ eventsProcessed' = eventsProcessed \cup {handler[c].event}
  /\ \/ handler[c].event \in eventsProcessed /\ Resolve(c)
     \/ /\ handler[c].event \notin eventsProcessed
        /\ HandlerGoto(c, "attempt") /\ UNCHANGED eventOffset
  /\ UNCHANGED <<eventOwner, status, audit, relayed, deadLetters, failures, dropped>>

\* markProcessed rejects: if its INSERT committed, the redelivery is skipped.
MarkEventFails(c) ==
  /\ HandlerAt(c, "mark") /\ CallFails
  /\ \/ UNCHANGED <<eventsProcessed, dropped>>
     \/ /\ handler[c].event \notin eventsProcessed
        /\ eventsProcessed' = eventsProcessed \cup {handler[c].event}
        /\ dropped' = TRUE
  /\ Throw(c)
  /\ UNCHANGED <<eventOwner, status, audit, relayed, deadLetters>>

TargetOf(c) == Target(events[handler[c].event])

Attempt(c) ==
  /\ HandlerAt(c, "attempt")
  /\ Transition(handler[c].event, TargetOf(c))
  /\ HandlerGoto(c, "relay")
  /\ UNCHANGED <<eventOwner, eventOffset, eventsProcessed, relayed,
                 deadLetters, failures, dropped>>

\* Mutant: withBoundedRetry returns true when it has given up.
RetryNeverGivesUp(c) ==
  handler' = [handler EXCEPT ![c] =
    IF @.attempt < RetryAttempts
    THEN [pc |-> "attempt", event |-> @.event, attempt |-> @.attempt + 1]
    ELSE [pc |-> "relay", event |-> @.event, attempt |-> @.attempt]]

\* withBoundedRetry: again, or give up.
Retry(c) ==
  handler' = [handler EXCEPT ![c] =
    IF @.attempt < RetryAttempts
    THEN [pc |-> "attempt", event |-> @.event, attempt |-> @.attempt + 1]
    ELSE [pc |-> "deadletter", event |-> @.event, attempt |-> @.attempt]]

\* Mutant: a conflict is taken for a duplicate and skipped.
AttemptRefusedSkipped(c) ==
  /\ HandlerAt(c, "attempt")
  /\ ~isLegalMissionTransition(status, TargetOf(c))
  /\ Resolve(c)
  /\ UNCHANGED <<eventOwner, eventsProcessed, status, audit, relayed,
                 deadLetters, failures, dropped>>

\* 409: the transition is illegal from the status the mission has now.
AttemptRefused(c) ==
  /\ HandlerAt(c, "attempt")
  /\ ~isLegalMissionTransition(status, TargetOf(c))
  /\ Retry(c)
  /\ UNCHANGED <<eventOwner, eventOffset, eventsProcessed, status, audit, relayed,
                 deadLetters, failures, dropped>>

\* The database fails the transaction, or commits it and its answer is lost.
AttemptFails(c) ==
  /\ HandlerAt(c, "attempt") /\ CallFails
  /\ Transition(handler[c].event, TargetOf(c)) \/ UNCHANGED <<status, audit>>
  /\ Retry(c)
  /\ UNCHANGED <<eventOwner, eventOffset, eventsProcessed, relayed, deadLetters, dropped>>

\* realtimePublisher.publishMissionEvent, then the handler returns.
Relay(c) ==
  /\ HandlerAt(c, "relay")
  /\ relayed' = relayed \cup {handler[c].event}
  /\ Resolve(c)
  /\ UNCHANGED <<eventOwner, eventsProcessed, status, audit, deadLetters, failures, dropped>>

DeadLetterEvent(c) ==
  /\ HandlerAt(c, "deadletter")
  /\ deadLetters' = deadLetters \cup {handler[c].event}
  /\ Resolve(c)
  /\ UNCHANGED <<eventOwner, eventsProcessed, status, audit, relayed, failures, dropped>>

\* dlqProducer.send rejects: the message comes again and is skipped.
DeadLetterEventFails(c) ==
  /\ HandlerAt(c, "deadletter") /\ CallFails
  /\ deadLetters' \in {deadLetters, deadLetters \cup {handler[c].event}}
  /\ dropped' = TRUE
  /\ Throw(c)
  /\ UNCHANGED <<eventOwner, eventsProcessed, status, audit, relayed>>

-----------------------------------------------------------------------------
ResumeEvents == eventOffset' \in 0..eventOffset

\* The process is killed with a message in hand.
KillConsumer(c) ==
  /\ ~HandlerAt(c, "idle")
  /\ handler' = [handler EXCEPT ![c] = Waiting]
  /\ IF eventOwner = c THEN eventOwner' \in Consumers /\ ResumeEvents
     ELSE UNCHANGED <<eventOwner, eventOffset>>
  /\ dropped' = (dropped \/ handler[c].pc \in {"attempt", "deadletter"})
  /\ UNCHANGED <<eventsProcessed, status, audit, relayed, deadLetters, failures>>

\* The partition is reassigned while the old owner goes on with its message.
ReassignEvents ==
  /\ eventOwner' \in Consumers
  /\ ResumeEvents
  /\ UNCHANGED <<eventsProcessed, handler, status, audit, relayed, deadLetters,
                 failures, dropped>>

ApiStep(c) ==
  \/ DeliverEvent(c) \/ MarkEvent(c) \/ Attempt(c) \/ AttemptRefused(c)
  \/ Relay(c) \/ DeadLetterEvent(c)

ApiFails(c) == MarkEventFails(c) \/ AttemptFails(c) \/ DeadLetterEventFails(c)

-----------------------------------------------------------------------------
ApiTypeOK ==
  /\ eventOwner \in Consumers
  /\ eventOffset \in 0..Len(events)
  /\ eventsProcessed \subseteq DOMAIN events
  /\ handler \in [Consumers -> [pc: HandlerPositions, event: 0..Len(events),
                                attempt: 0..RetryAttempts]]
  /\ status \in Statuses
  /\ audit \in Seq([by: 0..Len(events), from: Statuses, to: Statuses])
  /\ relayed \subseteq DOMAIN events

\* REQ-6.5: a browser is told of an event only after the mission moved by it.
RelayedWasApplied ==
  \A e \in relayed : \E i \in DOMAIN audit : audit[i].by = e
=============================================================================
