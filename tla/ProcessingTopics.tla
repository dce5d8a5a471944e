-------------------------- MODULE ProcessingTopics --------------------------
(***************************************************************************)
(* What the two consumers of the processing loop share: the topics of one  *)
(* mission, the retry budget, and the failures the models count.  Every    *)
(* topic is keyed by mission id, so a mission sees one partition of each.  *)
(***************************************************************************)
EXTENDS Naturals, Sequences

CONSTANTS
  Command,        \* event id of the mission's MISSION_PROCESSING_REQUESTED
  RetryAttempts,  \* RETRY_ATTEMPTS, 3 in the code of both consumers
  MaxFailures     \* bound: broker and database calls that fail

ASSUME RetryAttemptsAssumption == RetryAttempts \in Nat \ {0}
ASSUME MaxFailuresAssumption == MaxFailures \in Nat

VARIABLES
  topic,        \* aidefense.commands: the copies of the command
  events,       \* aidefense.processing-events: types, in order; the event id
                \* is fresh in each envelope and is the index here
  deadLetters,  \* event ids whose envelopes are in aidefense.dead-letter
  failures,     \* how many calls have failed
  dropped       \* history: a message was given up without any trace

EventTypes == {"PROCESSING_STARTED", "PROCESSING_COMPLETED", "PROCESSING_FAILED"}

\* A call on the broker or the database that reports an error.
CallFails == failures < MaxFailures /\ failures' = failures + 1

TopicsTypeOK ==
  /\ topic \in Seq({Command})
  /\ events \in Seq(EventTypes)
  /\ deadLetters \subseteq {Command} \cup DOMAIN events
  /\ failures \in 0..MaxFailures
  /\ dropped \in BOOLEAN
=============================================================================
