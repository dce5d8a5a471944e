---------------------- MODULE MissionProcessing_proofs ----------------------
(***************************************************************************)
(* Proofs about MissionProcessing, for any number of workers and           *)
(* consumers, any retry budget and every bound.                            *)
(*                                                                         *)
(* The properties speak of what has been done; whether it was right to do  *)
(* it was decided earlier, often by another process.  AccountInv follows   *)
(* an event from its duplicate mark to where it ends up, OrderInv follows  *)
(* the mission's status along its audit trail.                             *)
(***************************************************************************)
EXTENDS MissionProcessing, TLAPS

(* Types. *)

\* A message in hand is one of the topic.
InHandIsNumbered == \A c \in Consumers : handler[c].pc # "idle" => handler[c].event # 0

TypeInv == TypeOK /\ InHandIsNumbered

-----------------------------------------------------------------------------
(* The vision worker. *)

\* The pipeline has run only if the command is marked.
MarkedBeforeRun == runs <= 1 /\ (runs = 1 => commandProcessed)

\* What a worker has behind it is in the output, whoever put it there.
OutputBehind ==
  \A w \in Workers :
    /\ work[w].pc \in {"upload", "completed"} => "detections" \in output
    /\ work[w].pc = "completed" => "annotated video" \in output

VisionInv == MarkedBeforeRun /\ OutputBehind /\ CompletionHasOutput

-----------------------------------------------------------------------------
(* What becomes of an event. *)

\* Past the duplicate mark.
Holding == {"attempt", "relay", "deadletter"}

Holds(c, e) == handler[c].pc \in Holding /\ handler[c].event = e

\* What a consumer holds is marked, and no other consumer holds it.
HeldOnce ==
  \A c \in Consumers :
    handler[c].pc \in Holding =>
      /\ handler[c].event \in eventsProcessed
      /\ \A d \in Consumers \ {c} : ~Holds(d, handler[c].event)

\* Only a marked event moves the mission or is dead-lettered.
MarkedFirst ==
  /\ \A i \in DOMAIN audit : audit[i].by \in eventsProcessed \cup {0}
  /\ deadLetters \ {Command} \subseteq eventsProcessed

AppliedBeforeRelay ==
  \A c \in Consumers : handler[c].pc = "relay" => Applied(handler[c].event)

\* A marked event is held, or has come to one of its ends.  A consumer that is
\* about to find it marked does not count.
Accounted ==
  \A e \in eventsProcessed :
    (\E c \in Consumers : Holds(c, e)) \/ Applied(e) \/ e \in deadLetters \/ dropped

\* As long as no call has failed, an event that is tried has had no effect.
TriedIsUnapplied ==
  failures = 0 =>
    \A c \in Consumers :
      /\ handler[c].pc \in {"attempt", "deadletter"} => ~Applied(handler[c].event)
      /\ handler[c].pc = "attempt" => handler[c].event \notin deadLetters \ {Command}

AccountInv ==
  /\ HeldOnce /\ MarkedFirst /\ AppliedBeforeRelay /\ Accounted /\ TriedIsUnapplied
  /\ RelayedWasApplied /\ DeadLettersAreUnapplied

-----------------------------------------------------------------------------
(* In which order events move the mission. *)

Rank(s) == CASE s = "PROCESSING" -> 1
             [] s \in {"COMPLETED", "FAILED"} -> 2
             [] OTHER -> 0

StatusIsLast ==
  IF audit = <<>> THEN status = "DRAFT" ELSE status = audit[Len(audit)].to

\* An event moves the mission to its own target only.
ByItsTarget ==
  \A i \in DOMAIN audit :
    audit[i].by # 0 => /\ audit[i].by \in DOMAIN events
                       /\ audit[i].to = Target(events[audit[i].by])

\* Without an operator in between.
ByEvents(i, j) == i < j /\ \A k \in i..j : audit[k].by # 0

\* Events only ever move a mission ahead.
EventsMoveAhead ==
  \A i, j \in DOMAIN audit : ByEvents(i, j) => Rank(audit[i].to) < Rank(audit[j].to)

\* While the partition stays where it is, its owner alone works on it, and
\* always on the next event.
OwnerWorksInTurn ==
  restarts = 0 =>
    /\ \A c \in Consumers :
         handler[c].pc # "idle" => c = eventOwner /\ handler[c].event = eventOffset + 1
    /\ \A e \in eventsProcessed : e <= eventOffset + 1

EventsInTurn == 
  restarts = 0 => \A i, j \in DOMAIN audit : ByEvents(i, j) => audit[i].by < audit[j].by

OrderInv ==
  StatusIsLast /\ ByItsTarget /\ EventsMoveAhead /\ OwnerWorksInTurn /\ EventsInTurn
-----------------------------------------------------------------------------
(* A step of a worker. *)

WorkType == [pc : WorkerPositions, attempt : 0..RetryAttempts]

\* One worker moves; the others stay where they are.
LEMMA WorkMoves ==
  ASSUME VisionTypeOK, NEW w \in Workers, NEW h \in WorkType,
         work' = [work EXCEPT ![w] = h]
  PROVE  /\ work' \in [Workers -> WorkType]
         /\ work'[w] = h
         /\ \A v \in Workers \ {w} : work'[v] = work[v]
BY DEF VisionTypeOK, WorkType

\* Goto, Return and AttemptFailed are such moves.
LEMMA GotoMoves ==
  ASSUME VisionTypeOK, NEW w \in Workers, NEW p \in WorkerPositions, Goto(w, p)
  PROVE  \E h \in WorkType : h.pc = p /\ work' = [work EXCEPT ![w] = h]
<1> DEFINE h == [work[w] EXCEPT !.pc = p]
<1>1. h \in WorkType /\ h.pc = p
  BY DEF VisionTypeOK, WorkType
<1>2. work' = [work EXCEPT ![w] = h]
  BY DEF Goto
<1> QED
  BY <1>1, <1>2

\* Return makes the worker idle.
LEMMA ReturnMoves ==
  ASSUME NEW w \in Workers, Return(w)
  PROVE  \E h \in WorkType : h.pc = "idle" /\ work' = [work EXCEPT ![w] = h]
<1>1. Idle \in WorkType /\ Idle.pc = "idle"
  BY RetryAttemptsAssumption DEF Idle, WorkType, WorkerPositions
<1> QED
  BY <1>1 DEF Return

\* A failed attempt starts over or gives up.
LEMMA AttemptFailedMoves ==
  ASSUME VisionTypeOK, NEW w \in Workers, AttemptFailed(w)
  PROVE  \E h \in WorkType : h.pc \in {"fetch", "failed"} /\ work' = [work EXCEPT ![w] = h]
<1> DEFINE h == IF work[w].attempt < RetryAttempts
                THEN [pc |-> "fetch", attempt |-> work[w].attempt + 1]
                ELSE [pc |-> "failed", attempt |-> work[w].attempt]
<1>1. work[w].attempt \in 0..RetryAttempts
  BY DEF VisionTypeOK
<1>2. h \in WorkType /\ h.pc \in {"fetch", "failed"}
  BY <1>1, RetryAttemptsAssumption DEF WorkType, WorkerPositions
<1>3. work' = [work EXCEPT ![w] = h]
  BY DEF AttemptFailed
<1> QED
  BY <1>2, <1>3

\* What the worker shares with the API only grows.
SharedGrows ==
  /\ events' \in Seq(EventTypes)
  /\ Len(events) <= Len(events')
  /\ \A i \in DOMAIN events : events'[i] = events[i]
  /\ failures' \in 0..MaxFailures /\ failures <= failures'
  /\ deadLetters \subseteq deadLetters' /\ deadLetters' \subseteq deadLetters \cup {Command}
  /\ dropped' \in BOOLEAN /\ (dropped => dropped')

\* An announced event comes after those that are there.
LEMMA AnnounceGrows ==
  ASSUME TopicsTypeOK, NEW type \in EventTypes, Announce(type)
  PROVE  /\ events' \in Seq(EventTypes)
         /\ Len(events) <= Len(events')
         /\ \A i \in DOMAIN events : events'[i] = events[i]
         /\ \A i \in DOMAIN events' : events'[i] \in {type} \cup {events[k] : k \in DOMAIN events}
BY DEF TopicsTypeOK, Announce

\* A failing call is counted, within the bound.
LEMMA FailureCounts ==
  ASSUME TopicsTypeOK, CallFails
  PROVE  failures' \in 0..MaxFailures /\ failures' > 0 /\ failures <= failures'
BY MaxFailuresAssumption DEF TopicsTypeOK, CallFails

\* Where a worker's step takes it: to "upload" and "completed" there is one way.
LEMMA WorkerMoves ==
  ASSUME VisionTypeOK, NEW w \in Workers, VisionStep(w) \/ VisionFails(w)
  PROVE  \E h \in WorkType :
           /\ work' = [work EXCEPT ![w] = h]
           /\ h.pc = "upload" => PublishDetections(w)
           /\ h.pc = "completed" => Upload(w)
<1>1. CASE DeliverCommand(w)
  <2>1. [pc |-> "mark", attempt |-> 1] \in WorkType
    BY RetryAttemptsAssumption DEF WorkType, WorkerPositions
  <2> QED
    BY <1>1, <2>1 DEF DeliverCommand
<1>2. CASE \/ (MarkCommand(w) /\ Return(w)) \/ MarkCommandFails(w) \/ PublishCompleted(w)
           \/ DeadLetterCommand(w) \/ DeadLetterCommandFails(w)
  <2>1. Return(w)
    BY <1>2 DEF MarkCommandFails, PublishCompleted, DeadLetterCommand, DeadLetterCommandFails
  <2> QED
    BY <2>1, ReturnMoves
<1>3. CASE \/ (MarkCommand(w) /\ Goto(w, "fetch")) \/ PublishStarted(w)
           \/ PublishFailed(w) \/ PublishFailedFails(w)
  <2>1. PICK p \in {"fetch", "pipeline", "deadletter"} : Goto(w, p)
    BY <1>3 DEF PublishStarted, PublishFailed, PublishFailedFails
  <2>2. p \in WorkerPositions
    BY DEF WorkerPositions
  <2>3. PICK h \in WorkType : h.pc = p /\ work' = [work EXCEPT ![w] = h]
    BY <2>1, <2>2, GotoMoves
  <2> QED
    BY <2>3
<1>4. CASE PublishDetections(w)
  <2>1. PICK h \in WorkType : h.pc = "upload" /\ work' = [work EXCEPT ![w] = h]
    BY <1>4, GotoMoves DEF PublishDetections, WorkerPositions
  <2> QED
    BY <1>4, <2>1
<1>5. CASE Upload(w)
  <2>1. PICK h \in WorkType : h.pc = "completed" /\ work' = [work EXCEPT ![w] = h]
    BY <1>5, GotoMoves DEF Upload, WorkerPositions
  <2> QED
    BY <1>5, <2>1
<1>6. CASE ProcessingFails(w) \/ PublishFails(w)
  <2>1. PICK h \in WorkType :
          h.pc \in {"fetch", "failed"} /\ work' = [work EXCEPT ![w] = h]
    BY <1>6, AttemptFailedMoves DEF ProcessingFails, PublishFails
  <2> QED
    BY <2>1
<1>7. MarkCommand(w) => Return(w) \/ Goto(w, "fetch")
  BY DEF MarkCommand
<1> QED
  BY <1>1, <1>2, <1>3, <1>4, <1>5, <1>6, <1>7 DEF VisionStep, VisionFails

\* Output is never taken back.
LEMMA OutputGrows ==
  ASSUME NEW w \in Workers, VisionStep(w) \/ VisionFails(w)
  PROVE  /\ output \subseteq output'
         /\ output' \subseteq output \cup {"detections", "annotated video"}
BY DEF VisionStep, VisionFails, DeliverCommand, MarkCommand, MarkCommandFails, PublishStarted,
       PublishDetections, Upload, PublishCompleted, ProcessingFails, PublishFails,
       PublishFailed, PublishFailedFails, DeadLetterCommand, DeadLetterCommandFails

\* Every step of a worker keeps its variables in their domains.
LEMMA WorkerTypes ==
  ASSUME TopicsTypeOK, VisionTypeOK, NEW w \in Workers, VisionStep(w) \/ VisionFails(w),
         UNCHANGED topic
  PROVE  VisionTypeOK'
<1>1. work' \in [Workers -> WorkType]
  BY WorkerMoves, WorkMoves
<1>2. UNCHANGED commandOwner
  BY DEF VisionStep, VisionFails, DeliverCommand, MarkCommand, MarkCommandFails, PublishStarted,
         PublishDetections, Upload, PublishCompleted, ProcessingFails, PublishFails,
         PublishFailed, PublishFailedFails, DeadLetterCommand, DeadLetterCommandFails
<1>3. commandOffset' \in 0..Len(topic)
  <2>1. Len(topic) \in Nat
    BY DEF TopicsTypeOK
  <2>2. commandOffset \in 0..Len(topic)
    BY DEF VisionTypeOK
  <2>3. \/ UNCHANGED commandOffset
        \/ commandOffset < Len(topic) /\ commandOffset' = commandOffset + 1
    BY DEF VisionStep, VisionFails, DeliverCommand, MarkCommand, MarkCommandFails, PublishStarted,
         PublishDetections, Upload, PublishCompleted, ProcessingFails, PublishFails,
         PublishFailed, PublishFailedFails, DeadLetterCommand, DeadLetterCommandFails
  <2> QED
    BY <2>1, <2>2, <2>3
<1>4. commandProcessed' \in BOOLEAN
  <2>1. commandProcessed' \in {commandProcessed, TRUE}
    BY DEF VisionStep, VisionFails, DeliverCommand, MarkCommand, MarkCommandFails, PublishStarted,
         PublishDetections, Upload, PublishCompleted, ProcessingFails, PublishFails,
         PublishFailed, PublishFailedFails, DeadLetterCommand, DeadLetterCommandFails
  <2> QED
    BY <2>1 DEF VisionTypeOK
<1>5. runs' \in Nat
  <2>1. UNCHANGED runs \/ runs' = runs + 1
    BY DEF VisionStep, VisionFails, DeliverCommand, MarkCommand, MarkCommandFails, PublishStarted,
         PublishDetections, Upload, PublishCompleted, ProcessingFails, PublishFails,
         PublishFailed, PublishFailedFails, DeadLetterCommand, DeadLetterCommandFails
  <2>2. runs \in Nat
    BY DEF VisionTypeOK
  <2> QED
    BY <2>1, <2>2
<1>6. output' \subseteq {"detections", "annotated video"}
  BY OutputGrows DEF VisionTypeOK
<1> QED
  BY <1>1, <1>2, <1>3, <1>4, <1>5, <1>6 DEF VisionTypeOK, WorkType

\* A worker only ever adds to what it shares with the API.
LEMMA WorkerShares ==
  ASSUME TopicsTypeOK, NEW w \in Workers, VisionStep(w) \/ VisionFails(w)
  PROVE  SharedGrows
<1>1. /\ events' \in Seq(EventTypes) /\ Len(events) <= Len(events')
      /\ \A i \in DOMAIN events : events'[i] = events[i]
  <2>1. UNCHANGED events \/ \E type \in EventTypes : Announce(type)
    BY DEF EventTypes, VisionStep, VisionFails, DeliverCommand, MarkCommand, MarkCommandFails, PublishStarted,
         PublishDetections, Upload, PublishCompleted, ProcessingFails, PublishFails,
         PublishFailed, PublishFailedFails, DeadLetterCommand, DeadLetterCommandFails
  <2> QED
    BY <2>1, AnnounceGrows DEF TopicsTypeOK
<1>2. failures' \in 0..MaxFailures /\ failures <= failures'
  <2>1. UNCHANGED failures \/ CallFails
    BY DEF VisionStep, VisionFails, DeliverCommand, MarkCommand, MarkCommandFails, PublishStarted,
         PublishDetections, Upload, PublishCompleted, ProcessingFails, PublishFails,
         PublishFailed, PublishFailedFails, DeadLetterCommand, DeadLetterCommandFails
  <2> QED
    BY <2>1, FailureCounts DEF TopicsTypeOK
<1>3. deadLetters' \in {deadLetters, deadLetters \cup {Command}}
  BY DEF VisionStep, VisionFails, DeliverCommand, MarkCommand, MarkCommandFails, PublishStarted,
         PublishDetections, Upload, PublishCompleted, ProcessingFails, PublishFails,
         PublishFailed, PublishFailedFails, DeadLetterCommand, DeadLetterCommandFails
<1>4. dropped' \in {dropped, TRUE}
  BY DEF VisionStep, VisionFails, DeliverCommand, MarkCommand, MarkCommandFails, PublishStarted,
         PublishDetections, Upload, PublishCompleted, ProcessingFails, PublishFails,
         PublishFailed, PublishFailedFails, DeadLetterCommand, DeadLetterCommandFails
<1> QED
  BY <1>1, <1>2, <1>3, <1>4 DEF SharedGrows, TopicsTypeOK

\* One mark, one run.
LEMMA WorkerMarksFirst ==
  ASSUME VisionTypeOK, VisionInv, NEW w \in Workers, VisionStep(w) \/ VisionFails(w)
  PROVE  MarkedBeforeRun'
<1>1. \/ UNCHANGED runs /\ commandProcessed' \in {commandProcessed, TRUE}
      \/ ~commandProcessed /\ commandProcessed' /\ runs' = runs + 1
  BY DEF VisionStep, VisionFails, DeliverCommand, MarkCommand, MarkCommandFails, PublishStarted,
         PublishDetections, Upload, PublishCompleted, ProcessingFails, PublishFails,
         PublishFailed, PublishFailedFails, DeadLetterCommand, DeadLetterCommandFails
<1>2. runs \in Nat /\ commandProcessed \in BOOLEAN
  BY DEF VisionTypeOK
<1>3. runs <= 1 /\ (runs = 1 => commandProcessed)
  BY DEF VisionInv, MarkedBeforeRun
<1>4. CASE UNCHANGED runs /\ commandProcessed' \in {commandProcessed, TRUE}
  BY <1>3, <1>4 DEF MarkedBeforeRun
<1>5. CASE ~commandProcessed /\ commandProcessed' /\ runs' = runs + 1
  <2>1. runs = 0
    BY <1>2, <1>3, <1>5
  <2> QED
    BY <1>5, <2>1 DEF MarkedBeforeRun
<1> QED
  BY <1>1, <1>4, <1>5

\* The detections are out before the upload, both before the completion.
LEMMA WorkerOutputs ==
  ASSUME TopicsTypeOK, VisionTypeOK, VisionInv, NEW w \in Workers,
         VisionStep(w) \/ VisionFails(w)
  PROVE  OutputBehind' /\ CompletionHasOutput'
<1>1. PICK h \in WorkType :
        /\ work' = [work EXCEPT ![w] = h]
        /\ h.pc = "upload" => PublishDetections(w)
        /\ h.pc = "completed" => Upload(w)
  BY WorkerMoves
<1>2. work'[w] = h /\ \A v \in Workers \ {w} : work'[v] = work[v]
  BY <1>1, WorkMoves
<1>3. output \subseteq output' /\ output' \subseteq {"detections", "annotated video"}
  BY OutputGrows DEF VisionTypeOK
<1>4. PublishDetections(w) => "detections" \in output'
  BY DEF PublishDetections
<1>5. Upload(w) => "detections" \in output' /\ "annotated video" \in output'
  BY DEF Upload, At, VisionInv, OutputBehind
<1>6. OutputBehind'
  BY <1>1, <1>2, <1>3, <1>4, <1>5 DEF VisionInv, OutputBehind
<1>7. CASE At(w, "completed")
  <2>1. "detections" \in output /\ "annotated video" \in output
    BY <1>7 DEF At, VisionInv, OutputBehind
  <2> QED
    BY <1>3, <1>6, <2>1 DEF CompletionHasOutput
<1>8. CASE ~At(w, "completed")
  <2>1. UNCHANGED events \/ Announce("PROCESSING_STARTED") \/ Announce("PROCESSING_FAILED")
    BY <1>8 DEF VisionStep, VisionFails, DeliverCommand, MarkCommand, MarkCommandFails, PublishStarted,
         PublishDetections, Upload, PublishCompleted, ProcessingFails, PublishFails,
         PublishFailed, PublishFailedFails, DeadLetterCommand, DeadLetterCommandFails
  <2>2. (\E i \in DOMAIN events' : events'[i] = "PROCESSING_COMPLETED")
          => \E i \in DOMAIN events : events[i] = "PROCESSING_COMPLETED"
    BY <2>1, AnnounceGrows DEF EventTypes
  <2> QED
    BY <1>3, <1>6, <2>2 DEF VisionInv, CompletionHasOutput
<1> QED
  BY <1>6, <1>7, <1>8
-----------------------------------------------------------------------------
(* A step of a consumer. *)

HandlerType == [pc : HandlerPositions, event : 0..Len(events), attempt : 0..RetryAttempts]

\* One consumer moves; the others stay where they are.
LEMMA ConsumerMoves ==
  ASSUME ApiTypeOK, NEW c \in Consumers, NEW h \in HandlerType,
         handler' = [handler EXCEPT ![c] = h]
  PROVE  /\ handler' \in [Consumers -> HandlerType]
         /\ handler'[c] = h
         /\ \A d \in Consumers \ {c} : handler'[d] = handler[d]
BY DEF ApiTypeOK, HandlerType

\* A consumer that waits is idle.
LEMMA WaitingIsIdle ==
  ASSUME TopicsTypeOK
  PROVE  Waiting \in HandlerType /\ Waiting.pc = "idle"
<1>1. Len(events) \in Nat
  BY DEF TopicsTypeOK
<1> QED
  BY <1>1, RetryAttemptsAssumption DEF Waiting, HandlerType, HandlerPositions

\* withBoundedRetry keeps the event.
LEMMA RetryMoves ==
  ASSUME ApiTypeOK, NEW c \in Consumers, Retry(c)
  PROVE  \E h \in HandlerType :
           /\ handler' = [handler EXCEPT ![c] = h]
           /\ h.event = handler[c].event /\ h.pc \in {"attempt", "deadletter"}
<1> DEFINE n == handler[c].attempt
           h == IF n < RetryAttempts
                THEN [pc |-> "attempt", event |-> handler[c].event, attempt |-> n + 1]
                ELSE [pc |-> "deadletter", event |-> handler[c].event, attempt |-> n]
<1>1. handler[c].event \in 0..Len(events) /\ n \in 0..RetryAttempts
  BY DEF ApiTypeOK
<1>2. h \in HandlerType /\ h.event = handler[c].event /\ h.pc \in {"attempt", "deadletter"}
  BY <1>1, RetryAttemptsAssumption DEF HandlerType, HandlerPositions
<1>3. handler' = [handler EXCEPT ![c] = h]
  BY DEF Retry
<1> QED
  BY <1>2, <1>3

\* HandlerGoto keeps the event.
LEMMA HandlerGotoMoves ==
  ASSUME ApiTypeOK, NEW c \in Consumers, NEW p \in HandlerPositions, HandlerGoto(c, p)
  PROVE  \E h \in HandlerType :
           /\ handler' = [handler EXCEPT ![c] = h]
           /\ h.event = handler[c].event /\ h.pc = p
<1> DEFINE h == [handler[c] EXCEPT !.pc = p]
<1>1. h \in HandlerType /\ h.event = handler[c].event /\ h.pc = p
  BY DEF ApiTypeOK, HandlerType
<1>2. handler' = [handler EXCEPT ![c] = h]
  BY DEF HandlerGoto
<1> QED
  BY <1>1, <1>2

\* A consumer's step lets its event go, keeps it, or takes the next one.
LEMMA ConsumerMovesOn ==
  ASSUME TypeInv, NEW c \in Consumers, ApiStep(c) \/ ApiFails(c)
  PROVE  \E h \in HandlerType :
           /\ handler' = [handler EXCEPT ![c] = h]
           /\ \/ h = Waiting
              \/ h.event = handler[c].event /\ handler[c].pc # "idle"
              \/ h.pc = "mark" /\ h.event = eventOffset + 1 /\ DeliverEvent(c)
<1>0. TopicsTypeOK /\ ApiTypeOK
  BY DEF TypeInv, TypeOK
<1>1. CASE DeliverEvent(c)
  <2>1. eventOffset + 1 \in 0..Len(events)
    <3>1. Len(events) \in Nat
      BY <1>0 DEF TopicsTypeOK
    <3>2. eventOffset \in 0..Len(events)
      BY <1>0 DEF ApiTypeOK
    <3>3. eventOffset < Len(events)
      BY <1>1 DEF DeliverEvent
    <3> QED
      BY <3>1, <3>2, <3>3
  <2>2. [pc |-> "mark", event |-> eventOffset + 1, attempt |-> 1] \in HandlerType
    BY <2>1, RetryAttemptsAssumption DEF HandlerType, HandlerPositions
  <2> QED
    BY <1>1, <2>2 DEF DeliverEvent
<1>2. CASE Retry(c) /\ handler[c].pc # "idle"
  BY <1>0, <1>2, RetryMoves
<1>3. CASE handler[c].pc # "idle" /\ \E p \in {"attempt", "relay"} : HandlerGoto(c, p)
  <2>1. PICK p \in {"attempt", "relay"} : HandlerGoto(c, p)
    BY <1>3
  <2>2. p \in HandlerPositions
    BY DEF HandlerPositions
  <2>3. PICK h \in HandlerType : /\ handler' = [handler EXCEPT ![c] = h]
                                 /\ h.event = handler[c].event /\ h.pc = p
    BY <1>0, <2>1, <2>2, HandlerGotoMoves
  <2> QED
    BY <1>3, <2>3
<1>4. CASE handler' = [handler EXCEPT ![c] = Waiting]
  BY <1>0, <1>4, WaitingIsIdle
<1>5. \/ DeliverEvent(c)
      \/ handler[c].pc # "idle" /\ (Retry(c) \/ \E p \in {"attempt", "relay"} : HandlerGoto(c, p))
      \/ handler' = [handler EXCEPT ![c] = Waiting]
  BY DEF ApiStep, ApiFails, MarkEvent, MarkEventFails, Attempt, AttemptRefused, AttemptFails,
         Relay, DeadLetterEvent, DeadLetterEventFails, HandlerAt, Resolve, Throw
<1> QED
  BY <1>1, <1>2, <1>3, <1>4, <1>5

\* The offset stays within the topic.
LEMMA OffsetStays ==
  ASSUME ApiTypeOK, TopicsTypeOK, NEW c \in Consumers, ApiStep(c) \/ ApiFails(c)
  PROVE  eventOffset' \in 0..Len(events)
<1>1. eventOffset \in 0..Len(events) /\ handler[c].event \in 0..Len(events)
  BY DEF ApiTypeOK
<1>2. eventOffset' \in {eventOffset, handler[c].event}
  BY DEF ApiStep, ApiFails, DeliverEvent, MarkEvent, MarkEventFails, Attempt, AttemptRefused,
         AttemptFails, Relay, DeadLetterEvent, DeadLetterEventFails, Resolve, Throw
<1> QED
  BY <1>1, <1>2

\* An event has a target of its own.
LEMMA TargetIsStatus ==
  \A type \in EventTypes : Target(type) \in {"PROCESSING", "COMPLETED", "FAILED"}
BY DEF EventTypes, Target

\* A transition keeps status and audit trail in their domains.
LEMMA TransitionTypes ==
  ASSUME ApiTypeOK, NEW by \in 0..Len(events), NEW to \in Statuses, Transition(by, to)
  PROVE  /\ status' \in Statuses
         /\ audit' \in Seq([by: 0..Len(events), from: Statuses, to: Statuses])
<1>1. [by |-> by, from |-> status, to |-> to] \in [by: 0..Len(events), from: Statuses, to: Statuses]
  BY DEF ApiTypeOK
<1> QED
  BY <1>1 DEF ApiTypeOK, Transition

\* What is tried is an event of the topic.
LEMMA TriedIsEvent ==
  ASSUME TypeInv, NEW c \in Consumers, handler[c].pc # "idle"
  PROVE  handler[c].event \in DOMAIN events /\ TargetOf(c) \in Statuses
<1>1. handler[c].event \in 0..Len(events) /\ handler[c].event # 0
  BY DEF TypeInv, TypeOK, ApiTypeOK, InHandIsNumbered
<1>2. Len(events) \in Nat /\ DOMAIN events = 1..Len(events) /\ events \in Seq(EventTypes)
  BY DEF TypeInv, TypeOK, TopicsTypeOK
<1>3. handler[c].event \in DOMAIN events
  BY <1>1, <1>2
<1>4. events[handler[c].event] \in EventTypes
  BY <1>2, <1>3
<1> QED
  BY <1>3, <1>4, TargetIsStatus DEF TargetOf, Statuses

\* Every step of a consumer keeps its variables in their domains.
LEMMA ConsumerTypes ==
  ASSUME TypeInv, NEW c \in Consumers, ApiStep(c) \/ ApiFails(c), UNCHANGED <<topic, events>>
  PROVE  ApiTypeOK' /\ InHandIsNumbered' /\ TopicsTypeOK'
<1>0. TopicsTypeOK /\ ApiTypeOK
  BY DEF TypeInv, TypeOK
<1>1. PICK h \in HandlerType :
        /\ handler' = [handler EXCEPT ![c] = h]
        /\ \/ h = Waiting
           \/ h.event = handler[c].event /\ handler[c].pc # "idle"
           \/ h.pc = "mark" /\ h.event = eventOffset + 1 /\ DeliverEvent(c)
  BY ConsumerMovesOn
<1>2. /\ handler' \in [Consumers -> HandlerType]
      /\ handler'[c] = h
      /\ \A d \in Consumers \ {c} : handler'[d] = handler[d]
  BY <1>0, <1>1, ConsumerMoves
<1>3. InHandIsNumbered'
  <2>1. eventOffset + 1 # 0
    BY <1>0 DEF ApiTypeOK
  <2>2. h.pc # "idle" => h.event # 0
    BY <1>1, <2>1 DEF Waiting, TypeInv, InHandIsNumbered
  <2> QED
    BY <1>2, <2>2 DEF TypeInv, InHandIsNumbered
<1>4. eventOffset' \in 0..Len(events)
  BY <1>0, OffsetStays
<1>5. handler[c].pc # "idle" => handler[c].event \in DOMAIN events
  BY TriedIsEvent
<1>6. eventsProcessed' \subseteq DOMAIN events
  <2>1. \/ UNCHANGED eventsProcessed
        \/ handler[c].pc # "idle" /\ eventsProcessed' = eventsProcessed \cup {handler[c].event}
    BY DEF ApiStep, ApiFails, DeliverEvent, MarkEvent, MarkEventFails, Attempt, AttemptRefused,
         AttemptFails, Relay, DeadLetterEvent, DeadLetterEventFails, HandlerAt
  <2> QED
    BY <1>0, <1>5, <2>1 DEF ApiTypeOK
<1>7. relayed' \subseteq DOMAIN events
  <2>1. \/ UNCHANGED relayed
        \/ handler[c].pc # "idle" /\ relayed' = relayed \cup {handler[c].event}
    BY DEF ApiStep, ApiFails, DeliverEvent, MarkEvent, MarkEventFails, Attempt, AttemptRefused,
         AttemptFails, Relay, DeadLetterEvent, DeadLetterEventFails, HandlerAt
  <2> QED
    BY <1>0, <1>5, <2>1 DEF ApiTypeOK
<1>8. deadLetters' \subseteq {Command} \cup DOMAIN events
  <2>1. \/ UNCHANGED deadLetters
        \/ handler[c].pc # "idle" /\ deadLetters' = deadLetters \cup {handler[c].event}
    BY DEF ApiStep, ApiFails, DeliverEvent, MarkEvent, MarkEventFails, Attempt, AttemptRefused,
         AttemptFails, Relay, DeadLetterEvent, DeadLetterEventFails, HandlerAt
  <2> QED
    BY <1>0, <1>5, <2>1 DEF TopicsTypeOK
<1>9. /\ status' \in Statuses
      /\ audit' \in Seq([by: 0..Len(events), from: Statuses, to: Statuses])
  <2>1. \/ UNCHANGED <<status, audit>>
        \/ handler[c].pc # "idle" /\ Transition(handler[c].event, TargetOf(c))
    BY DEF ApiStep, ApiFails, DeliverEvent, MarkEvent, MarkEventFails, Attempt, AttemptRefused,
         AttemptFails, Relay, DeadLetterEvent, DeadLetterEventFails, HandlerAt
  <2>2. handler[c].event \in 0..Len(events)
    BY <1>0 DEF ApiTypeOK
  <2> QED
    BY <1>0, <2>1, <2>2, TriedIsEvent, TransitionTypes DEF ApiTypeOK
<1>10. failures' \in 0..MaxFailures
  <2>1. UNCHANGED failures \/ CallFails
    BY DEF ApiStep, ApiFails, DeliverEvent, MarkEvent, MarkEventFails, Attempt, AttemptRefused,
         AttemptFails, Relay, DeadLetterEvent, DeadLetterEventFails
  <2> QED
    BY <1>0, <2>1, FailureCounts DEF TopicsTypeOK
<1>11. UNCHANGED eventOwner /\ dropped' \in {dropped, TRUE}
  BY DEF ApiStep, ApiFails, DeliverEvent, MarkEvent, MarkEventFails, Attempt, AttemptRefused,
         AttemptFails, Relay, DeadLetterEvent, DeadLetterEventFails
<1> QED
  BY <1>0, <1>2, <1>3, <1>4, <1>6, <1>7, <1>8, <1>9, <1>10, <1>11
     DEF ApiTypeOK, HandlerType, TopicsTypeOK

\* More events leave what a consumer has in its domains.
LEMMA ApiTypesGrow ==
  ASSUME TopicsTypeOK, ApiTypeOK, InHandIsNumbered, SharedGrows, UNCHANGED <<topic, apiVars>>
  PROVE  ApiTypeOK' /\ InHandIsNumbered' /\ TopicsTypeOK'
<1>1. /\ Len(events) \in Nat /\ Len(events') \in Nat /\ Len(events) <= Len(events')
      /\ DOMAIN events = 1..Len(events) /\ DOMAIN events' = 1..Len(events')
  BY DEF TopicsTypeOK, SharedGrows
<1>2. 0..Len(events) \subseteq 0..Len(events') /\ DOMAIN events \subseteq DOMAIN events'
  BY <1>1
<1>3. UNCHANGED <<eventOwner, eventOffset, eventsProcessed, handler, status, audit, relayed>>
  BY DEF apiVars
<1>4. handler \in [Consumers -> [pc: HandlerPositions, event: 0..Len(events'),
                                 attempt: 0..RetryAttempts]]
  BY <1>2 DEF ApiTypeOK
<1>5. audit \in Seq([by: 0..Len(events'), from: Statuses, to: Statuses])
  <2> DEFINE S == [by: 0..Len(events), from: Statuses, to: Statuses]
             T == [by: 0..Len(events'), from: Statuses, to: Statuses]
  <2>1. S \subseteq T
    BY <1>2
  <2>2. audit \in Seq(S)
    BY DEF ApiTypeOK
  <2> HIDE DEF S, T
  <2>3. audit \in Seq(T)
    BY <2>1, <2>2
  <2> QED
    BY <2>3 DEF T
<1>6. eventOffset \in 0..Len(events') /\ eventsProcessed \subseteq DOMAIN events'
      /\ relayed \subseteq DOMAIN events' /\ deadLetters' \subseteq {Command} \cup DOMAIN events'
  BY <1>2 DEF ApiTypeOK, TopicsTypeOK, SharedGrows
<1> QED
  BY <1>3, <1>4, <1>5, <1>6
     DEF ApiTypeOK, InHandIsNumbered, TopicsTypeOK, SharedGrows
-----------------------------------------------------------------------------
(* Types: all the other steps, and the invariant. *)

\* An operator's transition adds its audit row.
LEMMA OperatorTypes ==
  ASSUME TypeInv, NEW to \in Statuses, Transition(0, to),
         UNCHANGED <<topic, events, deadLetters, failures, dropped, eventOwner,
                     eventOffset, eventsProcessed, handler, relayed>>
  PROVE  ApiTypeOK' /\ InHandIsNumbered' /\ TopicsTypeOK'
<1>1. 0 \in 0..Len(events)
  <2>1. Len(events) \in Nat
    BY DEF TypeInv, TypeOK, TopicsTypeOK
  <2> QED
    BY <2>1
<1>2. /\ status' \in Statuses
      /\ audit' \in Seq([by: 0..Len(events), from: Statuses, to: Statuses])
  BY <1>1, TransitionTypes DEF TypeInv, TypeOK
<1> QED
  BY <1>2 DEF TypeInv, TypeOK, ApiTypeOK, InHandIsNumbered, TopicsTypeOK

\* What leaves the workers alone keeps their types.
LEMMA VisionTypesKept == VisionTypeOK /\ UNCHANGED <<topic, visionVars>> => VisionTypeOK'
BY DEF VisionTypeOK, visionVars

\* What leaves the consumers alone keeps their types.
LEMMA ApiTypesKept ==
  ASSUME TypeInv,
         UNCHANGED <<events, deadLetters, failures, dropped, apiVars>>, topic' \in Seq({Command})
  PROVE  ApiTypeOK' /\ InHandIsNumbered' /\ TopicsTypeOK'
BY DEF TypeInv, TypeOK, ApiTypeOK, InHandIsNumbered, TopicsTypeOK, apiVars

\* Everything is in its domain at first.
LEMMA InitTypeInv == Init => TypeInv
<1> SUFFICES ASSUME Init PROVE TypeInv
  OBVIOUS
<1>1. TopicsTypeOK
  <2>1. topic = <<>> /\ events = <<>> /\ deadLetters = {} /\ failures = 0 /\ dropped = FALSE
    BY DEF Init, Outbox!Init
  <2>2. failures \in 0..MaxFailures
    BY <2>1, MaxFailuresAssumption
  <2>3. topic \in Seq({Command}) /\ events \in Seq(EventTypes)
    BY <2>1
  <2>4. deadLetters \subseteq {Command} \cup DOMAIN events /\ dropped \in BOOLEAN
    BY <2>1
  <2> QED
    BY <2>2, <2>3, <2>4 DEF TopicsTypeOK
<1>2. VisionTypeOK
  <2>1. Idle \in WorkType
    BY RetryAttemptsAssumption DEF Idle, WorkType, WorkerPositions
  <2>2. commandOwner \in Workers
    BY WorkersAssumption DEF Init, VisionInit
  <2>3. commandOffset \in 0..Len(topic)
    <3>1. topic = <<>> /\ commandOffset = 0
      BY DEF Init, VisionInit, Outbox!Init
    <3> QED
      BY <3>1
  <2>4. work \in [Workers -> WorkType]
    BY <2>1 DEF Init, VisionInit
  <2>5. commandProcessed \in BOOLEAN /\ runs \in Nat /\ output = {}
    BY DEF Init, VisionInit
  <2> QED
    BY <2>2, <2>3, <2>4, <2>5 DEF VisionTypeOK, WorkType
<1>3. ApiTypeOK /\ InHandIsNumbered
  <2>1. Waiting \in HandlerType /\ Waiting.pc = "idle"
    BY <1>1, WaitingIsIdle
  <2>2. eventOwner \in Consumers
    BY ConsumersAssumption DEF Init, ApiInit
  <2>3. events = <<>> /\ Len(events) = 0
    BY DEF Init
  <2>4. "DRAFT" \in Statuses
    BY DEF Statuses
  <2> QED
    BY <2>1, <2>2, <2>3, <2>4 DEF Init, ApiInit, ApiTypeOK, HandlerType, InHandIsNumbered
<1>4. stage \in [{Command} -> {"absent", "waiting", "published"}]
  BY DEF Init, Outbox!Init
<1>5. restarts \in 0..MaxRestarts /\ requests \in 0..MaxOperator
  BY MaxRestartsAssumption, MaxOperatorAssumption DEF Init
<1> QED
  BY <1>1, <1>2, <1>3, <1>4, <1>5 DEF TypeInv, TypeOK

\* The bookkeeping of the composition.
ControlTypeOK ==
  /\ stage \in [{Command} -> {"absent", "waiting", "published"}]
  /\ restarts \in 0..MaxRestarts
  /\ requests \in 0..MaxOperator

\* Every step keeps everything in its domain.
LEMMA NextTypeInv == TypeInv /\ [Next]_vars => TypeInv'
<1> SUFFICES ASSUME TypeInv, [Next]_vars PROVE TypeInv'
  OBVIOUS
<1>0. TopicsTypeOK /\ VisionTypeOK /\ ApiTypeOK /\ InHandIsNumbered /\ ControlTypeOK
  BY DEF TypeInv, TypeOK, ControlTypeOK
<1> SUFFICES (TopicsTypeOK /\ VisionTypeOK /\ ApiTypeOK /\ InHandIsNumbered /\ ControlTypeOK)'
  BY DEF TypeInv, TypeOK, ControlTypeOK
<1>1. CASE Submit
  <2>1. Transition(0, "QUEUED") /\ "QUEUED" \in Statuses
    BY <1>1 DEF Submit, Statuses
  <2>2. UNCHANGED <<topic, events, deadLetters, failures, dropped, eventOwner,
                    eventOffset, eventsProcessed, handler, relayed, restarts, requests,
                    visionVars>>
    BY <1>1 DEF Submit, Outbox!Submit
  <2>3. ControlTypeOK'
    BY <1>0, <1>1, <2>2 DEF Submit, Outbox!Submit, ControlTypeOK
  <2> QED
    BY <1>0, <2>1, <2>2, <2>3, OperatorTypes, VisionTypesKept
<1>2. ASSUME NEW to \in Statuses, OperatorTransitions(to)
      PROVE  (TopicsTypeOK /\ VisionTypeOK /\ ApiTypeOK /\ InHandIsNumbered /\ ControlTypeOK)'
  <2>1. requests' \in 0..MaxOperator
    BY <1>0, <1>2, MaxOperatorAssumption DEF OperatorTransitions, ControlTypeOK
  <2>2. ControlTypeOK'
    BY <1>0, <1>2, <2>1 DEF OperatorTransitions, ControlTypeOK
  <2>3. /\ Transition(0, to)
        /\ UNCHANGED <<topic, events, deadLetters, failures, dropped, eventOwner,
                       eventOffset, eventsProcessed, handler, relayed, visionVars>>
    BY <1>2 DEF OperatorTransitions
  <2> QED
    BY <1>0, <2>2, <2>3, OperatorTypes, VisionTypesKept
<1>3. CASE DeliverCopy
  <2>1. topic' = Append(topic, Command) /\ UNCHANGED <<stage, restarts, requests>>
    BY <1>3 DEF DeliverCopy, Outbox!Deliver
  <2>2. topic' \in Seq({Command}) /\ Len(topic) \in Nat /\ Len(topic') = Len(topic) + 1
    BY <1>0, <2>1 DEF TopicsTypeOK
  <2>3. VisionTypeOK'
    <3>1. 0..Len(topic) \subseteq 0..Len(topic')
      BY <2>2
    <3> QED
      BY <1>0, <1>3, <3>1 DEF DeliverCopy, VisionTypeOK, visionVars
  <2>4. ApiTypeOK' /\ InHandIsNumbered' /\ TopicsTypeOK'
    BY <1>3, <2>2, ApiTypesKept DEF DeliverCopy
  <2> QED
    BY <1>0, <2>1, <2>3, <2>4 DEF ControlTypeOK
<1>4. CASE Vision
  <2>1. PICK w \in Workers : VisionStep(w) \/ VisionFails(w)
    BY <1>4 DEF Vision
  <2>2. UNCHANGED <<stage, topic, restarts, requests, apiVars>>
    BY <1>4 DEF Vision
  <2>3. SharedGrows /\ VisionTypeOK'
    BY <1>0, <2>1, <2>2, WorkerShares, WorkerTypes
  <2> QED
    BY <1>0, <2>2, <2>3, ApiTypesGrow DEF ControlTypeOK
<1>5. CASE Api
  <2>1. PICK c \in Consumers : ApiStep(c) \/ ApiFails(c)
    BY <1>5 DEF Api
  <2>2. UNCHANGED <<stage, topic, events, restarts, requests, visionVars>>
    BY <1>5 DEF Api
  <2>3. ApiTypeOK' /\ InHandIsNumbered' /\ TopicsTypeOK'
    BY <2>1, <2>2, ConsumerTypes
  <2> QED
    BY <1>0, <2>2, <2>3, VisionTypesKept DEF ControlTypeOK
<1>6. CASE Restart
  <2>1. UNCHANGED <<stage, topic, events, requests>> /\ restarts' \in 0..MaxRestarts
    BY <1>0, <1>6, MaxRestartsAssumption DEF Restart, ControlTypeOK
  <2>2. ControlTypeOK'
    BY <1>0, <2>1 DEF ControlTypeOK
  <2>3. ASSUME ReassignCommands \/ \E w \in Workers : KillWorker(w), UNCHANGED apiVars
        PROVE  VisionTypeOK' /\ TopicsTypeOK' /\ ApiTypeOK' /\ InHandIsNumbered'
    <3>1. commandOwner' \in Workers /\ commandOffset' \in 0..Len(topic)
      <4>1. commandOwner \in Workers /\ commandOffset \in 0..Len(topic) /\ Len(topic) \in Nat
        <5>1. Len(topic) \in Nat
          BY <1>0 DEF TopicsTypeOK
        <5> QED
          BY <1>0, <5>1 DEF VisionTypeOK
      <4>2. commandOwner' \in Workers \cup {commandOwner}
            /\ (Resume \/ UNCHANGED commandOffset)
        BY <2>3 DEF ReassignCommands, KillWorker
      <4> QED
        BY <4>1, <4>2 DEF Resume
    <3>2. work' \in [Workers -> WorkType]
      <4>1. UNCHANGED work \/ \E w \in Workers : Return(w)
        BY <2>3 DEF ReassignCommands, KillWorker
      <4>2. work \in [Workers -> WorkType]
        BY <1>0 DEF VisionTypeOK, WorkType
      <4> QED
        BY <1>0, <4>1, <4>2, ReturnMoves, WorkMoves
    <3>3. UNCHANGED <<commandProcessed, runs, output, events, deadLetters, failures>>
          /\ dropped' \in {dropped, TRUE}
      BY <2>3 DEF ReassignCommands, KillWorker
    <3>4. VisionTypeOK'
      BY <1>0, <2>1, <3>1, <3>2, <3>3 DEF VisionTypeOK, WorkType
    <3>5. SharedGrows
      <4>1. /\ events' \in Seq(EventTypes) /\ Len(events) <= Len(events')
            /\ \A i \in DOMAIN events : events'[i] = events[i]
        BY <1>0, <3>3 DEF TopicsTypeOK
      <4>2. failures' \in 0..MaxFailures /\ failures <= failures'
        <5>1. failures \in 0..MaxFailures
          BY <1>0 DEF TopicsTypeOK
        <5> QED
          BY <3>3, <5>1, MaxFailuresAssumption
      <4>3. dropped' \in BOOLEAN /\ (dropped => dropped')
        BY <1>0, <3>3 DEF TopicsTypeOK
      <4> QED
        BY <3>3, <4>1, <4>2, <4>3 DEF SharedGrows
    <3> QED
      BY <1>0, <2>1, <2>3, <3>4, <3>5, ApiTypesGrow
  <2>4. ASSUME ReassignEvents \/ \E c \in Consumers : KillConsumer(c), UNCHANGED visionVars
        PROVE  VisionTypeOK' /\ TopicsTypeOK' /\ ApiTypeOK' /\ InHandIsNumbered'
    <3>1. eventOwner' \in Consumers /\ eventOffset' \in 0..Len(events)
      <4>1. eventOwner \in Consumers /\ eventOffset \in 0..Len(events) /\ Len(events) \in Nat
        BY <1>0 DEF ApiTypeOK, TopicsTypeOK
      <4>2. eventOwner' \in Consumers \cup {eventOwner}
            /\ (ResumeEvents \/ UNCHANGED eventOffset)
        BY <2>4 DEF ReassignEvents, KillConsumer
      <4> QED
        BY <4>1, <4>2 DEF ResumeEvents
    <3>2. handler' \in [Consumers -> HandlerType] /\ InHandIsNumbered'
      <4>1. UNCHANGED handler
            \/ \E c \in Consumers : handler' = [handler EXCEPT ![c] = Waiting]
        BY <2>4 DEF ReassignEvents, KillConsumer
      <4>2. handler \in [Consumers -> HandlerType]
        BY <1>0 DEF ApiTypeOK, HandlerType
      <4>3. Waiting \in HandlerType /\ Waiting.pc = "idle"
        BY <1>0, WaitingIsIdle
      <4> QED
        BY <1>0, <4>1, <4>2, <4>3 DEF InHandIsNumbered
    <3>3. UNCHANGED <<eventsProcessed, status, audit, relayed, deadLetters, failures>>
          /\ dropped' \in BOOLEAN
      BY <1>0, <2>4 DEF ReassignEvents, KillConsumer, TopicsTypeOK
    <3> QED
      BY <1>0, <2>1, <2>4, <3>1, <3>2, <3>3, VisionTypesKept
         DEF ApiTypeOK, HandlerType, TopicsTypeOK
  <2> QED
    BY <1>6, <2>2, <2>3, <2>4 DEF Restart
<1>7. CASE UNCHANGED vars
  BY <1>0, <1>7, VisionTypesKept, ApiTypesKept DEF vars, ControlTypeOK, TopicsTypeOK
<1> QED
  BY <1>1, <1>2, <1>3, <1>4, <1>5, <1>6, <1>7 DEF Next
-----------------------------------------------------------------------------
(* The vision worker's invariant. *)

\* Nothing has run at first.
LEMMA InitVisionInv == Init => VisionInv
<1> SUFFICES ASSUME Init PROVE VisionInv
  OBVIOUS
<1>1. events = <<>> /\ runs = 0 /\ \A w \in Workers : work[w].pc = "idle"
  BY DEF Init, VisionInit, Idle
<1>2. MarkedBeforeRun
  BY <1>1 DEF MarkedBeforeRun
<1>3. DOMAIN events = {}
  BY <1>1
<1> QED
  BY <1>1, <1>2, <1>3 DEF VisionInv, OutputBehind, CompletionHasOutput

\* Every step keeps the invariant of the workers.
LEMMA NextVisionInv == TypeInv /\ VisionInv /\ [Next]_vars => VisionInv'
<1> SUFFICES ASSUME TypeInv, VisionInv, [Next]_vars PROVE VisionInv'
  OBVIOUS
<1>0. TopicsTypeOK /\ VisionTypeOK
  BY DEF TypeInv, TypeOK
<1>1. CASE Vision
  <2>1. PICK w \in Workers : VisionStep(w) \/ VisionFails(w)
    BY <1>1 DEF Vision
  <2> QED
    BY <1>0, <2>1, WorkerMarksFirst, WorkerOutputs DEF VisionInv
<1>2. CASE UNCHANGED <<events, visionVars>>
  BY <1>2 DEF VisionInv, MarkedBeforeRun, OutputBehind, CompletionHasOutput, visionVars
<1>3. CASE Restart /\ ~UNCHANGED visionVars
  <2>1. UNCHANGED <<events, runs, commandProcessed, output>>
    BY <1>3 DEF Restart, ReassignCommands, KillWorker
  <2>2. UNCHANGED work \/ \E w \in Workers : Return(w)
    BY <1>3 DEF Restart, ReassignCommands, KillWorker
  <2>3. \A w \in Workers : work'[w].pc = "idle" \/ work'[w] = work[w]
    <3>1. ASSUME NEW v \in Workers, Return(v)
          PROVE  \A w \in Workers : work'[w].pc = "idle" \/ work'[w] = work[w]
      BY <1>0, <3>1, ReturnMoves, WorkMoves
    <3> QED
      BY <2>2, <3>1
  <2> QED
    BY <2>1, <2>3 DEF VisionInv, MarkedBeforeRun, OutputBehind, CompletionHasOutput
<1>4. Next => Vision \/ Restart \/ UNCHANGED <<events, visionVars>>
  BY DEF Next, Submit, DeliverCopy, OperatorTransitions, Api
<1>5. Restart => UNCHANGED events
  BY DEF Restart
<1> QED
  BY <1>1, <1>2, <1>3, <1>4, <1>5 DEF vars

-----------------------------------------------------------------------------
(* What becomes of an event: the invariant. *)

\* There is no event at first.
LEMMA InitAccountInv == Init => AccountInv
<1> SUFFICES ASSUME Init PROVE AccountInv
  OBVIOUS
<1>1. /\ \A c \in Consumers : handler[c].pc = "idle"
      /\ audit = <<>> /\ eventsProcessed = {} /\ deadLetters = {} /\ relayed = {}
  BY DEF Init, ApiInit, Waiting
<1> QED
  BY <1>1 DEF AccountInv, HeldOnce, Holding, MarkedFirst, AppliedBeforeRelay, Accounted,
              TriedIsUnapplied, RelayedWasApplied, DeadLettersAreUnapplied, Applied

\* What workers, operators' deliveries and rebalances change does not disturb it.
LEMMA AccountFrame ==
  ASSUME AccountInv, UNCHANGED <<handler, eventsProcessed, audit, relayed>>,
         failures \in Nat, failures' \in Nat, failures <= failures', dropped => dropped',
         deadLetters \subseteq deadLetters', deadLetters' \subseteq deadLetters \cup {Command}
  PROVE  AccountInv'
<1>1. failures' = 0 => failures = 0
  OBVIOUS
<1>2. \A e : Applied(e)' <=> Applied(e)
  BY DEF Applied
<1>3. HeldOnce' /\ MarkedFirst'
  BY DEF AccountInv, HeldOnce, Holds, MarkedFirst
<1>4. AppliedBeforeRelay' /\ Accounted'
  BY <1>2 DEF AccountInv, AppliedBeforeRelay, Accounted, Holds
<1>5. TriedIsUnapplied'
  BY <1>1, <1>2 DEF AccountInv, TriedIsUnapplied
<1>6. RelayedWasApplied'
  BY DEF AccountInv, RelayedWasApplied
<1>7. DeadLettersAreUnapplied'
  <2>1. failures' > 0 <=> failures' # 0
    OBVIOUS
  <2>2. failures > 0 => failures' # 0
    OBVIOUS
  <2> QED
    BY <1>2, <2>1, <2>2 DEF AccountInv, DeadLettersAreUnapplied
<1> QED
  BY <1>3, <1>4, <1>5, <1>6, <1>7 DEF AccountInv

\* An audit row adds its event to the applied ones.
LEMMA AuditGrows ==
  ASSUME ApiTypeOK, NEW by \in 0..Len(events), NEW to \in Statuses, Transition(by, to)
  PROVE  /\ \A e : Applied(e)' <=> Applied(e) \/ e = by
         /\ \A i \in DOMAIN audit' : audit'[i].by = by \/ \E k \in DOMAIN audit : audit'[i] = audit[k]
<1> DEFINE S == [by: 0..Len(events), from: Statuses, to: Statuses]
           new == [by |-> by, from |-> status, to |-> to]
<1>1. audit \in Seq(S) /\ new \in S
  BY DEF ApiTypeOK
<1>2. audit' = Append(audit, new) /\ new.by = by
  BY DEF Transition
<1> HIDE DEF S, new
<1>3. /\ DOMAIN audit' = DOMAIN audit \cup {Len(audit) + 1}
      /\ \A i \in DOMAIN audit : audit'[i] = audit[i]
      /\ audit'[Len(audit) + 1] = new
  BY <1>1, <1>2
<1> QED
  BY <1>2, <1>3 DEF Applied

\* An operator's row is no event's.
LEMMA AccountOperator ==
  ASSUME TypeInv, AccountInv, NEW to \in Statuses, Transition(0, to),
         UNCHANGED <<handler, eventsProcessed, relayed, deadLetters, failures, dropped>>
  PROVE  AccountInv'
<1>0. Len(events) \in Nat /\ ApiTypeOK /\ 0 \in 0..Len(events)
  <2>1. Len(events) \in Nat /\ ApiTypeOK
    BY DEF TypeInv, TypeOK, TopicsTypeOK
  <2> QED
    BY <2>1
<1>1. \A e : Applied(e)' <=> Applied(e) \/ e = 0
  BY <1>0, AuditGrows
<1>2. \A i \in DOMAIN audit' : audit'[i].by = 0 \/ \E k \in DOMAIN audit : audit'[i] = audit[k]
  BY <1>0, AuditGrows
<1>3. 0 \notin eventsProcessed /\ 0 \notin deadLetters \ {Command}
  <2>1. 0 \notin DOMAIN events
    <3>1. DOMAIN events = 1..Len(events)
      BY DEF TypeInv, TypeOK, TopicsTypeOK
    <3> QED
      BY <1>0, <3>1
  <2> QED
    BY <1>0, <2>1 DEF ApiTypeOK, AccountInv, MarkedFirst
<1>4. HeldOnce' /\ MarkedFirst'
  BY <1>2 DEF AccountInv, HeldOnce, Holds, MarkedFirst
<1>5. AppliedBeforeRelay' /\ Accounted'
  BY <1>1 DEF AccountInv, AppliedBeforeRelay, Accounted, Holds
<1>6. TriedIsUnapplied'
  <2>1. \A c \in Consumers : handler[c].pc \in {"attempt", "deadletter"} => handler[c].event # 0
    BY DEF TypeInv, InHandIsNumbered
  <2> QED
    BY <1>1, <2>1 DEF AccountInv, TriedIsUnapplied
<1>7. RelayedWasApplied'
  <2>1. RelayedWasApplied <=> \A e \in relayed : Applied(e)
    BY DEF RelayedWasApplied, Applied
  <2>2. RelayedWasApplied' <=> \A e \in relayed' : Applied(e)'
    BY DEF RelayedWasApplied, Applied
  <2> QED
    BY <1>1, <2>1, <2>2 DEF AccountInv
<1>8. DeadLettersAreUnapplied'
  BY <1>1, <1>3 DEF AccountInv, DeadLettersAreUnapplied
<1> QED
  BY <1>4, <1>5, <1>6, <1>7, <1>8 DEF AccountInv

-----------------------------------------------------------------------------
\* A consumer that lets go of its event, or takes one it has not marked.  If it
\* held the event, that has moved the mission, is dead-lettered or dropped; a
\* mark without a try is dropped; a new dead letter is the one it held.
LEMMA AccountRelease ==
  ASSUME TypeInv, AccountInv, NEW c \in Consumers, NEW h \in HandlerType, h.pc \notin Holding,
         handler' = [handler EXCEPT ![c] = h], UNCHANGED audit,
         failures' \in Nat, failures <= failures', dropped => dropped',
         eventsProcessed \subseteq eventsProcessed',
         \A e \in eventsProcessed' \ eventsProcessed : dropped',
         handler[c].pc \in Holding =>
           Applied(handler[c].event) \/ handler[c].event \in deadLetters' \/ dropped',
         deadLetters \subseteq deadLetters',
         \A e \in deadLetters' \ deadLetters :
           handler[c].pc = "deadletter" /\ e = handler[c].event,
         \A e \in relayed' : Applied(e)
  PROVE  AccountInv'
<1>0. ApiTypeOK /\ failures \in Nat
  BY MaxFailuresAssumption DEF TypeInv, TypeOK, TopicsTypeOK
<1>1. /\ handler'[c] = h
      /\ \A d \in Consumers \ {c} : handler'[d] = handler[d]
  BY <1>0, ConsumerMoves
<1>2. \A e : Applied(e)' <=> Applied(e)
  BY DEF Applied
<1>3. failures' = 0 => failures = 0
  BY <1>0
<1>4. HeldOnce'
  BY <1>1 DEF AccountInv, HeldOnce, Holds
<1>5. MarkedFirst'
  BY DEF AccountInv, MarkedFirst, HeldOnce, Holding
<1>6. AppliedBeforeRelay'
  BY <1>1, <1>2 DEF AccountInv, AppliedBeforeRelay, Holding
<1>7. Accounted'
  <2> SUFFICES ASSUME NEW e \in eventsProcessed, ~Applied(e), e \notin deadLetters', ~dropped'
               PROVE  \E d \in Consumers : Holds(d, e)'
    BY <1>2 DEF Accounted
  <2>1. PICK d \in Consumers : Holds(d, e)
    BY DEF AccountInv, Accounted
  <2>2. d # c
    BY <2>1 DEF Holds
  <2> QED
    BY <1>1, <2>1, <2>2 DEF Holds
<1>8. TriedIsUnapplied'
  <2> SUFFICES ASSUME failures' = 0, NEW d \in Consumers,
                      handler'[d].pc \in {"attempt", "deadletter"}
               PROVE  /\ ~Applied(handler'[d].event)
                      /\ handler'[d].pc = "attempt" =>
                           handler'[d].event \notin deadLetters' \ {Command}
    BY <1>2 DEF TriedIsUnapplied
  <2>1. d # c /\ handler'[d] = handler[d]
    BY <1>1 DEF Holding
  <2>2. /\ ~Applied(handler[d].event)
        /\ handler[d].pc = "attempt" => handler[d].event \notin deadLetters \ {Command}
    BY <1>3, <2>1 DEF AccountInv, TriedIsUnapplied
  <2>3. handler[d].event \notin deadLetters' \ deadLetters
    BY <2>1 DEF AccountInv, HeldOnce, Holds, Holding
  <2> QED
    BY <2>1, <2>2, <2>3
<1>9. RelayedWasApplied'
  BY DEF RelayedWasApplied, Applied
<1>10. DeadLettersAreUnapplied'
  <2> SUFFICES ASSUME NEW e \in deadLetters' \ {Command}, Applied(e), failures' = 0
               PROVE  FALSE
    BY <1>2 DEF DeadLettersAreUnapplied
  <2>1. CASE e \in deadLetters
    BY <1>3, <2>1 DEF AccountInv, DeadLettersAreUnapplied
  <2>2. CASE e \notin deadLetters
    BY <1>3, <2>2 DEF AccountInv, TriedIsUnapplied
  <2> QED
    BY <2>1, <2>2
<1> QED
  BY <1>4, <1>5, <1>6, <1>7, <1>8, <1>9, <1>10 DEF AccountInv

\* A new mark: nobody holds the event, and nothing has come of it.
LEMMA AccountMark ==
  ASSUME TypeInv, AccountInv, NEW c \in Consumers, NEW h \in HandlerType, h.pc = "attempt",
         handler' = [handler EXCEPT ![c] = h], h.event = handler[c].event,
         handler[c].pc # "idle", handler[c].event \notin eventsProcessed,
         eventsProcessed' = eventsProcessed \cup {handler[c].event},
         UNCHANGED <<audit, relayed, deadLetters, failures, dropped>>
  PROVE  AccountInv'
<1> DEFINE e == handler[c].event
<1>0. ApiTypeOK /\ e # 0
  BY DEF TypeInv, TypeOK, InHandIsNumbered
<1>1. /\ handler'[c] = h
      /\ \A d \in Consumers \ {c} : handler'[d] = handler[d]
  BY <1>0, ConsumerMoves
<1>2. \A x : Applied(x)' <=> Applied(x)
  BY DEF Applied
<1>3. ~Applied(e) /\ e \notin deadLetters \ {Command}
  BY <1>0 DEF AccountInv, MarkedFirst, Applied
<1>4. \A d \in Consumers : ~Holds(d, e)
  BY DEF AccountInv, HeldOnce, Holds
<1>5. HeldOnce'
  BY <1>1, <1>4 DEF AccountInv, HeldOnce, Holds
<1>6. MarkedFirst'
  BY DEF AccountInv, MarkedFirst
<1>7. AppliedBeforeRelay'
  BY <1>1, <1>2 DEF AccountInv, AppliedBeforeRelay
<1>8. Accounted'
  <2>1. Holds(c, e)'
    BY <1>1 DEF Holds, Holding
  <2>2. \A d \in Consumers, x \in eventsProcessed : Holds(d, x) => Holds(d, x)'
    BY <1>1, <1>4 DEF AccountInv, HeldOnce, Holds
  <2> QED
    BY <1>2, <2>1, <2>2 DEF AccountInv, Accounted
<1>9. TriedIsUnapplied'
  BY <1>1, <1>2, <1>3 DEF AccountInv, TriedIsUnapplied
<1>10. RelayedWasApplied' /\ DeadLettersAreUnapplied'
  BY <1>2 DEF AccountInv, RelayedWasApplied, DeadLettersAreUnapplied
<1> QED
  BY <1>5, <1>6, <1>7, <1>8, <1>9, <1>10 DEF AccountInv

\* A try, with or without an effect: the consumer keeps its event.  It goes to
\* the relay only with the effect, and an effect that is not relayed is a call
\* that failed.
LEMMA AccountTry ==
  ASSUME TypeInv, AccountInv, NEW c \in Consumers, NEW h \in HandlerType,
         handler' = [handler EXCEPT ![c] = h], h.event = handler[c].event,
         handler[c].pc = "attempt", h.pc \in Holding,
         \/ UNCHANGED audit /\ h.pc # "relay"
         \/ Transition(handler[c].event, TargetOf(c)) /\ (h.pc = "relay" \/ failures' > 0),
         failures' \in Nat, failures <= failures',
         UNCHANGED <<eventsProcessed, relayed, deadLetters, dropped>>
  PROVE  AccountInv'
<1> DEFINE e == handler[c].event
           Acts == Transition(e, TargetOf(c))
<1>0. ApiTypeOK /\ e \in 0..Len(events) /\ TargetOf(c) \in Statuses /\ failures \in Nat
  <2>1. ApiTypeOK /\ failures \in 0..MaxFailures
    BY DEF TypeInv, TypeOK, TopicsTypeOK
  <2> QED
    BY <2>1, TriedIsEvent, MaxFailuresAssumption DEF ApiTypeOK
<1>1. /\ handler'[c] = h
      /\ \A d \in Consumers \ {c} : handler'[d] = handler[d]
  BY <1>0, ConsumerMoves
<1>2. /\ \A x : Applied(x) => Applied(x)'
      /\ \A x : Applied(x)' => Applied(x) \/ (Acts /\ x = e)
      /\ Acts => Applied(e)'
  <2>1. CASE UNCHANGED audit /\ ~Acts
    BY <2>1 DEF Applied
  <2>2. CASE Acts
    BY <1>0, <2>2, AuditGrows
  <2> QED
    BY <2>1, <2>2
<1>3. e \in eventsProcessed /\ \A d \in Consumers \ {c} : ~Holds(d, e)
  BY DEF AccountInv, HeldOnce, Holding
<1>4. failures' = 0 =>
        /\ failures = 0 /\ e \notin deadLetters \ {Command}
        /\ ~Applied(e) /\ (h.pc # "relay" => ~Acts)
  <2>1. failures' = 0 => failures = 0
    BY <1>0
  <2>2. h.pc # "relay" /\ failures' = 0 => UNCHANGED audit
    OBVIOUS
  <2>3. UNCHANGED audit => ~Acts
    <3>1. DEFINE S == [by: 0..Len(events), from: Statuses, to: Statuses]
    <3>2. audit \in Seq(S)
      BY <1>0 DEF ApiTypeOK
    <3> HIDE DEF S
    <3>3. \A r : Len(Append(audit, r)) # Len(audit)
      BY <3>2
    <3> QED
      BY <3>3 DEF Transition
  <2> QED
    BY <2>1, <2>2, <2>3 DEF AccountInv, TriedIsUnapplied
<1>5. HeldOnce'
  BY <1>1, <1>3 DEF AccountInv, HeldOnce, Holds, Holding
<1>6. MarkedFirst'
  <2>1. \A i \in DOMAIN audit' : audit'[i].by = e \/ \E k \in DOMAIN audit : audit'[i] = audit[k]
    BY <1>0, AuditGrows
  <2> QED
    BY <1>3, <2>1 DEF AccountInv, MarkedFirst
<1>7. AppliedBeforeRelay'
  BY <1>1, <1>2 DEF AccountInv, AppliedBeforeRelay
<1>8. Accounted'
  <2>1. \A d \in Consumers : \A x : Holds(d, x) => Holds(d, x)'
    BY <1>1 DEF Holds
  <2> QED
    BY <1>2, <2>1 DEF AccountInv, Accounted
<1>9. TriedIsUnapplied'
  <2> SUFFICES ASSUME failures' = 0, NEW d \in Consumers,
                      handler'[d].pc \in {"attempt", "deadletter"}
               PROVE  (/\ ~Applied(handler[d].event)
                       /\ handler[d].pc = "attempt" =>
                            handler[d].event \notin deadLetters \ {Command})'
    BY DEF TriedIsUnapplied
  <2>1. CASE d = c
    BY <1>1, <1>2, <1>4, <2>1
  <2>2. CASE d # c
    <3>1. handler'[d] = handler[d] /\ handler[d].event # e
      BY <1>1, <1>3, <2>2 DEF Holds, Holding
    <3> QED
      BY <1>2, <1>4, <3>1 DEF AccountInv, TriedIsUnapplied
  <2> QED
    BY <2>1, <2>2
<1>10. RelayedWasApplied'
  <2>1. RelayedWasApplied <=> \A x \in relayed : Applied(x)
    BY DEF RelayedWasApplied, Applied
  <2>2. RelayedWasApplied' <=> \A x \in relayed' : Applied(x)'
    BY DEF RelayedWasApplied, Applied
  <2> QED
    BY <1>2, <2>1, <2>2 DEF AccountInv
<1>11. DeadLettersAreUnapplied'
  <2>1. failures' = 0 \/ failures' > 0
    OBVIOUS
  <2>2. failures = 0 => ~(failures > 0)
    OBVIOUS
  <2> QED
    BY <1>2, <1>4, <2>1, <2>2 DEF AccountInv, DeadLettersAreUnapplied
<1> QED
  BY <1>5, <1>6, <1>7, <1>8, <1>9, <1>10, <1>11 DEF AccountInv

\* Every step of a consumer is one of the three.
LEMMA ConsumerAccounts ==
  ASSUME TypeInv, AccountInv, NEW c \in Consumers, ApiStep(c) \/ ApiFails(c)
  PROVE  AccountInv'
<1>0. ApiTypeOK /\ TopicsTypeOK
  BY DEF TypeInv, TypeOK
<1>w. Waiting \in HandlerType /\ Waiting.pc \notin Holding
  BY <1>0, WaitingIsIdle DEF Holding
<1>f. failures \in Nat /\ failures <= failures /\ (CallFails => /\ failures' \in Nat
                                                             /\ failures <= failures'
                                                             /\ failures' > 0)
  <2>1. failures \in Nat
    BY <1>0, MaxFailuresAssumption DEF TopicsTypeOK
  <2> QED
    BY <2>1 DEF CallFails
<1>r. \A e \in relayed : Applied(e)
  BY DEF AccountInv, RelayedWasApplied, Applied
<1>1. CASE DeliverEvent(c)
  <2>1. PICK h \in HandlerType : /\ handler' = [handler EXCEPT ![c] = h]
                                 /\ \/ h = Waiting
                                    \/ h.event = handler[c].event /\ handler[c].pc # "idle"
                                    \/ h.pc = "mark"
    BY <1>1, ConsumerMovesOn DEF ApiStep
  <2>2. handler[c].pc = "idle" /\ h.pc \notin Holding
    BY <1>1, <1>w, <2>1 DEF DeliverEvent, HandlerAt, Holding
  <2>3. UNCHANGED <<audit, relayed, failures, dropped, eventsProcessed, deadLetters>>
    BY <1>1 DEF DeliverEvent
  <2> QED
    BY <1>f, <1>r, <2>1, <2>2, <2>3, AccountRelease DEF Holding
<1>2. CASE MarkEvent(c) /\ handler[c].event \in eventsProcessed
  <2>1. handler' = [handler EXCEPT ![c] = Waiting] /\ handler[c].pc = "mark"
    BY <1>2 DEF MarkEvent, Resolve, HandlerAt
  <2>2. UNCHANGED <<audit, relayed, failures, dropped, eventsProcessed, deadLetters>>
    BY <1>2 DEF MarkEvent
  <2> QED
    BY <1>f, <1>r, <1>w, <2>1, <2>2, AccountRelease DEF Holding
<1>3. CASE MarkEvent(c) /\ handler[c].event \notin eventsProcessed
  <2>1. HandlerGoto(c, "attempt") /\ handler[c].pc = "mark"
    BY <1>3 DEF MarkEvent, HandlerAt
  <2>2. PICK h \in HandlerType : /\ handler' = [handler EXCEPT ![c] = h]
                                 /\ h.event = handler[c].event /\ h.pc = "attempt"
    BY <1>0, <2>1, HandlerGotoMoves DEF HandlerPositions
  <2>3. /\ UNCHANGED <<audit, relayed, failures, dropped, deadLetters>>
        /\ eventsProcessed' = eventsProcessed \cup {handler[c].event}
    BY <1>3 DEF MarkEvent
  <2> QED
    BY <1>3, <2>1, <2>2, <2>3, AccountMark
<1>4. CASE MarkEventFails(c)
  <2>1. handler' = [handler EXCEPT ![c] = Waiting] /\ handler[c].pc = "mark" /\ CallFails
    BY <1>4 DEF MarkEventFails, Throw, HandlerAt
  <2>2. /\ UNCHANGED <<audit, relayed, deadLetters>>
        /\ \/ UNCHANGED <<eventsProcessed, dropped>>
           \/ eventsProcessed \subseteq eventsProcessed' /\ dropped'
    BY <1>4 DEF MarkEventFails
  <2>3. /\ eventsProcessed \subseteq eventsProcessed' /\ (dropped => dropped')
        /\ \A e \in eventsProcessed' \ eventsProcessed : dropped'
    BY <2>2
  <2>4. failures' \in Nat /\ failures <= failures'
    BY <1>f, <2>1
  <2>5. deadLetters \subseteq deadLetters' /\ deadLetters' \ deadLetters = {}
        /\ \A e \in relayed' : Applied(e)
    BY <1>r, <2>2
  <2>6. handler[c].pc \notin Holding /\ UNCHANGED audit
    BY <2>1, <2>2 DEF Holding
  <2> QED
    BY <1>w, <2>1, <2>3, <2>4, <2>5, <2>6, AccountRelease
<1>5. CASE Attempt(c)
  <2>1. HandlerGoto(c, "relay") /\ handler[c].pc = "attempt"
        /\ Transition(handler[c].event, TargetOf(c))
    BY <1>5 DEF Attempt, HandlerAt
  <2>2. PICK h \in HandlerType : /\ handler' = [handler EXCEPT ![c] = h]
                                 /\ h.event = handler[c].event /\ h.pc = "relay"
    BY <1>0, <2>1, HandlerGotoMoves DEF HandlerPositions
  <2>3. UNCHANGED <<relayed, failures, dropped, eventsProcessed, deadLetters>>
    BY <1>5 DEF Attempt
  <2> QED
    BY <1>f, <2>1, <2>2, <2>3, AccountTry DEF Holding
<1>6. CASE AttemptRefused(c) \/ AttemptFails(c)
  <2>1. Retry(c) /\ handler[c].pc = "attempt"
    BY <1>6 DEF AttemptRefused, AttemptFails, HandlerAt
  <2>2. PICK h \in HandlerType :
          /\ handler' = [handler EXCEPT ![c] = h]
          /\ h.event = handler[c].event /\ h.pc \in {"attempt", "deadletter"}
    BY <1>0, <2>1, RetryMoves
  <2>3. /\ UNCHANGED <<relayed, dropped, eventsProcessed, deadLetters>>
        /\ \/ UNCHANGED <<audit, failures>>
           \/ CallFails /\ (UNCHANGED audit \/ Transition(handler[c].event, TargetOf(c)))
    BY <1>6 DEF AttemptRefused, AttemptFails
  <2> QED
    BY <1>f, <2>1, <2>2, <2>3, AccountTry DEF Holding
<1>7. CASE Relay(c)
  <2>1. handler' = [handler EXCEPT ![c] = Waiting] /\ handler[c].pc = "relay"
    BY <1>7 DEF Relay, Resolve, HandlerAt
  <2>2. /\ UNCHANGED <<audit, failures, dropped, eventsProcessed, deadLetters>>
        /\ relayed' = relayed \cup {handler[c].event}
    BY <1>7 DEF Relay
  <2>3. Applied(handler[c].event)
    BY <2>1 DEF AccountInv, AppliedBeforeRelay
  <2>4. \A e \in relayed' : Applied(e)
    BY <1>r, <2>2, <2>3
  <2> QED
    BY <1>f, <1>w, <2>1, <2>2, <2>3, <2>4, AccountRelease DEF Holding
<1>8. CASE DeadLetterEvent(c)
  <2>1. handler' = [handler EXCEPT ![c] = Waiting] /\ handler[c].pc = "deadletter"
    BY <1>8 DEF DeadLetterEvent, Resolve, HandlerAt
  <2>2. /\ UNCHANGED <<audit, relayed, failures, dropped, eventsProcessed>>
        /\ deadLetters' = deadLetters \cup {handler[c].event}
    BY <1>8 DEF DeadLetterEvent
  <2> QED
    BY <1>f, <1>r, <1>w, <2>1, <2>2, AccountRelease DEF Holding
<1>9. CASE DeadLetterEventFails(c)
  <2>1. /\ handler' = [handler EXCEPT ![c] = Waiting] /\ handler[c].pc = "deadletter"
        /\ CallFails
    BY <1>9 DEF DeadLetterEventFails, Throw, HandlerAt
  <2>2. /\ UNCHANGED <<audit, relayed, eventsProcessed>> /\ dropped'
        /\ deadLetters' \in {deadLetters, deadLetters \cup {handler[c].event}}
    BY <1>9 DEF DeadLetterEventFails
  <2> QED
    BY <1>f, <1>r, <1>w, <2>1, <2>2, AccountRelease DEF Holding
<1> QED
  BY <1>1, <1>2, <1>3, <1>4, <1>5, <1>6, <1>7, <1>8, <1>9 DEF ApiStep, ApiFails

\* A killed consumer drops what it had neither moved nor dead-lettered.
LEMMA KillAccounts ==
  ASSUME TypeInv, AccountInv, NEW c \in Consumers, KillConsumer(c)
  PROVE  AccountInv'
<1>0. TopicsTypeOK
  BY DEF TypeInv, TypeOK
<1>1. Waiting \in HandlerType /\ Waiting.pc \notin Holding
  BY <1>0, WaitingIsIdle DEF Holding
<1>2. failures \in Nat
  BY <1>0, MaxFailuresAssumption DEF TopicsTypeOK
<1>3. /\ handler' = [handler EXCEPT ![c] = Waiting]
      /\ UNCHANGED <<audit, relayed, failures, eventsProcessed, deadLetters>>
      /\ dropped' = (dropped \/ handler[c].pc \in {"attempt", "deadletter"})
  BY DEF KillConsumer
<1>4. handler[c].pc = "relay" => Applied(handler[c].event)
  BY DEF AccountInv, AppliedBeforeRelay
<1>5. \A e \in relayed : Applied(e)
  BY DEF AccountInv, RelayedWasApplied, Applied
<1>6. failures' \in Nat /\ failures <= failures'
  BY <1>2, <1>3
<1>7. handler[c].pc \in Holding => Applied(handler[c].event) \/ dropped'
  BY <1>3, <1>4 DEF Holding
<1>8. dropped => dropped'
  BY <1>3
<1> QED
  BY <1>1, <1>3, <1>5, <1>6, <1>7, <1>8, AccountRelease

\* Every step keeps the account of the events.
LEMMA NextAccountInv == TypeInv /\ AccountInv /\ [Next]_vars => AccountInv'
<1> SUFFICES ASSUME TypeInv, AccountInv, [Next]_vars PROVE AccountInv'
  OBVIOUS
<1>0. TopicsTypeOK /\ failures \in Nat
  BY MaxFailuresAssumption DEF TypeInv, TypeOK, TopicsTypeOK
<1>1. CASE Submit
  <2>1. "QUEUED" \in Statuses
    BY DEF Statuses
  <2> QED
    BY <1>1, <2>1, AccountOperator DEF Submit
<1>2. ASSUME NEW to \in Statuses, OperatorTransitions(to)
      PROVE  AccountInv'
  BY <1>2, AccountOperator DEF OperatorTransitions
<1>3. CASE DeliverCopy \/ UNCHANGED vars
  <2>1. UNCHANGED <<handler, eventsProcessed, audit, relayed, failures, dropped, deadLetters>>
    BY <1>3 DEF DeliverCopy, vars, apiVars
  <2> QED
    BY <1>0, <2>1, AccountFrame
<1>4. CASE Vision
  <2>1. SharedGrows
    BY <1>0, <1>4, WorkerShares DEF Vision
  <2>2. UNCHANGED <<handler, eventsProcessed, audit, relayed>>
    BY <1>4 DEF Vision, apiVars
  <2>3. failures' \in Nat
    BY <2>1, MaxFailuresAssumption DEF SharedGrows
  <2> QED
    BY <1>0, <2>1, <2>2, <2>3, AccountFrame DEF SharedGrows
<1>5. CASE Api
  BY <1>5, ConsumerAccounts DEF Api
<1>6. CASE Restart
  <2>1. ASSUME ReassignCommands \/ \E w \in Workers : KillWorker(w), UNCHANGED apiVars
        PROVE  AccountInv'
    <3>1. UNCHANGED <<handler, eventsProcessed, audit, relayed>>
      BY <2>1 DEF apiVars
    <3>2. UNCHANGED <<failures, deadLetters>> /\ (dropped => dropped')
      BY <2>1 DEF ReassignCommands, KillWorker
    <3> QED
      BY <1>0, <3>1, <3>2, AccountFrame
  <2>2. CASE ReassignEvents
    <3>1. UNCHANGED <<handler, eventsProcessed, audit, relayed, failures, dropped, deadLetters>>
      BY <2>2 DEF ReassignEvents
    <3> QED
      BY <1>0, <3>1, AccountFrame
  <2> QED
    BY <1>6, <2>1, <2>2, KillAccounts DEF Restart
<1> QED
  BY <1>1, <1>2, <1>3, <1>4, <1>5, <1>6 DEF Next
-----------------------------------------------------------------------------
(* In which order events move the mission: the invariant. *)

\* Ranks are numbers.
LEMMA RankIsNat == \A s : Rank(s) \in Nat
BY DEF Rank

\* An event's transition goes to a higher rank.
LEMMA EventRaisesRank ==
  ASSUME NEW from, NEW type \in EventTypes, isLegalMissionTransition(from, Target(type))
  PROVE  Rank(from) < Rank(Target(type))
<1>1. \/ from = "QUEUED" /\ Target(type) = "PROCESSING"
      \/ from = "PROCESSING" /\ Target(type) \in {"COMPLETED", "FAILED"}
  BY TargetIsStatus DEF isLegalMissionTransition, LegalTransitions
<1> QED
  BY <1>1 DEF Rank

\* Nothing has moved the mission at first.
LEMMA InitOrderInv == Init => OrderInv
<1> SUFFICES ASSUME Init PROVE OrderInv
  OBVIOUS
<1>1. /\ \A c \in Consumers : handler[c].pc = "idle"
      /\ audit = <<>> /\ eventsProcessed = {} /\ status = "DRAFT"
  BY DEF Init, ApiInit, Waiting
<1>2. DOMAIN audit = {}
  BY <1>1
<1> QED
  BY <1>1, <1>2
     DEF OrderInv, StatusIsLast, ByItsTarget, EventsMoveAhead, OwnerWorksInTurn, EventsInTurn

\* More events change nothing about those that moved the mission.
LEMMA OrderFrame ==
  ASSUME OrderInv,
         DOMAIN events \subseteq DOMAIN events', \A i \in DOMAIN events : events'[i] = events[i],
         UNCHANGED <<restarts, status, audit, handler, eventOwner, eventOffset, eventsProcessed>>
  PROVE  OrderInv'
<1>1. StatusIsLast' /\ ByItsTarget'
  BY DEF OrderInv, StatusIsLast, ByItsTarget
<1>2. EventsMoveAhead' /\ EventsInTurn'
  BY DEF OrderInv, EventsMoveAhead, EventsInTurn, ByEvents
<1>3. OwnerWorksInTurn'
  BY DEF OrderInv, OwnerWorksInTurn
<1> QED
  BY <1>1, <1>2, <1>3 DEF OrderInv

\* After a restart nothing is said of turns.
LEMMA OrderRestart ==
  ASSUME OrderInv, UNCHANGED <<events, status, audit>>, restarts' # 0
  PROVE  OrderInv'
BY DEF OrderInv, StatusIsLast, ByItsTarget, EventsMoveAhead, EventsInTurn, ByEvents,
       OwnerWorksInTurn

\* A transition by an operator or by an event that is not behind those before.
LEMMA OrderTransition ==
  ASSUME TypeInv, OrderInv, NEW by \in 0..Len(events), NEW to \in Statuses,
         Transition(by, to), UNCHANGED <<events, restarts>>,
         by # 0 => by \in DOMAIN events /\ to = Target(events[by]),
         by # 0 /\ restarts = 0 => \A i \in DOMAIN audit : audit[i].by <= by
  PROVE  StatusIsLast' /\ ByItsTarget' /\ EventsMoveAhead' /\ EventsInTurn'
<1> DEFINE S == [by: 0..Len(events), from: Statuses, to: Statuses]
           new == [by |-> by, from |-> status, to |-> to]
<1>1. audit \in Seq(S) /\ new \in S
  BY DEF TypeInv, TypeOK, ApiTypeOK
<1>2. audit' = Append(audit, new) /\ status' = to /\ isLegalMissionTransition(status, to)
  BY DEF Transition
<1>3. new.by = by /\ new.to = to
  OBVIOUS
<1> HIDE DEF S, new
<1>n. PICK n \in Nat : n = Len(audit)
  BY <1>1
<1>4. Len(events) \in Nat /\ \A i \in DOMAIN audit : audit[i].by \in Nat
  <2>1. Len(events) \in Nat
    BY DEF TypeInv, TypeOK, TopicsTypeOK
  <2>2. \A i \in DOMAIN audit : audit[i] \in S
    BY <1>1
  <2> QED
    BY <2>1, <2>2 DEF S
<1>5. /\ n \in Nat /\ DOMAIN audit = 1..n /\ DOMAIN audit' = 1..(n + 1)
      /\ \A i \in 1..n : audit'[i] = audit[i]
      /\ audit'[n + 1] = new /\ Len(audit') = n + 1 /\ audit' # <<>>
  BY <1>1, <1>2, <1>n
<1>6. StatusIsLast'
  BY <1>2, <1>3, <1>5 DEF StatusIsLast
<1>7. ByItsTarget'
  <2> SUFFICES ASSUME NEW i \in DOMAIN audit', audit'[i].by # 0
               PROVE  audit'[i].by \in DOMAIN events /\ audit'[i].to = Target(events[audit'[i].by])
    BY DEF ByItsTarget
  <2>1. CASE i \in 1..n
    BY <1>5, <2>1 DEF OrderInv, ByItsTarget
  <2>2. CASE i = n + 1
    BY <1>3, <1>5, <2>2
  <2> QED
    BY <1>5, <2>1, <2>2
<1>8. \A i, j \in 1..n : ByEvents(i, j)' => ByEvents(i, j)
  <2> SUFFICES ASSUME NEW i \in 1..n, NEW j \in 1..n, ByEvents(i, j)'
               PROVE  ByEvents(i, j)
    OBVIOUS
  <2>1. \A k \in i..j : k \in 1..n
    BY <1>5
  <2> QED
    BY <1>5, <2>1 DEF ByEvents
<1>9. \A i \in 1..n : ByEvents(i, n + 1)' => by # 0 /\ (i = n \/ ByEvents(i, n))
  <2> SUFFICES ASSUME NEW i \in 1..n, ByEvents(i, n + 1)'
               PROVE  by # 0 /\ (i = n \/ ByEvents(i, n))
    OBVIOUS
  <2>1. \A k \in i..(n + 1) : audit'[k].by # 0
    BY DEF ByEvents
  <2>2. n + 1 \in i..(n + 1)
    BY <1>5
  <2>3. by # 0
    BY <1>3, <1>5, <2>1, <2>2
  <2>4. \A k \in i..n : k \in 1..n /\ k \in i..(n + 1)
    BY <1>5
  <2>5. \A k \in i..n : audit[k].by # 0
    BY <1>5, <2>1, <2>4
  <2>6. i < n \/ i = n
    BY <1>5
  <2> QED
    BY <2>3, <2>5, <2>6 DEF ByEvents
<1>10. \A i, j \in DOMAIN audit' : i < j => i \in 1..n /\ (j \in 1..n \/ j = n + 1)
  BY <1>5
<1>11. ByEvents(n + 1, n + 1)' => FALSE
  BY <1>5 DEF ByEvents
<1>12. by # 0 /\ n # 0 => Rank(audit[n].to) < Rank(to)
  <2> SUFFICES ASSUME by # 0, n # 0 PROVE Rank(audit[n].to) < Rank(to)
    OBVIOUS
  <2>1. audit # <<>>
    BY <1>5
  <2>2. status = audit[n].to
    BY <1>n, <2>1 DEF OrderInv, StatusIsLast
  <2>3. events[by] \in EventTypes
    BY DEF TypeInv, TypeOK, TopicsTypeOK
  <2> QED
    BY <1>2, <2>2, <2>3, EventRaisesRank
<1>13. EventsMoveAhead'
  <2> SUFFICES ASSUME NEW i \in DOMAIN audit', NEW j \in DOMAIN audit', ByEvents(i, j)'
               PROVE  Rank(audit'[i].to) < Rank(audit'[j].to)
    BY DEF EventsMoveAhead
  <2>1. i < j
    BY DEF ByEvents
  <2>2. i \in 1..n /\ audit'[i] = audit[i]
    BY <1>5, <1>10, <2>1
  <2>3. CASE j \in 1..n
    BY <1>5, <1>8, <2>2, <2>3 DEF OrderInv, EventsMoveAhead
  <2>4. CASE j = n + 1
    <3>1. by # 0 /\ (i = n \/ ByEvents(i, n))
      BY <1>9, <2>2, <2>4
    <3>2. n \in 1..n
      BY <1>5, <2>2
    <3>3. Rank(audit[n].to) < Rank(to)
      BY <1>5, <1>12, <2>2, <3>1
    <3>4. i = n \/ Rank(audit[i].to) < Rank(audit[n].to)
      BY <1>5, <2>2, <3>1, <3>2 DEF OrderInv, EventsMoveAhead
    <3>5. Rank(audit[i].to) < Rank(to)
      BY <3>3, <3>4, RankIsNat
    <3> QED
      BY <1>3, <1>5, <2>2, <2>4, <3>5
  <2> QED
    BY <1>10, <2>1, <2>3, <2>4
<1>14. EventsInTurn'
  <2> SUFFICES ASSUME restarts = 0, NEW i \in DOMAIN audit', NEW j \in DOMAIN audit',
                      ByEvents(i, j)'
               PROVE  audit'[i].by < audit'[j].by
    BY DEF EventsInTurn
  <2>1. i < j
    BY DEF ByEvents
  <2>2. i \in 1..n /\ audit'[i] = audit[i]
    BY <1>5, <1>10, <2>1
  <2>3. CASE j \in 1..n
    BY <1>5, <1>8, <2>2, <2>3 DEF OrderInv, EventsInTurn
  <2>4. CASE j = n + 1
    <3>1. by # 0
      BY <1>9, <2>2, <2>4
    <3>2. audit[i].by <= by
      BY <1>5, <2>2, <3>1
    <3>3. audit[i].by # by
      <4>1. audit'[i].by # 0
        <5>1. i \in i..j
          BY <1>5, <2>1, <2>2, <2>4
        <5> QED
          BY <5>1 DEF ByEvents
      <4>2. audit[i].to = Target(events[audit[i].by])
        BY <1>5, <2>2, <4>1 DEF OrderInv, ByItsTarget
      <4>3. Rank(audit[i].to) < Rank(to)
        BY <1>3, <1>5, <1>13, <2>2, <2>4 DEF EventsMoveAhead
      <4> QED
        BY <3>1, <4>2, <4>3, RankIsNat
    <3>4. audit[i].by \in Nat /\ by \in Nat
      BY <1>4, <1>5, <2>2
    <3>5. audit[i].by < by
      BY <3>2, <3>3, <3>4
    <3> QED
      BY <1>3, <1>5, <2>2, <2>4, <3>5
  <2> QED
    BY <1>10, <2>1, <2>3, <2>4
<1> QED
  BY <1>6, <1>7, <1>13, <1>14

\* While the partition stays where it is, a consumer's step keeps the turns.
LEMMA ConsumerInTurn ==
  ASSUME TypeInv, OrderInv, NEW c \in Consumers, ApiStep(c) \/ ApiFails(c), UNCHANGED restarts
  PROVE  OwnerWorksInTurn'
<1> SUFFICES ASSUME restarts = 0
             PROVE  /\ \A d \in Consumers :
                         handler'[d].pc # "idle" =>
                           d = eventOwner' /\ handler'[d].event = eventOffset' + 1
                    /\ \A e \in eventsProcessed' : e <= eventOffset' + 1
  BY DEF OwnerWorksInTurn
<1>0. ApiTypeOK /\ eventOffset \in Nat /\ eventsProcessed \subseteq Nat
  <2>1. ApiTypeOK /\ TopicsTypeOK
    BY DEF TypeInv, TypeOK
  <2>2. Len(events) \in Nat /\ DOMAIN events = 1..Len(events)
    BY <2>1 DEF TopicsTypeOK
  <2>3. eventOffset \in 0..Len(events) /\ eventsProcessed \subseteq DOMAIN events
    BY <2>1 DEF ApiTypeOK
  <2> QED
    BY <2>1, <2>2, <2>3
<1>1. /\ \A d \in Consumers :
           handler[d].pc # "idle" => d = eventOwner /\ handler[d].event = eventOffset + 1
      /\ \A e \in eventsProcessed : e <= eventOffset + 1
  BY DEF OrderInv, OwnerWorksInTurn
<1>2. PICK h \in HandlerType :
        /\ handler' = [handler EXCEPT ![c] = h]
        /\ \/ h = Waiting
           \/ h.event = handler[c].event /\ handler[c].pc # "idle"
           \/ h.pc = "mark" /\ h.event = eventOffset + 1 /\ DeliverEvent(c)
  BY ConsumerMovesOn
<1>3. /\ handler'[c] = h
      /\ \A d \in Consumers \ {c} : handler'[d] = handler[d]
  BY <1>0, <1>2, ConsumerMoves
<1>4. UNCHANGED eventOwner
  BY DEF ApiStep, ApiFails, DeliverEvent, MarkEvent, MarkEventFails, Attempt, AttemptRefused,
         AttemptFails, Relay, DeadLetterEvent, DeadLetterEventFails
<1>5. c = eventOwner
  <2>1. DeliverEvent(c) => c = eventOwner
    BY DEF DeliverEvent
  <2>2. DeliverEvent(c) \/ handler[c].pc # "idle"
    BY DEF ApiStep, ApiFails, DeliverEvent, MarkEvent, MarkEventFails, Attempt, AttemptRefused,
         AttemptFails, Relay, DeadLetterEvent, DeadLetterEventFails, HandlerAt
  <2> QED
    BY <1>1, <2>1, <2>2
<1>6. eventOffset' \in {eventOffset, eventOffset + 1}
  <2>1. UNCHANGED eventOffset \/ (handler[c].pc # "idle" /\ eventOffset' = handler[c].event)
    BY DEF ApiStep, ApiFails, DeliverEvent, MarkEvent, MarkEventFails, Attempt, AttemptRefused,
         AttemptFails, Relay, DeadLetterEvent, DeadLetterEventFails, HandlerAt, Resolve, Throw
  <2> QED
    BY <1>1, <2>1
<1>7. UNCHANGED eventOffset \/ handler' = [handler EXCEPT ![c] = Waiting]
  BY DEF ApiStep, ApiFails, DeliverEvent, MarkEvent, MarkEventFails, Attempt, AttemptRefused,
         AttemptFails, Relay, DeadLetterEvent, DeadLetterEventFails, Resolve, Throw
<1>8. handler'[c].pc = "idle" \/ (UNCHANGED eventOffset /\ handler'[c].event = eventOffset + 1)
  <2>1. CASE handler' = [handler EXCEPT ![c] = Waiting]
    BY <1>0, <2>1 DEF ApiTypeOK, Waiting
  <2>2. CASE UNCHANGED eventOffset
    BY <1>1, <1>2, <1>3, <2>2 DEF Waiting
  <2> QED
    BY <1>7, <2>1, <2>2
<1>9. \A d \in Consumers \ {c} : handler[d].pc = "idle"
  BY <1>1, <1>5
<1>10. \A d \in Consumers :
         handler'[d].pc # "idle" => d = eventOwner' /\ handler'[d].event = eventOffset' + 1
  BY <1>3, <1>4, <1>5, <1>8, <1>9
<1>11. \A e \in eventsProcessed' : e <= eventOffset + 1 /\ e \in Nat
  <2>1. \/ UNCHANGED eventsProcessed
        \/ handler[c].pc # "idle" /\ eventsProcessed' = eventsProcessed \cup {handler[c].event}
    BY DEF ApiStep, ApiFails, DeliverEvent, MarkEvent, MarkEventFails, Attempt, AttemptRefused,
         AttemptFails, Relay, DeadLetterEvent, DeadLetterEventFails, HandlerAt
  <2>2. \A e \in eventsProcessed' : e \in eventsProcessed \/ e = eventOffset + 1
    BY <1>1, <2>1
  <2>3. eventOffset + 1 <= eventOffset + 1 /\ eventOffset + 1 \in Nat
    BY <1>0
  <2> QED
    BY <1>0, <1>1, <2>2, <2>3
<1>12. \A e \in eventsProcessed' : e <= eventOffset' + 1
  BY <1>0, <1>6, <1>11
<1> QED
  BY <1>10, <1>12

\* A consumer's step: if it moves the mission, by the event whose turn it is.
LEMMA ConsumerInOrder ==
  ASSUME TypeInv, AccountInv, OrderInv, NEW c \in Consumers, ApiStep(c) \/ ApiFails(c),
         UNCHANGED <<events, restarts>>
  PROVE  OrderInv'
<1>1. OwnerWorksInTurn'
  BY ConsumerInTurn
<1>2. CASE UNCHANGED <<status, audit>>
  <2>1. StatusIsLast' /\ ByItsTarget' /\ EventsMoveAhead' /\ EventsInTurn'
    BY <1>2 DEF OrderInv, StatusIsLast, ByItsTarget, EventsMoveAhead, EventsInTurn, ByEvents
  <2> QED
    BY <1>1, <2>1 DEF OrderInv
<1>3. CASE handler[c].pc # "idle" /\ Transition(handler[c].event, TargetOf(c))
  <2>1. handler[c].event \in DOMAIN events /\ TargetOf(c) \in Statuses
    BY <1>3, TriedIsEvent
  <2>2. handler[c].event \in 0..Len(events) /\ Len(events) \in Nat
    BY DEF TypeInv, TypeOK, ApiTypeOK, TopicsTypeOK
  <2>3. restarts = 0 => \A i \in DOMAIN audit : audit[i].by <= handler[c].event
    <3>1. restarts = 0 => /\ handler[c].event = eventOffset + 1
                          /\ \A e \in eventsProcessed : e <= eventOffset + 1
      BY <1>3 DEF OrderInv, OwnerWorksInTurn
    <3>2. \A i \in DOMAIN audit : audit[i].by \in eventsProcessed \/ audit[i].by = 0
      BY DEF AccountInv, MarkedFirst
    <3>3. 0 <= handler[c].event
      BY <2>2
    <3> QED
      BY <3>1, <3>2, <3>3
  <2>4. StatusIsLast' /\ ByItsTarget' /\ EventsMoveAhead' /\ EventsInTurn'
    BY <1>3, <2>1, <2>2, <2>3, OrderTransition DEF TargetOf
  <2> QED
    BY <1>1, <2>4 DEF OrderInv
<1>4. UNCHANGED <<status, audit>>
      \/ (handler[c].pc # "idle" /\ Transition(handler[c].event, TargetOf(c)))
  BY DEF ApiStep, ApiFails, DeliverEvent, MarkEvent, MarkEventFails, Attempt, AttemptRefused,
         AttemptFails, Relay, DeadLetterEvent, DeadLetterEventFails, HandlerAt
<1> QED
  BY <1>2, <1>3, <1>4

\* An operator's transition is nobody's turn.
LEMMA OperatorInOrder ==
  ASSUME TypeInv, OrderInv, NEW to \in Statuses, Transition(0, to),
         UNCHANGED <<events, restarts, handler, eventOwner, eventOffset, eventsProcessed>>
  PROVE  OrderInv'
<1>1. 0 \in 0..Len(events)
  <2>1. Len(events) \in Nat
    BY DEF TypeInv, TypeOK, TopicsTypeOK
  <2> QED
    BY <2>1
<1>2. StatusIsLast' /\ ByItsTarget' /\ EventsMoveAhead' /\ EventsInTurn'
  BY <1>1, OrderTransition
<1>3. OwnerWorksInTurn'
  BY DEF OrderInv, OwnerWorksInTurn
<1> QED
  BY <1>2, <1>3 DEF OrderInv

\* Every step keeps the order of the audit trail.
LEMMA NextOrderInv == TypeInv /\ AccountInv /\ OrderInv /\ [Next]_vars => OrderInv'
<1> SUFFICES ASSUME TypeInv, AccountInv, OrderInv, [Next]_vars PROVE OrderInv'
  OBVIOUS
<1>1. CASE Submit
  <2>1. "QUEUED" \in Statuses
    BY DEF Statuses
  <2> QED
    BY <1>1, <2>1, OperatorInOrder DEF Submit
<1>2. ASSUME NEW to \in Statuses, OperatorTransitions(to)
      PROVE  OrderInv'
  BY <1>2, OperatorInOrder DEF OperatorTransitions
<1>3. CASE DeliverCopy \/ UNCHANGED vars
  BY <1>3, OrderFrame DEF DeliverCopy, vars, apiVars
<1>4. CASE Vision
  <2>1. SharedGrows
    BY <1>4, WorkerShares DEF Vision, TypeInv, TypeOK
  <2>2. DOMAIN events \subseteq DOMAIN events'
    <3>1. /\ DOMAIN events = 1..Len(events) /\ DOMAIN events' = 1..Len(events')
          /\ Len(events) \in Nat /\ Len(events') \in Nat /\ Len(events) <= Len(events')
      BY <2>1 DEF SharedGrows, TypeInv, TypeOK, TopicsTypeOK
    <3> QED
      BY <3>1
  <2>3. UNCHANGED <<restarts, status, audit, handler, eventOwner, eventOffset, eventsProcessed>>
    BY <1>4 DEF Vision, apiVars
  <2> QED
    BY <2>1, <2>2, <2>3, OrderFrame DEF SharedGrows
<1>5. CASE Api
  BY <1>5, ConsumerInOrder DEF Api
<1>6. CASE Restart
  <2>1. restarts' # 0
    <3>1. restarts \in Nat
      BY MaxRestartsAssumption DEF TypeInv, TypeOK
    <3> QED
      BY <1>6, <3>1 DEF Restart
  <2>2. UNCHANGED <<events, status, audit>>
    BY <1>6 DEF Restart, apiVars, ReassignEvents, KillConsumer
  <2> QED
    BY <2>1, <2>2, OrderRestart
<1> QED
  BY <1>1, <1>2, <1>3, <1>4, <1>5, <1>6 DEF Next

-----------------------------------------------------------------------------
ProcessingInv == TypeInv /\ VisionInv /\ AccountInv /\ OrderInv

\* The inductive invariant holds always.
THEOREM ProcessingInvariant == Spec => []ProcessingInv
<1>1. Init => ProcessingInv
  BY InitTypeInv, InitVisionInv, InitAccountInv, InitOrderInv DEF ProcessingInv
<1>2. ProcessingInv /\ [Next]_vars => ProcessingInv'
  BY NextTypeInv, NextVisionInv, NextAccountInv, NextOrderInv DEF ProcessingInv
<1> QED
  BY <1>1, <1>2, PTL DEF Spec

\* Topics, consumers and the mission stay in their domains.
THEOREM ProcessingTypeCorrect == Spec => []TypeOK
<1>1. ProcessingInv => TypeOK
  BY DEF ProcessingInv, TypeInv
<1> QED
  BY <1>1, ProcessingInvariant, PTL

\* REQ-3.8: the command runs at most once, whatever is delivered again and
\* whoever is killed (commands_consumer.py).
THEOREM CommandRunsAtMostOnce == Spec => []CommandRunsOnce
<1>1. ProcessingInv => CommandRunsOnce
  BY DEF ProcessingInv, VisionInv, MarkedBeforeRun, CommandRunsOnce
<1> QED
  BY <1>1, ProcessingInvariant, PTL

\* REQ-5.6, 5.7: a completion is announced only after the detections and the
\* annotated video are out (commands_consumer.py).
THEOREM CompletionAfterOutput == Spec => []CompletionHasOutput
<1>1. ProcessingInv => CompletionHasOutput
  BY DEF ProcessingInv, VisionInv
<1> QED
  BY <1>1, ProcessingInvariant, PTL

\* REQ-6.5: a browser is told of an event only after the mission moved by it
\* (processing-events.handler.ts).
THEOREM RelayAfterTransition == Spec => []RelayedWasApplied
<1>1. ProcessingInv => RelayedWasApplied
  BY DEF ProcessingInv, AccountInv
<1> QED
  BY <1>1, ProcessingInvariant, PTL

\* REQ-3.9: an event that is marked is in hand, has moved the mission, or is
\* dead-lettered, unless the code gave it up (processing-events.handler.ts).
THEOREM MarkedEventsAreAccounted == Spec => []NoEventVanishes
<1>1. ProcessingInv => NoEventVanishes
  <2> SUFFICES ASSUME AccountInv, NEW e \in eventsProcessed,
                      ~Applied(e), e \notin deadLetters, ~dropped
               PROVE  InHand(e)
    BY DEF ProcessingInv, NoEventVanishes
  <2>1. PICK c \in Consumers : Holds(c, e)
    BY DEF AccountInv, Accounted
  <2> QED
    BY <2>1 DEF Holds, Holding, InHand
<1> QED
  BY <1>1, ProcessingInvariant, PTL

\* REQ-3.8: an event that moved the mission becomes a dead letter only if a
\* call's answer was lost (processing-events.handler.ts).
THEOREM DeadLettersHadNoEffect == Spec => []DeadLettersAreUnapplied
<1>1. ProcessingInv => DeadLettersAreUnapplied
  BY DEF ProcessingInv, AccountInv
<1> QED
  BY <1>1, ProcessingInvariant, PTL

\* REQ-3.2, 3.8: between two operator actions no event moves the mission twice,
\* and without a restart the events that do move it do so in their order
\* (mission-state-machine.ts, processing-events.handler.ts).
THEOREM EventsMoveOnce == Spec => []EventsAppliedOnce
<1>1. ProcessingInv => EventsAppliedOnce
  <2> SUFFICES ASSUME OrderInv, NEW i \in DOMAIN audit, NEW j \in DOMAIN audit,
                      i < j, \A k \in i..j : audit[k].by # 0, TypeInv
               PROVE  /\ audit[i].by # audit[j].by
                      /\ restarts = 0 => audit[i].by < audit[j].by
    BY DEF ProcessingInv, EventsAppliedOnce
  <2>1. ByEvents(i, j)
    BY DEF ByEvents
  <2>2. i \in Nat /\ j \in Nat
    <3>1. Len(audit) \in Nat /\ DOMAIN audit = 1..Len(audit)
      BY DEF TypeInv, TypeOK, ApiTypeOK
    <3> QED
      BY <3>1
  <2>3. i \in i..j /\ j \in i..j
    BY <2>2
  <2>4. /\ audit[i].to = Target(events[audit[i].by])
        /\ audit[j].to = Target(events[audit[j].by])
    BY <2>3 DEF OrderInv, ByItsTarget
  <2>5. Rank(audit[i].to) < Rank(audit[j].to)
    BY <2>1 DEF OrderInv, EventsMoveAhead
  <2>6. audit[i].by # audit[j].by
    BY <2>4, <2>5, RankIsNat
  <2> QED
    BY <2>1, <2>6 DEF OrderInv, EventsInTurn
<1> QED
  BY <1>1, ProcessingInvariant, PTL
=============================================================================
