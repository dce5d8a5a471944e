---------------------------- MODULE EdgeDelivery ----------------------------
(***************************************************************************)
(* What the edge agent and POST /edge/events promise together, whatever    *)
(* the network, the restarts and the timers between them do: the device    *)
(* lets go of an event only after the platform has accepted it, and the    *)
(* platform forwards it at most once.  An accepted event is then either    *)
(* forwarded or dropped, never both.                                       *)
(***************************************************************************)
EXTENDS Naturals

CONSTANT Events

VARIABLES
  held,       \* events the device still has to deliver
  accepted,   \* events the platform will never accept again
  forwarded,  \* how often each was handed to the outbox
  dropped     \* accepted events that will never be forwarded

vars == <<held, accepted, forwarded, dropped>>

Init ==
  /\ held = {}
  /\ accepted = {}
  /\ forwarded = [e \in Events |-> 0]
  /\ dropped = {}

Record(e) ==
  /\ e \notin held \cup accepted
  /\ held' = held \cup {e}
  /\ UNCHANGED <<accepted, forwarded, dropped>>

Accept(e) ==
  /\ e \in held \ accepted
  /\ accepted' = accepted \cup {e}
  /\ \/ UNCHANGED dropped
     \/ dropped' = dropped \cup {e}
  /\ UNCHANGED <<held, forwarded>>

Forward(e) ==
  /\ e \in accepted \ dropped
  /\ forwarded[e] = 0
  /\ forwarded' = [forwarded EXCEPT ![e] = 1]
  /\ UNCHANGED <<held, accepted, dropped>>

Drop(S) ==
  /\ S \subseteq accepted
  /\ \A e \in S : forwarded[e] = 0
  /\ dropped' = dropped \cup S
  /\ UNCHANGED <<held, accepted, forwarded>>

Release(S) ==
  /\ S \subseteq accepted
  /\ held' = held \ S
  /\ UNCHANGED <<accepted, forwarded, dropped>>

Next ==
  \/ \E e \in Events : Record(e) \/ Accept(e) \/ Forward(e)
  \/ \E S \in SUBSET Events : Drop(S) \/ Release(S)

Spec == Init /\ [][Next]_vars
=============================================================================
