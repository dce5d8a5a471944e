------------------------- MODULE MissionStateMachine -------------------------
(* The mission lifecycle, as apps/api's mission-state-machine.ts has it. *)

Statuses == {"DRAFT", "QUEUED", "PROCESSING", "COMPLETED", "FAILED"}

\* Mutant: a transition to the status the mission already has is accepted.
LegalTransitionsOrSame ==
  { <<"DRAFT", "QUEUED">>, <<"QUEUED", "PROCESSING">>,
    <<"PROCESSING", "PROCESSING">>, <<"PROCESSING", "COMPLETED">>,
    <<"PROCESSING", "FAILED">>, <<"FAILED", "QUEUED">> }

\* LEGAL_MISSION_TRANSITIONS.
LegalTransitions ==
  { <<"DRAFT", "QUEUED">>, <<"QUEUED", "PROCESSING">>,
    <<"PROCESSING", "COMPLETED">>, <<"PROCESSING", "FAILED">>,
    <<"FAILED", "QUEUED">> }

isLegalMissionTransition(from, to) == <<from, to>> \in LegalTransitions
=============================================================================
