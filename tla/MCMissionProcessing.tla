------------------------ MODULE MCMissionProcessing ------------------------
(* Model values for checking MissionProcessing with TLC. *)
EXTENDS MissionProcessing
=============================================================================
