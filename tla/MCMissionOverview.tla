-------------------------- MODULE MCMissionOverview --------------------------
(***************************************************************************)
(* MissionOverview with two telemetry files, the second one malformed.     *)
(***************************************************************************)
EXTENDS MissionOverview

Row(time, wrong) == [time |-> time, wrong |-> wrong]

MCFiles ==
  { [format |-> "geojson", rows |-> <<Row(10, "none"), Row(11, "optional"), Row(13, "none")>>],
    [format |-> "csv", rows |-> <<Row(11, "none"), Row(12, "optional")>>] }
=============================================================================
