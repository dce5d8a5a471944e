----------------------------- MODULE MCMissions -----------------------------
(* Model values and symmetry for checking Missions with TLC. *)
EXTENDS Missions, TLC

Symmetry == Permutations(Requests) \cup Permutations(Videos)
=============================================================================
