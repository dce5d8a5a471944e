----------------------------- MODULE MCEdgeSync -----------------------------
(* One device, two overlapping sync cycles, a short buffer, for TLC. *)
EXTENDS EdgeSync
=============================================================================
