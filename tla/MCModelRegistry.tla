--------------------------- MODULE MCModelRegistry ---------------------------
(* Model values and symmetry for checking ModelRegistry with TLC. *)
EXTENDS ModelRegistry, TLC

Symmetry == Permutations(Requests) \cup Permutations(Models)
=============================================================================
