------------------------------ MODULE MCFocus ------------------------------
(* Small instances of Focus for TLC. *)
EXTENDS Focus, TLC

Symmetry ==
  Permutations(Outputs) \cup Permutations(Windows) \cup Permutations(Lockers)
=============================================================================
