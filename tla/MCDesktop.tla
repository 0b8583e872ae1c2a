----------------------------- MODULE MCDesktop -----------------------------
(* Small instances of Desktop for TLC. *)
EXTENDS Desktop, TLC

Symmetry == Permutations(Names) \cup Permutations(Windows \ XWayland)
=============================================================================
