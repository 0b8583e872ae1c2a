---------------------------- MODULE MCWorkspace ----------------------------
(* Small instances of Workspace for TLC. *)
EXTENDS Workspace, TLC

Symmetry == Permutations(Toplevels)

\* No step reads "sized", and "fresh" decides nothing else: only Sized tells
\* apart states that differ in no more than these two.
WithoutBoxes ==
  <<method, [tl \in Toplevels |-> [tops[tl] EXCEPT !.fresh = FALSE, !.sized = TRUE]],
    active, auto, pending, dirty, busy>>
=============================================================================
