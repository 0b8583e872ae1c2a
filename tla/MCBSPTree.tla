----------------------------- MODULE MCBSPTree -----------------------------
(* Small instances of BSPTree for TLC. *)
EXTENDS BSPTree, TLC

Symmetry == Permutations(Toplevels)

\* A usable area below a panel, of odd width.
MCBounds == [x |-> 0, y |-> 1, width |-> 7, height |-> 6]

\* Before, in the middle of and beyond the area.
MCCursors ==
  {[x |-> 2, y |-> 3], [x |-> 4, y |-> 4], [x |-> 9, y |-> 9]}

MCEdges == {{"right", "bottom"}, {"left", "top"}}

\* No step depends on the geometry of a node, which each layout computes anew,
\* and after a read of freed memory there is nothing left to tell apart.
Shape ==
  <<method, freed,
    IF freed THEN << >>
    ELSE [p \in DOMAIN tree |-> <<tree[p].split, tree[p].ratio, tree[p].toplevel>>]>>
=============================================================================
