------------------------------- MODULE Lists -------------------------------
(***************************************************************************)
(* Lists from which elements are taken: wl_list and std::list.             *)
(*                                                                         *)
(* A recursive function where SelectSeq would do for TLC: what it keeps    *)
(* follows by induction over its domain, see ListProofs.                   *)
(***************************************************************************)
EXTENDS Naturals, Sequences, Functions

\* The elements of s that are in S, in the order they had.
Filter(s, S) ==
  LET kept[i \in 0 .. Len(s)] ==
        IF i = 0 THEN << >>
        ELSE IF s[i] \in S THEN Append(kept[i - 1], s[i])
        ELSE kept[i - 1]
  IN kept[Len(s)]

\* s after e was taken from it.
Without(s, e) == Filter(s, Range(s) \ {e})
=============================================================================
