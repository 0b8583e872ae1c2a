--------------------------- MODULE MCTransaction ---------------------------
(* Small instances of Transaction for TLC. *)
EXTENDS Transaction, TLC

\* Heap cells are interchangeable.
Symmetry == Permutations(TxnId)

\* No action reads "configured", and only AppliedWasConfigured is about it: the
\* other runs need not tell apart states that differ in nothing else.  Nor does any
\* depend on the geometry of a toplevel while it is on no workspace, when a grab may
\* still give it any.
Seen(top) ==
  [top EXCEPT !.configured = ZeroBox,
              !.geometry = IF top.phase = "mapped" /\ top.homed THEN @ ELSE ZeroBox]

\* Only FreedHasLeft reads the history of a transaction, and only of the current one,
\* and which members came late only if no other was alive meanwhile.  A hole counts
\* once there is no member, and the last member to go leaves one.
Remembered(t) ==
  [txns[t] EXCEPT !.overlapped = @ /\ t = active,
                  !.late = IF t = active /\ ~txns[t].overlapped THEN @ ELSE {},
                  !.holes = @ /\ Members(txns[t]) = {}]

Distinct == <<[t \in TxnId |-> Remembered(t)], active,
              [tl \in Toplevels |-> Seen(tops[tl])]>>
=============================================================================
