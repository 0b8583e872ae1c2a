---------------------------- MODULE TilingOrder ----------------------------
(***************************************************************************)
(* What the tiling tree of a workspace promises: a sequence of windows, in *)
(* reading order.  A window enters and leaves it without disturbing the    *)
(* order of the others, and a swap exchanges two.                          *)
(***************************************************************************)
EXTENDS Naturals, Sequences, FiniteSets, Lists

CONSTANT Toplevels

VARIABLES
  method,  \* the tiling method
  order,   \* the windows that are tiled
  lost     \* freed memory was read: nothing is promised any more

vars == <<method, order, lost>>

Init ==
  /\ method \in {"bsp", "dwindle", "grid"}
  /\ order = << >>
  /\ lost = FALSE

Becomes(s) == order' = s /\ UNCHANGED <<method, lost>>

\* The first i windows, and the others.
First(i) == SubSeq(order, 1, i)
Others(i) == SubSeq(order, i + 1, Len(order))

Place(tl) ==
  /\ tl \notin Range(order)
  /\ \E i \in 0 .. Len(order) : Becomes(First(i) \o <<tl>> \o Others(i))

\* The dwindle method puts a new window last, and drops those of the others that
\* are maximized or fullscreen.
PlaceLast(tl) ==
  /\ method = "dwindle"
  /\ tl \notin Range(order)
  /\ \E cov \in SUBSET (Range(order) \cup {tl}) :
       Becomes(Filter(Append(order, tl), Toplevels \ cov))

Take(tl) ==
  \E i \in 1 .. Len(order) :
    order[i] = tl /\ Becomes(First(i - 1) \o Others(i))

Exchange(i, j) ==
  Becomes([order EXCEPT ![i] = order[j], ![j] = order[i]])

\* The grid is built anew from a list; so is the layout of a workspace that
\* starts to tile.
Arrange ==
  /\ method = "grid" \/ order = << >>
  /\ order' \in Seq(Toplevels)
  /\ IsInjective(order')
  /\ UNCHANGED <<method, lost>>

Clear == Becomes(<< >>)

Lose == lost' = TRUE /\ order' = << >> /\ UNCHANGED method

Next ==
  \/ \E tl \in Toplevels : Place(tl) \/ PlaceLast(tl) \/ Take(tl)
  \/ \E i, j \in 1 .. Len(order) : Exchange(i, j)
  \/ Arrange
  \/ Clear
  \/ Lose

Spec == Init /\ [][Next]_vars
=============================================================================
