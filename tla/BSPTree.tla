------------------------------ MODULE BSPTree ------------------------------
(***************************************************************************)
(* The tiling tree of a workspace: src/src/BSPTree.cpp.                    *)
(*                                                                         *)
(* A tree is a function from positions to nodes.  A position is the path   *)
(* from the root, a sequence of 1 (first_child) and 2 (second_child), so   *)
(* the parent pointers of the code are the prefixes of a position, and the *)
(* tree without a root is the function with the empty domain.              *)
(*                                                                         *)
(* Each method of BSPTree is an operator from a tree to a tree; the module *)
(* is also a state machine whose steps are the calls a workspace makes.    *)
(* A ratio is an exact fraction here, a float in the code.                 *)
(***************************************************************************)
EXTENDS Integers, Sequences, FiniteSets, Lists

CONSTANTS
  Toplevels,
  None,
  Bounds,     \* the usable area that is laid out
  Cursors,    \* where the cursor can be during an interactive resize
  Edges       \* the sets of edges a resize can drag

ASSUME BSPAssumption ==
  /\ None \notin Toplevels
  /\ IsFiniteSet(Toplevels)
  /\ Edges \subseteq SUBSET {"left", "right", "top", "bottom"}
  /\ Bounds \in [x : Int, y : Int, width : Nat, height : Nat]
  /\ Cursors \subseteq [x : Int, y : Int]

VARIABLES
  method,  \* config->tiling.method
  tree,    \* BSPTree::root and all below it
  freed    \* a subtree was read after it was freed (history)

vars == <<method, tree, freed>>

Ext == INSTANCE SequencesExt

-----------------------------------------------------------------------------
(* Trees *)

NoBox == [x |-> 0, y |-> 0, width |-> 0, height |-> 0]
Half == <<1, 2>>

Leaf(tl) ==
  [split |-> "none", ratio |-> Half, toplevel |-> tl, geometry |-> NoBox]
Container(split, ratio) ==
  [split |-> split, ratio |-> ratio, toplevel |-> None, geometry |-> NoBox]

NoTree == << >>
Root == << >>
Single(tl) == [p \in {Root} |-> Leaf(tl)]

\* The node with its two subtrees.
Join(node, T1, T2) ==
  [p \in {Root} \cup {<<1>> \o q : q \in DOMAIN T1}
                \cup {<<2>> \o q : q \in DOMAIN T2} |->
     IF p = Root THEN node
     ELSE IF Head(p) = 1 THEN T1[Tail(p)] ELSE T2[Tail(p)]]

IsLeaf(T, p) == T[p].split = "none"
Below(T, p) == {q \in DOMAIN T : Ext!IsPrefix(p, q)}

\* The leaves that hold a toplevel: count_leaves counts these.
Leaves(T, p) == {q \in Below(T, p) : IsLeaf(T, q) /\ T[q].toplevel # None}
Tiled(T) == {T[p].toplevel : p \in Leaves(T, Root)}

\* Reading order: the first child before the second.
Precedes(p, q) ==
  \E i \in 1 .. Len(p) :
    /\ i <= Len(q)
    /\ p[i] < q[i]
    /\ SubSeq(p, 1, i - 1) = SubSeq(q, 1, i - 1)

\* get_toplevels.  A first child is never missing.
Order(T) ==
  LET from[p \in DOMAIN T] ==
        IF IsLeaf(T, p)
        THEN IF T[p].toplevel = None THEN << >> ELSE <<T[p].toplevel>>
        ELSE from[p \o <<1>>]
               \o (IF p \o <<2>> \in DOMAIN T THEN from[p \o <<2>>] ELSE << >>)
  IN IF T = NoTree THEN << >> ELSE from[Root]

\* find_node: the first leaf with this toplevel.
Holding(T, tl) == {p \in Leaves(T, Root) : T[p].toplevel = tl}
NodeOf(T, tl) ==
  CHOOSE p \in Holding(T, tl) : \A q \in Holding(T, tl) \ {p} : Precedes(p, q)

-----------------------------------------------------------------------------
(* Insertion *)

CountLeaves(T, p) == Cardinality(Leaves(T, p))

\* The side with fewer leaves, the first on a tie; only the second child can be
\* missing.
LighterSide(T, p) ==
  IF \/ p \o <<2>> \notin DOMAIN T
     \/ CountLeaves(T, p \o <<1>>) <= CountLeaves(T, p \o <<2>>)
  THEN p \o <<1>> ELSE p \o <<2>>

\* find_insertion_point
InsertionPoint(T) ==
  LET from[p \in DOMAIN T] == IF IsLeaf(T, p) THEN p ELSE from[LighterSide(T, p)]
  IN from[Root]

\* determine_split_type: by the depth of the node.
SplitType(p) == IF Len(p) % 2 = 0 THEN "horizontal" ELSE "vertical"

\* The leaf p becomes a container of what it held and the new toplevel.
SplitLeaf(T, p, tl, split) ==
  [q \in DOMAIN T \cup {p \o <<1>>, p \o <<2>>} |->
     IF q = p
     THEN [Container(split, Half) EXCEPT !.geometry = T[p].geometry]
     ELSE IF q = p \o <<1>> THEN Leaf(T[p].toplevel)
     ELSE IF q = p \o <<2>> THEN Leaf(tl)
     ELSE T[q]]

\* insert
Insert(T, tl) ==
  IF T = NoTree THEN Single(tl)
  ELSE LET p == InsertionPoint(T) IN SplitLeaf(T, p, tl, SplitType(p))

\* insert_at
InsertAt(T, tl, target) ==
  IF T = NoTree \/ Holding(T, target) = {} THEN Insert(T, tl)
  ELSE LET p == NodeOf(T, target) IN SplitLeaf(T, p, tl, SplitType(p))

-----------------------------------------------------------------------------
(* Rebuilding *)

\* What rebuild*() keeps of the list it is given.
Shown(tls, cov) == Filter(tls, Toplevels \ cov)

\* rebuild
Rebuild(tls, cov) ==
  LET s == Shown(tls, cov)
      built[i \in 0 .. Len(s)] ==
        IF i = 0 THEN NoTree ELSE Insert(built[i - 1], s[i])
  IN built[Len(s)]

\* rebuild_dwindle: each window beside all that follow, the split alternating.  The
\* spiral of the last k.
RebuildDwindle(tls, cov) ==
  LET s == Shown(tls, cov)
      n == Len(s)
      spiral[k \in 0 .. n] ==
        IF k = 0 THEN NoTree
        ELSE IF k = 1 THEN Single(s[n])
        ELSE Join(Container(IF (n - k) % 2 = 0 THEN "horizontal" ELSE "vertical", Half),
                  Single(s[n - k + 1]), spiral[k - 1])
  IN spiral[n]

\* The dimensions of the grid of n windows, the rows being round(sqrt(n)).
Rows(n) == CHOOSE r \in 1 .. n : r * r - r + 1 <= n /\ n <= r * r + r
Cols(n) == (n + Rows(n) - 1) \div Rows(n)

\* A part of the grid: the windows start+1 .. end over the rows top+1 .. bottom.
Cells(n) ==
  [start : 0 .. n, end : 0 .. n, top : 0 .. Rows(n), bottom : 0 .. Rows(n)]

MidRow(c) == c.top + (c.bottom - c.top) \div 2

\* How many of the windows the upper half of the rows takes.
InFirst(c, cols) ==
  LET full == (MidRow(c) - c.top) * cols
  IN IF c.start + full > c.end THEN (c.end - c.start + 1) \div 2 ELSE full

\* The two parts of a part.
Upper(c, cols) == [c EXCEPT !.end = c.start + InFirst(c, cols), !.bottom = MidRow(c)]
Lower(c, cols) == [c EXCEPT !.start = @ + InFirst(c, cols), !.top = MidRow(c)]
LeftHalf(c) == [c EXCEPT !.end = c.start + (c.end - c.start) \div 2]
RightHalf(c) == [c EXCEPT !.start = @ + (c.end - c.start) \div 2]

\* rebuild_grid
RebuildGrid(tls, cov) ==
  LET s == Shown(tls, cov)
      n == Len(s)
      cols == Cols(n)
      grid[c \in Cells(n)] ==
        IF c.end <= c.start THEN Single(None)
        ELSE IF c.end - c.start = 1 THEN Single(s[c.start + 1])
        ELSE IF c.bottom - c.top > 1
        THEN Join(Container("horizontal", <<InFirst(c, cols), c.end - c.start>>),
                  grid[Upper(c, cols)], grid[Lower(c, cols)])
        ELSE Join(Container("vertical", Half), grid[LeftHalf(c)], grid[RightHalf(c)])
  IN IF n = 0 THEN NoTree
     ELSE grid[[start |-> 0, end |-> n, top |-> 0, bottom |-> Rows(n)]]

\* insert_at_dwindle: beside the target, or else a new spiral.
InsertAtDwindle(T, tl, target, cov) ==
  IF T = NoTree THEN Single(tl)
  ELSE IF Holding(T, target) = {} THEN RebuildDwindle(Append(Order(T), tl), cov)
  ELSE SplitLeaf(T, NodeOf(T, target), tl, "horizontal")

-----------------------------------------------------------------------------
(* Removal *)

Parent(p) == Ext!Front(p)
Sibling(p) == Parent(p) \o <<3 - Ext!Last(p)>>

\* The path from p down to q.
Down(p, q) == SubSeq(q, Len(p) + 1, Len(q))

\* The node at p with all below it.
Subtree(T, p) == [x \in {Down(p, q) : q \in Below(T, p)} |-> T[p \o x]]

\* S in the place of what was at p and below.
Replace(T, p, S) ==
  [q \in (DOMAIN T \ Below(T, p)) \cup {p \o x : x \in DOMAIN S} |->
     IF Ext!IsPrefix(p, q) THEN S[Down(p, q)] ELSE T[q]]

\* Mutant: the sibling's children stay where they were.
GraftNodeOnly(T, p) ==
  [q \in DOMAIN T \ {p, Sibling(p)} |->
     IF q = Parent(p) THEN T[Sibling(p)] ELSE T[q]]

\* The sibling of p takes the place of their parent, with all below it.  Below
\* the root the node itself moves; the root keeps its own geometry.
Graft(T, p) ==
  LET S == Subtree(T, Sibling(p))
  IN Replace(T, Parent(p),
       IF Parent(p) = Root THEN [S EXCEPT ![Root].geometry = T[Root].geometry] ELSE S)

\* The root takes over its first child by moving that child's first_child into
\* its own, which frees the child and all else below it, and then reads the freed
\* child's second_child.  (Of a leaf that is null before and after.)
ReadsFreed(T, p) ==
  /\ p = <<2>>
  /\ <<1>> \in DOMAIN T
  /\ ~IsLeaf(T, <<1>>)

\* Mutant: the tree is built anew from the others.
RemovedByRebuild(T, tl) ==
  {Rebuild(Without(Order(T), tl), {})}

\* remove: the trees it may leave.  What was freed reads as it was, or as null.
Removed(T, tl) ==
  IF Holding(T, tl) = {} THEN {T}
  ELSE LET p == NodeOf(T, tl)
           g == Graft(T, p)
       IN IF p = Root THEN {NoTree}
          ELSE IF Sibling(p) \notin DOMAIN T
          THEN {[T EXCEPT ![p].toplevel = None]}
          ELSE IF ReadsFreed(T, p)
          THEN {g, [q \in DOMAIN g \ Below(g, <<2>>) |-> g[q]]}
          ELSE {g}

-----------------------------------------------------------------------------
(* Layout and resize *)

\* Mutant: the second child is moved, not shrunk.
PartMoved(node, b, side) ==
  LET w == (b.width * node.ratio[1]) \div node.ratio[2]
      h == (b.height * node.ratio[1]) \div node.ratio[2]
  IN CASE node.split = "horizontal" /\ side = 1 -> [b EXCEPT !.width = w]
       [] node.split = "horizontal" /\ side = 2 -> [b EXCEPT !.x = @ + w]
       [] node.split = "vertical" /\ side = 1 -> [b EXCEPT !.height = h]
       [] node.split = "vertical" /\ side = 2 -> [b EXCEPT !.y = @ + h]

\* The part of a container's box that goes to a child.
Part(node, b, side) ==
  LET w == (b.width * node.ratio[1]) \div node.ratio[2]
      h == (b.height * node.ratio[1]) \div node.ratio[2]
  IN CASE node.split = "horizontal" /\ side = 1 -> [b EXCEPT !.width = w]
       [] node.split = "horizontal" /\ side = 2 ->
            [b EXCEPT !.x = @ + w, !.width = @ - w]
       [] node.split = "vertical" /\ side = 1 -> [b EXCEPT !.height = h]
       [] node.split = "vertical" /\ side = 2 ->
            [b EXCEPT !.y = @ + h, !.height = @ - h]

\* calculate_layout
Layout(T, bounds) ==
  LET box[p \in DOMAIN T] ==
        IF p = Root THEN bounds
        ELSE Part(T[Parent(p)], box[Parent(p)], Ext!Last(p))
  IN [p \in DOMAIN T |-> [T[p] EXCEPT !.geometry = box[p]]]

\* The edge a child has in common with its sibling.
InnerEdge(split, side) ==
  CASE split = "horizontal" /\ side = 1 -> "right"
    [] split = "horizontal" /\ side = 2 -> "left"
    [] split = "vertical" /\ side = 1 -> "bottom"
    [] split = "vertical" /\ side = 2 -> "top"

Across(split) ==
  IF split = "horizontal" THEN {"top", "bottom"} ELSE {"left", "right"}

\* Mutant: no limits.
Unclamped(r) == r

\* adjust_ratio
Clamped(r) ==
  IF 10 * r[1] < r[2] THEN <<1, 10>>
  ELSE IF 10 * r[1] > 9 * r[2] THEN <<9, 10>> ELSE r

\* calculate_ratio_from_cursor, of the container at p.
CursorRatio(T, p, c) ==
  IF T[p].split = "horizontal"
  THEN <<c.x - T[p].geometry.x, T[p].geometry.width>>
  ELSE <<c.y - T[p].geometry.y, T[p].geometry.height>>

\* handle_interactive_resize.  Going up from the node, "dragged" are the edges
\* that still count: those across the split, and the inner one.
Resize(T, tl, edges, c) ==
  LET L == Layout(T, Bounds)
      p == NodeOf(L, tl)
      at(i) == SubSeq(p, 1, i)
      inner(i) == InnerEdge(L[at(i)].split, p[i + 1])
      dragged[i \in 0 .. Len(p)] ==
        IF i = Len(p) THEN edges
        ELSE dragged[i + 1] \cap (Across(L[at(i)].split) \cup {inner(i)})
      adjusted == {i \in 0 .. Len(p) - 1 :
                     /\ inner(i) \in dragged[i + 1]
                     /\ CursorRatio(L, at(i), c)[1] >= 0
                     /\ CursorRatio(L, at(i), c)[2] > 0}
  IN [q \in DOMAIN L |->
        IF \E i \in adjusted : q = at(i)
        THEN [L[q] EXCEPT !.ratio = Clamped(CursorRatio(L, q, c))]
        ELSE L[q]]

\* Mutant: the second assignment is forgotten.
SwapOneWay(T, a, b) == [T EXCEPT ![NodeOf(T, a)].toplevel = b]

\* Workspace::swap, of two leaves.
Swap(T, a, b) ==
  LET p == NodeOf(T, a)
      q == NodeOf(T, b)
  IN [T EXCEPT ![p].toplevel = b, ![q].toplevel = a]

-----------------------------------------------------------------------------
(* The calls a workspace makes *)

\* The lists of toplevels a workspace can hand over.
Handed ==
  {s \in UNION {[1 .. n -> Toplevels] : n \in 0 .. Cardinality(Toplevels)} :
     IsInjective(s)}

Init ==
  /\ method \in {"bsp", "dwindle", "grid"}
  /\ tree = NoTree
  /\ freed = FALSE

Becomes(T) == tree' = T /\ UNCHANGED <<method, freed>>

\* Workspace::add_toplevel and a floating toplevel that tiles again.  The
\* "active" one they pass as the target is the new toplevel itself.
Add(tl) ==
  /\ tl \notin Tiled(tree)
  /\ \/ /\ method = "bsp"
        /\ Becomes(InsertAt(tree, tl, tl))
     \/ /\ method = "dwindle"
        /\ \E cov \in SUBSET (Tiled(tree) \cup {tl}) :
             Becomes(InsertAtDwindle(tree, tl, tl, cov))

\* A toplevel that is no longer maximized or fullscreen, whatever the method.
Restore(tl) ==
  /\ tl \notin Tiled(tree)
  /\ Becomes(Insert(tree, tl))

\* A toplevel that closes, moves away, floats or is maximized.
Remove(tl) ==
  /\ tl \in Tiled(tree)
  /\ tree' \in Removed(tree, tl)
  /\ freed' = (freed \/ ReadsFreed(tree, NodeOf(tree, tl)))
  /\ UNCHANGED method

\* With the grid most changes rebuild the tree from the workspace's list.
Regrid ==
  /\ method = "grid"
  /\ \E list \in Handed : Becomes(RebuildGrid(list, {}))

\* Workspace::toggle_auto_tile: on, with a new tree, and off.
ToggleOn ==
  /\ tree = NoTree
  /\ \E list \in Handed :
       CASE method = "bsp" -> Becomes(Rebuild(list, {}))
         [] method = "dwindle" -> Becomes(RebuildDwindle(list, {}))
         [] method = "grid" -> Becomes(RebuildGrid(list, {}))

ToggleOff == tree # NoTree /\ Becomes(NoTree)

SwapLeaves ==
  \E a, b \in Tiled(tree) : a # b /\ Becomes(Swap(tree, a, b))

\* Cursor::process_resize.
Drag ==
  \E tl \in Tiled(tree), e \in Edges, c \in Cursors :
    Becomes(Resize(tree, tl, e, c))

\* apply_layout
ApplyLayout == tree # NoTree /\ Becomes(Layout(tree, Bounds))

Next ==
  \/ \E tl \in Toplevels : Add(tl) \/ Restore(tl) \/ Remove(tl)
  \/ Regrid
  \/ ToggleOn
  \/ ToggleOff
  \/ SwapLeaves
  \/ Drag
  \/ ApplyLayout

Spec == Init /\ [][Next]_vars

-----------------------------------------------------------------------------
(* Properties *)

Node == [split : {"none", "horizontal", "vertical"}, ratio : Int \X Int,
         toplevel : Toplevels \cup {None},
         geometry : [x : Int, y : Int, width : Int, height : Int]]

\* The tree is prefix-closed and made of nodes.
TypeOK ==
  /\ \A p \in DOMAIN tree : tree[p] \in Node
  /\ \A p \in DOMAIN tree : p # Root => Parent(p) \in DOMAIN tree

\* Every container has two children and a ratio between 0 and 1, every leaf a
\* toplevel of its own: what calculate_layout and remove rely on.
Full ==
  ~freed =>
    /\ \A p \in DOMAIN tree :
         IF IsLeaf(tree, p) THEN tree[p].toplevel # None
         ELSE /\ {p \o <<1>>, p \o <<2>>} \subseteq DOMAIN tree
              /\ LET r == tree[p].ratio
                 IN 0 < r[1] /\ r[1] < r[2]
    /\ \A p, q \in Leaves(tree, Root) :
         tree[p].toplevel = tree[q].toplevel => p = q

Inside(x, y, b) ==
  /\ b.x <= x /\ x < b.x + b.width
  /\ b.y <= y /\ y < b.y + b.height

\* Whatever was inserted, removed, dragged and swapped, the windows cover the
\* usable area and do not overlap: each point of it is in exactly one box.
Partition ==
  (~freed /\ tree # NoTree) =>
    LET L == Layout(tree, Bounds)
    IN \A x \in Bounds.x .. Bounds.x + Bounds.width - 1,
          y \in Bounds.y .. Bounds.y + Bounds.height - 1 :
         Cardinality({p \in Leaves(L, Root) : Inside(x, y, L[p].geometry)}) = 1

BoxOf(T, tl) == Layout(T, Bounds)[NodeOf(T, tl)].geometry

\* A toplevel that leaves the tree makes no other smaller, and one that enters
\* it takes its room from one other at most; a spiral or a grid built anew may
\* change them all.
RoomIsShared ==
  [][~freed' =>
       \A tl \in Toplevels :
         /\ Remove(tl) =>
              \A u \in Tiled(tree) \ {tl} :
                /\ BoxOf(tree, u).width <= BoxOf(tree', u).width
                /\ BoxOf(tree, u).height <= BoxOf(tree', u).height
         /\ (Restore(tl) \/ (Add(tl) /\ method = "bsp")) =>
              Cardinality({u \in Tiled(tree) : BoxOf(tree, u) # BoxOf(tree', u)}) <= 1]_vars

\* "BSP and Dwindle modes - just remove the node": the others stay.
JustRemoves ==
  [][\A tl \in Toplevels :
       Remove(tl) => Tiled(tree') = Tiled(tree) \ {tl}]_vars

\* The tree is a way to keep a list of windows in order.
Tiling == INSTANCE TilingOrder
            WITH order <- IF freed THEN << >> ELSE Order(tree), lost <- freed
KeepsOrder == Tiling!Spec
=============================================================================
