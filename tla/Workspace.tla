----------------------------- MODULE Workspace -----------------------------
(***************************************************************************)
(* One workspace under a tiling method that keeps a tree: src/src/         *)
(* Workspace.cpp, with what Toplevel, Server, WindowRule and Output do to  *)
(* it.                                                                     *)
(*                                                                         *)
(* The tree is reduced to the number of leaves that hold each window: the  *)
(* module BSPTree is about its shape.  Transactions are reduced to whether *)
(* one is current: the module Transaction is about what they do.  Windows  *)
(* on other workspaces count as being out, and come in with any state.     *)
(*                                                                         *)
(* maximized() is what the client last acknowledged (current), not what    *)
(* the compositor last asked for (asked), and most handlers read the first *)
(* and write the second.                                                   *)
(***************************************************************************)
EXTENDS Naturals, FiniteSets

CONSTANTS Toplevels, None

ASSUME WorkspaceAssumption == None \notin Toplevels

VARIABLES
  method,   \* config->tiling.method, one of those that keep a tree
  tops,     \* the windows
  active,   \* active_toplevel
  auto,     \* auto_tile; the tree exists while it holds
  pending,  \* pending_layout_idle, and what its callback does without a tree
  dirty,    \* tree changed since the last apply_layout (history)
  busy      \* the transaction manager has a current transaction

vars == <<method, tops, active, auto, pending, dirty, busy>>

-----------------------------------------------------------------------------
(* States *)

\* leaves: how many leaves of the tree hold the window.  fresh: its leaf has had
\* no calculate_layout, so its geometry is 0x0.  sized: the last box it was given
\* has a size.  floated: it has been a floating window of this workspace.
Out == [here |-> FALSE, floating |-> FALSE, current |-> FALSE, asked |-> FALSE,
        fullscreen |-> FALSE, leaves |-> 0, fresh |-> FALSE, sized |-> TRUE,
        floated |-> FALSE]

Toplevel == [here : BOOLEAN, floating : BOOLEAN, current : BOOLEAN,
             asked : BOOLEAN, fullscreen : BOOLEAN, leaves : 0 .. 2,
             fresh : BOOLEAN, sized : BOOLEAN, floated : BOOLEAN]

World == [tops : [Toplevels -> Toplevel], active : Toplevels \cup {None},
          auto : BOOLEAN, pending : {"none", "layout", "layout or tile"},
          dirty : BOOLEAN, busy : BOOLEAN]

W == [tops |-> tops, active |-> active, auto |-> auto, pending |-> pending,
      dirty |-> dirty, busy |-> busy]

\* The handler that starts in W ends in w.
Step(w) ==
  /\ UNCHANGED method
  /\ tops' = w.tops
  /\ active' = w.active
  /\ auto' = w.auto
  /\ pending' = w.pending
  /\ dirty' = w.dirty
  /\ busy' = w.busy

Listed(w) == {tl \in Toplevels : w.tops[tl].here}
Leaved(w) == {tl \in Toplevels : w.tops[tl].leaves > 0}

\* The windows that the layouts leave alone.
Skipped(w) == {tl \in Toplevels : w.tops[tl].current \/ w.tops[tl].fullscreen}

Floating(w) == {tl \in Toplevels : w.tops[tl].floating}

Here == Listed(W)

-----------------------------------------------------------------------------
(* Toplevel::set_position_size and the tree *)

\* Without a current transaction a window is un-maximized and taken out of
\* fullscreen before it is moved; else the box is only recorded.
Placed(top, recorded) ==
  IF recorded THEN [top EXCEPT !.sized = TRUE]
  ELSE [top EXCEPT !.sized = TRUE, !.fullscreen = FALSE,
                   !.asked = top.asked /\ ~top.current]

SetPosition(w, tl) == [w EXCEPT !.tops[tl] = Placed(@, w.busy)]

Computed(top) == [top EXCEPT !.fresh = FALSE]

\* calculate_layout
Calculated(w) == [w EXCEPT !.tops = [tl \in Toplevels |-> Computed(w.tops[tl])]]

\* A batch of boxes in a transaction of its own.  One without a change ends at
\* once, and takes the manager's pointer to the transaction before it along.
Batch(w, moved) ==
  [w EXCEPT !.busy = moved # {},
            !.tops = [tl \in Toplevels |->
               IF tl \in moved THEN Placed(w.tops[tl], TRUE) ELSE w.tops[tl]]]

\* apply_layout: nothing without a root.
ApplyLayout(w) ==
  LET laid == [w EXCEPT !.dirty = FALSE]
  IN IF Leaved(w) = {} THEN laid
     ELSE Batch(Calculated(laid), Leaved(w) \ Skipped(w))

Grown(top) == [top EXCEPT !.leaves = top.leaves + 1, !.fresh = TRUE]
Renewed(top) == [top EXCEPT !.fresh = TRUE]
WithLeaf(w, tl) == [w EXCEPT !.dirty = TRUE, !.tops[tl] = Grown(@)]

\* BSPTree::insert: one of the other leaves is split, both halves are new nodes.
Inserts(w, tl) ==
  IF Leaved(w) = {} THEN {WithLeaf(w, tl)}
  ELSE {[WithLeaf(w, tl) EXCEPT !.tops[o] = Renewed(@)] : o \in Leaved(w)}

\* The same where a layout is calculated next, which makes the choice moot.
Insert(w, tl) == Calculated(WithLeaf(w, tl))

\* BSPTree::remove: the first leaf that holds the window.
LostLeaf(top) ==
  [top EXCEPT !.leaves = IF top.leaves = 0 THEN 0 ELSE top.leaves - 1,
              !.fresh = top.fresh /\ top.leaves > 1]

Remove(w, tl) ==
  [w EXCEPT !.dirty = @ \/ tl \in Leaved(w), !.tops[tl] = LostLeaf(@)]

Anew(top, in) == [top EXCEPT !.leaves = IF in THEN 1 ELSE 0, !.fresh = in]

\* clear(), then the windows of S that are neither maximized nor fullscreen.
Rebuild(w, S) ==
  [w EXCEPT !.dirty = TRUE,
            !.tops = [tl \in Toplevels |->
                        Anew(w.tops[tl], tl \in S \ Skipped(w))]]

\* insert_at_dwindle without a target: the list is read from the tree, so a
\* window keeps its leaves, but for the maximized and fullscreen ones.
Respiral(w, tl) ==
  IF Leaved(w) = {} THEN Insert(w, tl)
  ELSE LET more == Insert(w, tl) IN
       [more EXCEPT !.tops = [o \in Toplevels |->
          IF o \in Skipped(w) THEN Anew(more.tops[o], FALSE) ELSE more.tops[o]]]

Schedule(w, what) == [w EXCEPT !.pending = what]
Cancel(w) == Schedule(w, "none")

\* Where a window joins the tree: all methods try to do so beside the active
\* window, which is the window itself.
Join(w, tl) ==
  CASE method = "grid" -> Rebuild(w, Listed(w) \ Floating(w))
    [] method = "dwindle" /\ tl \notin Leaved(w) -> Respiral(w, tl)
    [] OTHER -> Insert(w, tl)

\* Where a window leaves the tree, the grid of the rest is built again.
Part(w, tl) ==
  IF method = "grid"
  THEN Rebuild(w, Listed(w) \ (Floating(w) \cup {tl}))
  ELSE Remove(w, tl)

-----------------------------------------------------------------------------
(* The window states *)

\* Toplevel::set_fullscreen(true): the mark is set, then the window is moved.
Fullscreen(w, tl) ==
  SetPosition([w EXCEPT !.tops[tl].fullscreen = TRUE], tl)

Unmaximized(top) == [top EXCEPT !.asked = top.asked /\ ~top.current]

\* Toplevel::set_fullscreen(false): back to its leaf, or to a new one; the
\* others are not laid out again.
Unfullscreen(w, tl) ==
  LET w1 == [w EXCEPT !.tops[tl].fullscreen = FALSE]
      w2 == [w1 EXCEPT !.tops[tl] = Unmaximized(@)]
      w3 == IF tl \in Leaved(w2) THEN w2 ELSE Insert(w2, tl)
  IN IF w.auto THEN SetPosition(Calculated(w3), tl) ELSE SetPosition(w1, tl)

\* Toplevel::set_maximized
SetMaximized(w, tl, maximized) ==
  LET w1 == IF w.tops[tl].fullscreen THEN Unfullscreen(w, tl) ELSE w
      w2 == [w1 EXCEPT !.tops[tl].asked = maximized]
      w3 == IF maximized THEN Remove(SetPosition(w2, tl), tl)
            ELSE IF tl \in Leaved(w2) THEN w2 ELSE Insert(w2, tl)
  IN IF w.auto THEN ApplyLayout(Cancel(w3)) ELSE SetPosition(w2, tl)

-----------------------------------------------------------------------------
(* Workspace *)

\* Workspace::add_toplevel.  A floating window is only positioned, and only if
\* it was hidden until then; one that is maximized, fullscreen or has no size
\* yet is only listed.
AddToplevel(w, tl, hidden, small) ==
  LET top == w.tops[tl]
      w1 == [w EXCEPT !.active = tl]
      w2 == [Cancel(w1) EXCEPT !.tops = [o \in Toplevels |->
               IF o \in Listed(w) \ {tl}
               THEN Unmaximized(w.tops[o]) ELSE w.tops[o]]]
  IN IF ~w.auto THEN w1
     ELSE IF top.floating THEN (IF hidden THEN SetPosition(w1, tl) ELSE w1)
     ELSE IF tl \in Skipped(w) \/ small THEN w1
     ELSE ApplyLayout(SetPosition(Calculated(Join(w2, tl)), tl))

\* get_topmost_toplevel: the topmost window in the layer of ordinary windows; a
\* fullscreen window is in another one.
Topmosts(w, tl) ==
  {o \in Listed(w) \ {tl} : ~w.tops[o].fullscreen}

\* Mutant: the last window stays active.
SuccessorsOfLast(w, tl) ==
  IF tl # w.active \/ Topmosts(w, tl) = {} THEN {w.active} ELSE Topmosts(w, tl)

\* Workspace::close, until the tree: who becomes active.
Successors(w, tl) ==
  IF tl # w.active THEN {w.active}
  ELSE IF Listed(w) = {tl} THEN {None}
  ELSE IF Topmosts(w, tl) = {} THEN {tl}
  ELSE Topmosts(w, tl)

\* Workspace::close.  The window is still listed.
Close(w, tl, next) ==
  LET w1 == [w EXCEPT !.active = next]
  IN IF w.auto THEN Schedule(Part(w1, tl), "layout or tile") ELSE w1

\* Mutant: what the window was is still there when it comes back.
UnlistedOnly(w, tl) == [w EXCEPT !.tops[tl].here = FALSE]

Left(top) == [Out EXCEPT !.leaves = top.leaves, !.fresh = top.fresh,
                         !.floated = top.floated /\ top.leaves > 0]

\* The window is unlinked from the list; a leaf left behind stays in the tree.
Unlisted(w, tl) ==
  [w EXCEPT !.tops[tl] = Left(@)]

\* Mutant: no layout follows a window that moves away.
MoveToOnly(w, tl, next) ==
  LET w1 == [w EXCEPT !.active = next]
  IN Unlisted(IF w.auto THEN Part(w1, tl) ELSE w1, tl)

\* Workspace::move_to, until the other workspace: focus_next makes another
\* window active, and no layout follows without a tree.
MoveTo(w, tl, next) ==
  LET w1 == [w EXCEPT !.active = next]
  IN Unlisted(IF w.auto THEN Schedule(Part(w1, tl), "layout") ELSE w1, tl)

Boxed(top, fresh) == [top EXCEPT !.fresh = fresh, !.sized = ~fresh]

\* The exchange of two leaves: each window gets the box of the other's leaf.
Exchange(w, a, b) ==
  [w EXCEPT !.tops[a] = Boxed(@, w.tops[b].fresh),
            !.tops[b] = Boxed(@, w.tops[a].fresh)]

\* Mutant: a window that has a leaf gets another.
EnsureNew(w, tl) == Inserts(w, tl)

\* Both windows of a swap must be in the tree.
Ensure(w, tl) == IF tl \in Leaved(w) THEN {w} ELSE Inserts(w, tl)

\* Workspace::swap, after its guard.
Swaps(w, a, b) ==
  LET w1 == [Cancel(w) EXCEPT !.tops[a] = Unmaximized(@),
                              !.tops[b] = Unmaximized(@), !.busy = TRUE]
  IN IF ~w.auto THEN {Batch(w1, {a, b})}
     ELSE {Exchange(w2, a, b) : w2 \in UNION {Ensure(w3, b) : w3 \in Ensure(w1, a)}}

-----------------------------------------------------------------------------
(* Handlers *)

Init ==
  /\ method \in {"bsp", "dwindle", "grid"}
  /\ tops = [tl \in Toplevels |-> Out]
  /\ active = None
  /\ auto \in BOOLEAN
  /\ pending = "none"
  /\ dirty = FALSE
  /\ busy = FALSE

\* A window that joins the list is ordinary, maximized or fullscreen, by a
\* request from before it was mapped or on the workspace it was on.
Modes == {[max |-> FALSE, full |-> FALSE], [max |-> TRUE, full |-> FALSE],
          [max |-> FALSE, full |-> TRUE]}

\* A window that left a leaf behind is not followed any further.
Outside == {tl \in Toplevels : ~tops[tl].here /\ tops[tl].leaves = 0}

Arriving(tl, floating, mode) ==
  [W EXCEPT !.tops[tl] =
     [Out EXCEPT !.here = TRUE, !.floating = floating, !.floated = floating,
                 !.current = mode.max, !.asked = mode.max,
                 !.fullscreen = mode.full]]

\* map_notify without a rule: centered, or hidden until it is tiled.
Map(tl) ==
  /\ tl \in Outside
  /\ \E floating, small \in BOOLEAN, mode \in Modes :
       LET w == Arriving(tl, floating, mode)
       IN Step(AddToplevel(IF auto THEN w ELSE SetPosition(w, tl), tl, auto, small))

\* map_notify with a rule, and WindowRule::apply: add_toplevel sees a workspace
\* that does not tile if the rule will float, maximize or fullscreen the window.
MapByRule(tl) ==
  /\ tl \in Outside
  /\ \E floating, small, placed \in BOOLEAN, state, mode \in Modes :
       LET skip == floating \/ state.max \/ state.full
           w1 == SetPosition(Arriving(tl, floating, mode), tl)
           w2 == AddToplevel([w1 EXCEPT !.auto = @ /\ ~skip], tl, FALSE, small)
           w3 == [w2 EXCEPT !.auto = auto]
           w4 == IF placed THEN SetPosition(w3, tl) ELSE w3
       IN Step(IF state.max THEN SetMaximized(w4, tl, TRUE)
               ELSE IF state.full THEN Fullscreen(w4, tl) ELSE w4)

\* Another workspace's move_to ends here.
MoveIn(tl) ==
  /\ tl \in Outside
  /\ \E floating, small \in BOOLEAN, mode \in Modes :
       Step(AddToplevel(Arriving(tl, floating, mode), tl, FALSE, small))

\* unmap_notify
Unmap(tl) ==
  /\ tl \in Here
  /\ \E next \in Successors(W, tl) : Step(Unlisted(Close(W, tl, next), tl))

\* The close bind: the client is asked to close, and leaves the tree already.
CloseActive ==
  /\ active \in Here
  /\ \E next \in Successors(W, active) : Step(Close(W, active, next))

\* move_to, by a bind, by dragging to another output or by a minimize request.
MoveOut(tl) ==
  /\ tl \in Here
  /\ \E next \in IF tl # active THEN {active}
                 ELSE IF Here = {tl} THEN {None} ELSE Here \ {tl} :
       Step(MoveTo(W, tl, next))

\* The focus binds, a click, an activation.
Focus(tl) ==
  /\ tl \in Here
  /\ Step([W EXCEPT !.active = tl])

\* The maximize bind or a request of the client, who may repeat itself.
Maximize(tl, maximized) ==
  /\ tl \in Here
  /\ Step(SetMaximized(W, tl, maximized))

\* The fullscreen bind or a request of the client.
ToggleFullscreen(tl) ==
  /\ tl \in Here
  /\ Step(IF tops[tl].fullscreen THEN Unfullscreen(W, tl) ELSE Fullscreen(W, tl))

\* The client acknowledges what it was last asked for.
Acknowledge(tl) ==
  /\ tl \in Here
  /\ Step([W EXCEPT !.tops[tl].current = tops[tl].asked])

\* A window is placed by itself: a half of the output, a drag.
Position(tl) ==
  /\ tl \in Here
  /\ Step(SetPosition(W, tl))

Floated(top) == [top EXCEPT !.floating = ~top.floating, !.floated = TRUE]

\* BIND_WINDOW_TOGGLE_FLOATING
ToggleFloating ==
  /\ active \in Here
  /\ LET w1 == [W EXCEPT !.tops[active] = Floated(@)]
         parted == SetPosition(Schedule(Part(w1, active), "layout"), active)
         joined == Schedule(Calculated(Join(w1, active)), "layout")
     IN Step(IF ~auto THEN w1
             ELSE IF ~tops[active].floating THEN parted
             ELSE IF active \in Leaved(joined) THEN SetPosition(joined, active)
             ELSE joined)

\* in_direction finds only windows at another place than the active one: not
\* the only tiled window below a maximized one.
Covers(tl) ==
  \/ tops[tl].current /\ tops[tl].asked
  \/ Leaved(W) = {tl}

\* A swap bind, or the end of a drag.
Swap(a, b) ==
  /\ {a, b} \subseteq Here /\ a # b
  /\ ~(Covers(a) /\ Covers(b))
  /\ tops[a].floating = tops[b].floating
  /\ \E w \in Swaps(W, a, b) : Step(w)

\* The tile binds: every window, or all but the active one, without the tree.
Tileable(w) == Listed(w) \ (Skipped(w) \cup Floating(w))

TileAll(w, sans) ==
  IF Tileable(w) \ sans = {} THEN w ELSE Batch(w, Tileable(w) \ sans)

Tile ==
  \/ Step(TileAll(W, {}))
  \/ active \in Here /\ Step(TileAll(W, {active}))

\* toggle_auto_tile
ToggleAutoTile ==
  Step(IF auto
       THEN [W EXCEPT !.auto = FALSE, !.dirty = FALSE,
                      !.tops = [tl \in Toplevels |-> Anew(tops[tl], FALSE)]]
       ELSE Schedule(Rebuild([W EXCEPT !.auto = TRUE], Here \ Floating(W)),
                     "layout"))

\* The idle callback.
IdleLayout ==
  /\ pending # "none"
  /\ Step(IF auto THEN ApplyLayout(Cancel(W))
          ELSE IF pending = "layout or tile" THEN TileAll(Cancel(W), {})
          ELSE Cancel(W))

\* Output::arrange_layers, when the usable area has changed.
AreaChange ==
  /\ auto
  /\ Step(ApplyLayout(W))

\* The current transaction ends, or another workspace begins one.
Transact == Step([W EXCEPT !.busy = ~@])

Next ==
  \/ \E tl \in Toplevels :
       \/ Map(tl) \/ MapByRule(tl) \/ MoveIn(tl)
       \/ Unmap(tl) \/ MoveOut(tl) \/ Focus(tl)
       \/ \E maximized \in BOOLEAN : Maximize(tl, maximized)
       \/ ToggleFullscreen(tl) \/ Acknowledge(tl) \/ Position(tl)
       \/ \E other \in Toplevels : Swap(tl, other)
  \/ CloseActive
  \/ ToggleFloating
  \/ Tile
  \/ ToggleAutoTile
  \/ IdleLayout
  \/ AreaChange
  \/ Transact

Spec == Init /\ [][Next]_vars

-----------------------------------------------------------------------------
(* Properties *)

Blank(top) ==
  ~(top.floating \/ top.current \/ top.asked \/ top.fullscreen) /\ top.sized

\* Every window has its type.  One without a leaf has no node, and one that is
\* out of the workspace has no state here but the leaf it left.
TypeOK ==
  /\ W \in World
  /\ \A tl \in Toplevels :
       /\ tops[tl].leaves = 0 => ~tops[tl].fresh
       /\ ~tops[tl].here => Blank(tops[tl])
  /\ ~auto => Leaved(W) = {}

\* A window that has not floated has at most one leaf, and none once it has
\* left the workspace: no layout reaches a window that has gone.
OneLeaf ==
  \A tl \in Toplevels : ~tops[tl].floated =>
    /\ tops[tl].leaves <= 1
    /\ ~tops[tl].here => tops[tl].leaves = 0

\* The active toplevel is a listed one or none.  It starts to dangle only where
\* the active window closes and all that are left are fullscreen.
ActiveIsListed ==
  [][(active \in Here \cup {None}) =>
       \/ active' \in Here' \cup {None}
       \/ Here' # {} /\ \A tl \in Here' : tops'[tl].fullscreen]_vars

\* A tree that has changed has been laid out when the handler ends, or its idle
\* layout is pending; only a swap and the end of fullscreen leave it behind.
LayoutIsOwed ==
  [][dirty' /\ pending' = "none" =>
       \/ dirty /\ pending = "none"
       \/ \E a, b \in Toplevels : Swap(a, b)
       \/ \E tl \in Toplevels : ToggleFullscreen(tl)]_vars

\* "A gets automatically unmaximized, and all three (A, B, C) are tiled together":
\* a new window that is tiled takes the maximized windows along.
AddTilesAll ==
  [][(\E tl \in Here' \ Here : tops'[tl].leaves > 0) =>
       \A tl \in Here : tops[tl].current /\ tl \notin Floating(W)
                            => tops'[tl].leaves > 0]_vars

\* "make sure they're not hidden": a window always has a width and a height.
Sized == \A tl \in Here : tops[tl].sized
=============================================================================
