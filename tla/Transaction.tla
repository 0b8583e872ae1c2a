---------------------------- MODULE Transaction ----------------------------
(***************************************************************************)
(* Layout transactions: src/src/Transaction.cpp and the handlers of        *)
(* src/src/Toplevel.cpp, src/src/Workspace.cpp, src/src/BSPTree.cpp and    *)
(* src/src/Cursor.cpp that drive it.                                       *)
(*                                                                         *)
(* A layout change collects new geometries in a Transaction, sends every   *)
(* client a configure and waits for the surfaces to commit; the geometries *)
(* are applied together when the last one has, or after 300 ms.  The       *)
(* TransactionManager knows one transaction, the current one.  begin()     *)
(* replaces a current transaction that is still waiting: that one stays    *)
(* alive, known only to its timer ("detached" below).                      *)
(*                                                                         *)
(* The program is one event loop: a handler runs to its end before the     *)
(* next starts, so a handler is one action.  A handler makes several calls *)
(* in turn, so each call is an operator from the world before it to the    *)
(* world after it, and the action composes them in the order of the code.  *)
(***************************************************************************)
EXTENDS Naturals

CONSTANTS
  Toplevels,   \* the toplevels
  XWayland,    \* those of Toplevels that are X11 windows, the others are xdg
  TxnId,       \* heap cells for Transaction objects: bounds those alive at once
  Geoms,       \* the wlr_boxes a layout hands out
  NoBox,       \* those of Geoms with width <= 0 or height <= 0
  ZeroBox,     \* the box of a new toplevel, {0, 0, 0, 0}
  OneByOne,    \* the 1x1 box set_position_size substitutes for a NoBox one
  Natural,     \* the size a client picks for itself
  None

ASSUME GeomsAssumption ==
  /\ NoBox \subseteq Geoms
  /\ ZeroBox \in NoBox
  /\ OneByOne \in Geoms \ NoBox
  /\ Natural \in Geoms
  /\ None \notin Geoms

ASSUME NoneAssumption == None \notin TxnId

ASSUME XWaylandAssumption == XWayland \subseteq Toplevels

VARIABLES
  txns,     \* the Transaction objects, by heap cell
  active,   \* TransactionManager::active_transaction
  tops      \* the Toplevel objects

vars == <<txns, active, tops>>

-----------------------------------------------------------------------------
(* State *)

\* pending_changes as a function: the geometry recorded for each toplevel.  An
\* entry whose toplevel remove_toplevel() has set to nullptr still counts as
\* an element of the vector: "holes".  PendingGeometry's serial and committed
\* are written and never read.  "late" and "overlapped" are history: members
\* added after commit(), and whether another transaction was alive meanwhile.
\* "before" orders the timers: those armed earlier that have not fired yet.
FreeTxn == [live |-> FALSE, entries |-> [x \in Toplevels |-> None],
            holes |-> FALSE, waiting |-> {}, committed |-> FALSE,
            armed |-> FALSE, before |-> {}, late |-> {}, overlapped |-> FALSE]

Txn == [live : BOOLEAN, entries : [Toplevels -> Geoms \cup {None}],
        holes : BOOLEAN, waiting : SUBSET Toplevels, committed : BOOLEAN,
        armed : BOOLEAN, before : SUBSET TxnId, late : SUBSET Toplevels,
        overlapped : BOOLEAN]

\* homed: server->get_workspace(toplevel) finds a workspace (an unmapped
\* toplevel, or one whose output is unplugged, has none).  configured: the box
\* of the last configure sent.  hidden: scene_hidden_for_autotile.
NewToplevel == [phase |-> "unmapped", homed |-> FALSE, in_transaction |-> FALSE,
                geometry |-> ZeroBox, configured |-> ZeroBox, hidden |-> FALSE]

Toplevel == [phase : {"unmapped", "mapped", "freed"}, homed : BOOLEAN,
             in_transaction : BOOLEAN, geometry : Geoms, configured : Geoms,
             hidden : BOOLEAN]

World == [txns : [TxnId -> Txn], active : TxnId \cup {None},
          tops : [Toplevels -> Toplevel]]

W == [txns |-> txns, active |-> active, tops |-> tops]

\* The handler that starts in W ends in w.
Step(w) ==
  /\ txns' = w.txns
  /\ active' = w.active
  /\ tops' = w.tops

Members(x) == {tl \in Toplevels : x.entries[tl] # None}

\* pending_changes.empty()
Empty(x) == Members(x) = {} /\ ~x.holes

Live(w) == {t \in TxnId : w.txns[t].live}
Mapped == {tl \in Toplevels : tops[tl].phase = "mapped"}
Tileable == {tl \in Mapped : tops[tl].homed}

\* The layouts a handler may compute: a box for each toplevel of a set.
Layouts(S) == UNION {[X -> Geoms] : X \in SUBSET S}

-----------------------------------------------------------------------------
(* Transaction *)

\* Transaction::add_change, for one toplevel: overwrite or append.
AddChange(w, t, tl, g) ==
  LET x == w.txns[t] IN
  [w EXCEPT !.txns[t] =
     [x EXCEPT !.entries[tl] = g,
               !.late = IF x.committed /\ x.entries[tl] = None
                        THEN @ \cup {tl} ELSE @]]

\* Transaction::add_change for every toplevel of a layout.
AddChanges(w, t, layout) ==
  [w EXCEPT !.txns[t].entries =
     [tl \in Toplevels |-> IF tl \in DOMAIN layout THEN layout[tl] ELSE @[tl]]]

\* Mutant: no timer when no client is asked.
ArmIfWaiting(w, t) ==
  [w EXCEPT !.txns[t] = [@ EXCEPT !.armed = w.txns[t].waiting # {},
              !.before = {u \in TxnId \ {t} : w.txns[u].armed}]]

\* Transaction::setup_timeout
Arm(w, t) ==
  [w EXCEPT !.txns[t] = [@ EXCEPT !.armed = TRUE,
              !.before = {u \in TxnId \ {t} : w.txns[u].armed}]]

\* A member is marked, and configured if there is something to ask for.
Asked(top, g) ==
  [top EXCEPT !.in_transaction = TRUE,
              !.configured = IF g \notin NoBox THEN g ELSE @]

\* Transaction::commit: configure every member that has a width and a height,
\* wait for those, arm the timer.
TxnCommit(w, t) ==
  LET x == w.txns[t]
      asked == {tl \in Members(x) : x.entries[tl] \notin NoBox}
      w1 == [w EXCEPT
        !.txns[t] = [x EXCEPT !.committed = TRUE, !.waiting = @ \cup asked],
        !.tops = [tl \in Toplevels |->
           IF tl \notin Members(x) THEN @[tl]
           ELSE Asked(@[tl], x.entries[tl])]]
  IN IF x.committed THEN w
     ELSE IF Empty(x) THEN [w EXCEPT !.txns[t].committed = TRUE]
     ELSE Arm(w1, t)

\* Mutant: a cell that is used again keeps what the last transaction left.
DeleteKeepingEntries(w, t) ==
  [w EXCEPT !.txns[t].live = FALSE, !.txns[t].committed = FALSE]

Unordered(x, t) == [x EXCEPT !.before = @ \ {t}]

\* ~Transaction: the cell is free again, and its timer leaves the order.
Delete(w, t) ==
  [w EXCEPT !.txns = [u \in TxnId |-> IF u = t THEN FreeTxn
                                      ELSE Unordered(w.txns[u], t)]]

\* Mutant: one member that has gone makes apply() return.
MovableIfAll(w, x) ==
  IF \A tl \in Members(x) : w.tops[tl].phase = "mapped" /\ w.tops[tl].homed
  THEN Members(x) ELSE {}

\* The members apply() moves: it skips a toplevel without a workspace and one
\* whose surface is not mapped.
Movable(w, x) ==
  {tl \in Members(x) : w.tops[tl].phase = "mapped" /\ w.tops[tl].homed}

\* Mutant: a toplevel hidden for auto-tiling is positioned but not shown.
MovedHidden(top, g) == [top EXCEPT !.geometry = g, !.in_transaction = FALSE]

Moved(top, g) ==
  [top EXCEPT !.geometry = g, !.in_transaction = FALSE, !.hidden = FALSE]

\* Transaction::apply, cleanup() included.  A member that has been freed is
\* read and written through a dangling pointer.  No list of the server holds it
\* any more, so a process that survives that skips it (tops stands for live
\* objects, the write to freed memory is not recorded).
Apply(w, t) ==
  LET x == w.txns[t] IN
  [w EXCEPT
     !.txns[t].armed = FALSE,
     !.txns[t].waiting = {},
     !.tops = [tl \in Toplevels |->
        IF tl \in Movable(w, x) THEN Moved(@[tl], x.entries[tl])
        ELSE IF tl \in Members(x) THEN [@[tl] EXCEPT !.in_transaction = FALSE]
        ELSE @[tl]]]

\* The three ways a transaction ends share this: forget it if it is the
\* current one, apply() it, delete it.
Finish(w, t) ==
  LET w1 == [w EXCEPT !.active = IF @ = t THEN None ELSE @]
  IN Delete(Apply(w1, t), t)

\* Transaction::handle_commit, called on the current transaction.
HandleCommit(w, t, tl) ==
  LET w1 == [w EXCEPT !.txns[t].waiting = @ \ {tl}]
  IN IF tl \notin Members(w.txns[t]) THEN w
     ELSE IF w1.txns[t].waiting = {} THEN Finish(w1, t) ELSE w1

\* The waiting set loses the toplevel, its entry becomes null.
Without(x, tl) ==
  [x EXCEPT !.waiting = @ \ {tl}, !.entries[tl] = None,
            !.holes = @ \/ x.entries[tl] # None]

\* Mutant: the departure of the last awaited toplevel goes unnoticed.
RemoveToplevelOnly(w, tl) ==
  IF w.active = None THEN w ELSE [w EXCEPT !.txns[w.active] = Without(@, tl)]

\* TransactionManager::remove_toplevel and Transaction::remove_toplevel.
RemoveToplevel(w, tl) ==
  LET t == w.active
      x == Without(w.txns[t], tl)
      w1 == [w EXCEPT !.txns[t] = x]
  IN IF t = None THEN w
     ELSE IF x.committed /\ x.waiting = {} /\ ~Empty(x) THEN Finish(w1, t)
     ELSE w1

-----------------------------------------------------------------------------
(* TransactionManager *)

\* TransactionManager::commit
ManagerCommit(w) ==
  LET t == w.active
      c == TxnCommit(w, t)
  IN IF t = None THEN w
     ELSE IF Empty(c.txns[t]) THEN Delete([c EXCEPT !.active = None], t)
     ELSE c

Overlapped(x, b) == [x EXCEPT !.overlapped = @ \/ b]

\* TransactionManager::begin, the new transaction in the free cell t.  A
\* current transaction is committed first, and stays alive if it waits.
Begin(w, t) ==
  LET w1 == ManagerCommit(w)
      others == Live(w1)
  IN [w1 EXCEPT
       !.active = t,
       !.txns = [u \in TxnId |->
          IF u = t THEN Overlapped([FreeTxn EXCEPT !.live = TRUE], others # {})
          ELSE Overlapped(w1.txns[u], u \in others)]]

\* begin(), one set_position_size() per box of the layout, commit(): what
\* BSPTree::apply_layout, Workspace::tile and Workspace::swap do.
Batch(w, t, layout) == ManagerCommit(AddChanges(Begin(w, t), t, layout))

-----------------------------------------------------------------------------
(* Toplevel *)

Clamped(g) == IF g \in NoBox THEN OneByOne ELSE g

\* The toplevel is moved at once and configured.
Place(top, g) == [top EXCEPT !.geometry = g, !.configured = g, !.hidden = FALSE]

\* Toplevel::set_position_size: the change joins the current transaction, be
\* it committed already, and takes effect at once if there is none (not on an
\* X11 window that is not mapped).
SetPosition(w, tl, g) ==
  IF w.active # None THEN AddChange(w, w.active, tl, g)
  ELSE IF tl \in XWayland /\ w.tops[tl].phase # "mapped" THEN w
  ELSE [w EXCEPT !.tops[tl] = Place(@, Clamped(g))]

\* What an interactive grab does to its toplevel, without set_position_size.
ByHand(w, tl, g, c) ==
  [w EXCEPT !.tops[tl] = [@ EXCEPT !.geometry = g, !.configured = c]]

\* Mutant: the transaction keeps a toplevel that unmaps.
LeaveMarkOnly(w, tl) == [w EXCEPT !.tops[tl].in_transaction = FALSE]

\* Mutant: the mark stays on the toplevel that was removed.
LeaveKeepingMark(w, tl) ==
  IF w.tops[tl].in_transaction THEN RemoveToplevel(w, tl) ELSE w

\* The first lines of unmap_notify and of the destroy handler.
LeaveTransaction(w, tl) ==
  IF ~w.tops[tl].in_transaction THEN w
  ELSE LET r == RemoveToplevel(w, tl)
       IN [r EXCEPT !.tops[tl].in_transaction = FALSE]

-----------------------------------------------------------------------------
(* Handlers *)

Init ==
  /\ txns = [t \in TxnId |-> FreeTxn]
  /\ active = None
  /\ tops = [tl \in Toplevels |-> NewToplevel]

FreeCells == {t \in TxnId : ~txns[t].live}

\* Any handler that lays out a workspace: a tiling bind, the idle callback of a
\* close or a move, a swap, a change of the usable area.  A layout of nothing
\* (every tiled toplevel is maximized) still begins a transaction.
Tile ==
  \E t \in FreeCells, layout \in Layouts(Tileable) : Step(Batch(W, t, layout))

\* A handler that moves one toplevel: fullscreen, a bind, the end of a drag, a
\* request of the client.  The toplevel need not be mapped.
MoveOne ==
  \E tl \in Toplevels, g \in Geoms :
    /\ tops[tl].phase # "freed"
    /\ Step(SetPosition(W, tl, g))

\* Toplevel::set_maximized and the insertion of Workspace::add_toplevel move
\* one toplevel and then lay out the tree.
MoveOneAndTile ==
  \E tl \in Mapped, g \in Geoms, t \in FreeCells, layout \in Layouts(Tileable) :
    Step(Batch(SetPosition(W, tl, g), t, layout))

\* Interactive resize of a tree writes the geometries itself, whatever
\* transaction is current: BSPTree::apply_layout(bounds, false).
ResizeTree ==
  \E layout \in Layouts(Tileable) :
    Step([W EXCEPT !.tops = [tl \in Toplevels |->
            IF tl \in DOMAIN layout
            THEN [@[tl] EXCEPT !.geometry = layout[tl], !.configured = layout[tl]]
            ELSE @[tl]]])

\* An interactive grab writes the geometry of its toplevel itself, whatever
\* transaction is current: Cursor::process_move the position, Toplevel::get_geometry
\* (as a resize begins) the client's size, Cursor::process_resize, on a workspace
\* without a tree, a new box, and it sends one (the client's minimum may differ).
\* A box is opaque here, so each may write any.
MoveByHand(tl) ==
  /\ tops[tl].phase # "freed"
  /\ \E g, c \in Geoms : Step(ByHand(W, tl, g, c))

\* A drag over another output: process_move, then move_to() the workspace there,
\* where add_toplevel centers a floating toplevel still hidden, or tiles.
DragOver(tl) ==
  /\ tl \in Tileable
  /\ \E g \in Geoms :
       LET w == ByHand(W, tl, g, tops[tl].configured) IN
       \/ tops[tl].hidden /\ \E g2 \in Geoms : Step(SetPosition(w, tl, g2))
       \/ \E t \in FreeCells, layout \in Layouts(Tileable) :
            /\ tl \in DOMAIN layout
            /\ \/ Step(Batch(SetPosition(w, tl, layout[tl]), t, layout))
               \/ Step(Batch(w, t, layout))

\* What a commit of the surface means for the current transaction: any counts,
\* whatever it commits.
Answered(tl) ==
  IF tops[tl].in_transaction /\ active # None THEN HandleCommit(W, active, tl)
  ELSE W

\* The commit listener.  An X11 window has it while it is mapped.
SurfaceCommit(tl) ==
  /\ tops[tl].phase \in IF tl \in XWayland THEN {"mapped"} ELSE {"unmapped", "mapped"}
  /\ tops[tl].in_transaction
  /\ active # None
  /\ Step(Answered(tl))

\* The commit listener of an X11 window that has another size than its toplevel:
\* out of a transaction, be it since this very commit, the size is adopted.
XSurfaceCommit(tl) ==
  /\ tl \in XWayland
  /\ tops[tl].phase = "mapped"
  /\ LET w == Answered(tl) IN
     /\ ~w.tops[tl].in_transaction
     /\ \E g \in Geoms \ {w.tops[tl].geometry} :
          Step(SetPosition([w EXCEPT !.tops[tl].geometry = g], tl, g))

\* on_timeout, 300 ms after commit(): the timers fire in the order they were armed.
Timeout(t) ==
  /\ txns[t].armed
  /\ \A u \in txns[t].before : ~txns[u].armed
  /\ Step(Finish(W, t))

Entered(top, hide) ==
  [top EXCEPT !.phase = "mapped", !.homed = TRUE, !.hidden = @ \/ hide]

\* map_notify puts the toplevel in a workspace.  On an auto-tiling one, without a
\* rule, its box g is the size the client has, and it is hidden until something
\* positions it.  Otherwise g is sent to it, through set_position_size if it is xdg.
Appear(w, tl, hide, g) ==
  LET w1 == [w EXCEPT !.tops[tl] = Entered(@, hide)]
  IN IF hide THEN ByHand(w1, tl, g, w.tops[tl].configured)
     ELSE IF tl \in XWayland THEN ByHand(w1, tl, g, g)
     ELSE SetPosition(w1, tl, g)

\* The box of a toplevel that is hidden is the client's.
Boxes(hide) == IF hide THEN {Natural} ELSE Geoms

\* add_toplevel neither floats nor tiles it: the workspace does not tile, or the
\* toplevel is maximized, fullscreen or 1x1, and one that was hidden stays so.
MapOnly ==
  \E tl \in Toplevels, hide \in BOOLEAN : \E g \in Boxes(hide) :
    /\ tops[tl].phase = "unmapped"
    /\ Step(Appear(W, tl, hide, g))

\* Floating: a hidden one is centered by add_toplevel, another moved by a rule.
MapFloating ==
  \E tl \in Toplevels, hide \in BOOLEAN, g2 \in Geoms : \E g \in Boxes(hide) :
    /\ tops[tl].phase = "unmapped"
    /\ Step(SetPosition(Appear(W, tl, hide, g), tl, g2))

\* Tiled with its neighbours.  With a tree add_toplevel first moves it to its
\* leaf; without one tile() does all.  A rule, for which nothing is hidden, may
\* move the toplevel after that, or maximize it and so lay out the others.
MapTiled ==
  \E tl \in Toplevels, hide \in BOOLEAN, t \in FreeCells, g2 \in Geoms :
    /\ tops[tl].phase = "unmapped"
    /\ \E g \in Boxes(hide), layout \in Layouts(Tileable \cup {tl}) :
         LET w == Appear(W, tl, hide, g)
             b == Batch(SetPosition(w, tl, g2), t, layout)
         IN /\ IF tl \in DOMAIN layout THEN g2 = layout[tl] ELSE ~hide
            /\ \/ Step(b)
               \/ tl \in DOMAIN layout /\ Step(Batch(w, t, layout))
               \/ ~hide /\ \E g3 \in Geoms : Step(SetPosition(b, tl, g3))

\* The surface is unmapped when unmap_notify runs; the toplevel leaves its
\* workspace at the end.
Unmapping(tl) == LeaveTransaction([W EXCEPT !.tops[tl].phase = "unmapped"], tl)

Unlinked(w, tl) == [w EXCEPT !.tops[tl].homed = FALSE]

\* unmap_notify.
Unmap(tl) ==
  /\ tops[tl].phase = "mapped"
  /\ Step(Unlinked(Unmapping(tl), tl))

\* unmap_notify of the toplevel that is being dragged: Cursor::reset_mode, after
\* the removal, moves it back, swaps it or tiles the workspace with it.
UnmapGrabbed(tl) ==
  /\ tl \in Tileable
  /\ LET w == Unmapping(tl) IN
     \/ \E g \in Geoms : Step(Unlinked(SetPosition(w, tl, g), tl))
     \/ \E t \in FreeCells, layout \in Layouts(Tileable) :
          /\ tl \in DOMAIN layout
          /\ Step(Unlinked(Batch(w, t, layout), tl))

\* The destroy handler; wlroots unmaps a surface before it destroys it.
Destroy(tl) ==
  /\ tops[tl].phase = "unmapped"
  /\ Step([LeaveTransaction(W, tl) EXCEPT
             !.tops[tl] = [NewToplevel EXCEPT !.phase = "freed"]])

\* An output goes (its workspaces are orphaned, get_workspace() no longer finds
\* their toplevels) or comes back.
OutputChange ==
  \E S \in SUBSET Mapped \ {{}}, there \in BOOLEAN :
    /\ \A tl \in S : tops[tl].homed # there
    /\ Step([W EXCEPT !.tops = [tl \in Toplevels |->
               IF tl \in S THEN [@[tl] EXCEPT !.homed = there] ELSE @[tl]]])

Next ==
  \/ Tile
  \/ MoveOne
  \/ MoveOneAndTile
  \/ ResizeTree
  \/ MapOnly
  \/ MapFloating
  \/ MapTiled
  \/ OutputChange
  \/ \E tl \in Toplevels :
       \/ MoveByHand(tl)
       \/ DragOver(tl)
       \/ SurfaceCommit(tl)
       \/ XSurfaceCommit(tl)
       \/ Unmap(tl)
       \/ UnmapGrabbed(tl)
       \/ Destroy(tl)
  \/ \E t \in TxnId : Timeout(t)

\* The event loop dispatches a timer that has expired.
Fairness == \A t \in TxnId : WF_vars(Timeout(t))

Spec == Init /\ [][Next]_vars

FairSpec == Spec /\ Fairness

-----------------------------------------------------------------------------
(* Properties *)

\* Every object has its type, and a cell that holds no transaction holds no
\* timer or member of the last one either.
TypeOK ==
  /\ W \in World
  /\ \A t \in TxnId : ~txns[t].live => txns[t] = FreeTxn

\* Between two handlers every transaction is committed, has an entry and has a
\* timer that will end it; the current one is among them.  begin() may then
\* replace it at any time and no transaction is leaked.
EveryTransactionPending ==
  /\ \A t \in Live(W) : txns[t].committed /\ txns[t].armed /\ ~Empty(txns[t])
  /\ active \in Live(W) \cup {None}

\* A toplevel marked in_transaction is a member of a transaction that is still
\* alive: the mark, which makes its commits count for the transaction and keeps
\* an xwayland size from being adopted, never outlives the last transaction.
InTransactionCovered ==
  \A tl \in Toplevels : tops[tl].in_transaction =>
    \E t \in Live(W) : txns[t].entries[tl] # None

\* A toplevel that was asked for a size by the current transaction, and by no
\* other at that time, has left it by the time it is freed.
FreedHasLeft ==
  \A tl \in Toplevels :
    (tops[tl].phase = "freed" /\ active # None) =>
      \/ txns[active].entries[tl] = None
      \/ tl \in txns[active].late
      \/ txns[active].overlapped

Ended(t) == txns[t].live /\ ~txns'[t].live
StillThere(tl) == tl \in Tileable /\ tl \in Tileable'

\* A layout takes effect as a whole: the step that ends a transaction gives each
\* member that is still on a workspace its recorded box and shows it, but an X11
\* window whose own commit ended it and brought another size.  While a transaction
\* is current and goes on, nothing moves any other toplevel than by hand, by the
\* resize of a tree, or by the commit of that X11 window alone.
AtomicLayout ==
  [][/\ \A t \in TxnId : Ended(t) =>
          \A tl \in Members(txns[t]) : StillThere(tl) =>
            \/ tops'[tl].geometry = txns[t].entries[tl] /\ ~tops'[tl].hidden
            \/ XSurfaceCommit(tl)
     /\ (active # None /\ \A t \in TxnId : ~Ended(t)) =>
          \A tl \in Toplevels :
            (StillThere(tl) /\ tops'[tl].geometry # tops[tl].geometry) =>
              MoveByHand(tl) \/ DragOver(tl) \/ ResizeTree \/ XSurfaceCommit(tl)]_vars

\* The toplevel answers, or leaves.
Heard(tl) ==
  tops'[tl].phase # tops[tl].phase \/ SurfaceCommit(tl) \/ XSurfaceCommit(tl)

\* The current transaction ends in the handler of the last answer or departure it
\* waits for, and in no other but its timer's.  (One that waits for nobody from the
\* start, all of its boxes without a size, is ended by whichever comes first.)  One
\* that begin() has replaced is told of neither: it goes on waiting for the same
\* toplevels, whether they have answered or not, until its timer.
LastAnswerEnds ==
  [][\A t \in Live(W) :
       \/ /\ ~Ended(t)
          /\ txns'[t].waiting = {} => txns[t].waiting = {}
          /\ t # active => txns'[t].waiting = txns[t].waiting
       \/ /\ Ended(t)
          /\ t = active
          /\ \E tl \in Toplevels : txns[t].waiting \subseteq {tl} /\ Heard(tl)
       \/ Timeout(t)]_vars

\* begin() "commits any existing one first", commit() is to "commit and apply the
\* current transaction": transactions take effect in the order they began.
TakesEffectInOrder ==
  [][\A t \in TxnId : Ended(t) => txns[t].before = {}]_vars

\* "Remove a toplevel from any active transaction": a transaction that takes
\* effect refers to no toplevel that has been freed.
EndsWithoutFreed ==
  [][\A t \in TxnId : Ended(t) =>
       \A tl \in Members(txns[t]) : tops[tl].phase # "freed"]_vars

\* set_position_size() is to "set the position and size of a toplevel, send a
\* configure": the box a transaction that was alone gives a toplevel is the one
\* its client was last told.
AppliedWasConfigured ==
  [][\A t \in TxnId : (Ended(t) /\ ~txns[t].overlapped) =>
       \A tl \in Members(txns[t]) :
         (StillThere(tl) /\ txns[t].entries[tl] \notin NoBox) =>
           tops'[tl].configured = txns[t].entries[tl]]_vars

\* Every transaction ends, at its timeout if not before.
TransactionEnds == \A t \in TxnId : txns[t].live ~> ~txns[t].live

\* A new window that a layout has taken in does not stay hidden while it stays
\* mapped on a workspace.
HiddenIsShown ==
  \A tl \in Toplevels :
    (tops[tl].hidden /\ \E t \in TxnId : txns[t].entries[tl] # None)
      ~> (~tops[tl].hidden \/ tl \notin Tileable)
=============================================================================
