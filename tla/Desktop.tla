------------------------------ MODULE Desktop ------------------------------
(***************************************************************************)
(* Outputs that come and go, their workspaces, and the windows on them:    *)
(* src/src/WorkspaceManager.cpp with the handlers of Output, Workspace,    *)
(* Toplevel, WindowRule, Server and Cursor that move a window or show a    *)
(* workspace.                                                              *)
(*                                                                         *)
(* An output is known by its name and keeps it when it is plugged in       *)
(* again, as a monitor does; a headless output gets a new name each time.  *)
(* The layout of a workspace is left to Workspace and BSPTree, keyboard    *)
(* focus to Focus.                                                         *)
(***************************************************************************)
EXTENDS Naturals, Sequences, SequencesExt, Lists

CONSTANTS
  Names,    \* of outputs
  Count,    \* workspaces of an output, 10 in the code
  Windows,
  XWayland, \* those of X11 programs
  None

VARIABLES
  plugged,   \* the outputs
  desk,      \* the workspaces, see Desk
  orphaned,  \* WorkspaceManager::orphaned_outputs_map
  pinned,    \* Toplevel::pinned
  grab,      \* grabbed_toplevel
  pointer,   \* the output the cursor is on
  waiting,   \* Toplevel::scene_hidden_for_autotile
  lost       \* workspaces whose active window closed while their output was away
             \* (history)

vars == <<plugged, desk, orphaned, pinned, grab, pointer, waiting, lost>>

\* A workspace is known by the name of its output and its number.
Workspace == Names \X (1 .. Count)

\* list: WorkspaceManager::workspaces.  of: Workspace::output.  tops: its toplevels,
\* the head of the list first.  active: its active_toplevel.  hidden: the windows
\* whose node, the one set_hidden switches, is not enabled.
Desk == [list : Seq(Workspace), of : [Workspace -> Names \cup {None}],
         tops : [Workspace -> Seq(Windows)],
         active : [Workspace -> Windows \cup {None}], hidden : SUBSET Windows]

Orphans == [num : 1 .. Count, list : Seq(Workspace)]

\* None is a null pointer, and no object is.
ASSUME DesktopAssumption ==
  /\ Count \in Nat \ {0}
  /\ None \notin Names /\ None \notin Windows
  /\ None \notin Workspace /\ None \notin Orphans
  /\ XWayland \subseteq Windows

\* focused_output.  When the cursor is on no output it is nobody's.
Focused == IF pointer \in plugged THEN pointer ELSE None

-----------------------------------------------------------------------------
(* WorkspaceManager and Workspace *)

OfOutput(d, o) == Filter(d.list, {ws \in Workspace : d.of[ws] = o})

\* get_active_workspace: the first of the list.
Active(d, o) == IF OfOutput(d, o) = <<>> THEN None ELSE Head(OfOutput(d, o))

\* get_workspace_for_toplevel finds those that are in the list.
Holds(d, ws, w) == w \in Range(d.tops[ws])
Holder(d, w) == {ws \in Range(d.list) : Holds(d, ws, w)}
WorkspaceOf(d, w) == IF Holder(d, w) = {} THEN None
                     ELSE CHOOSE ws \in Holder(d, w) : TRUE

\* The window after active in the list, which is a ring.
After(s, w) == LET i == CHOOSE j \in DOMAIN s : s[j] = w IN s[(i % Len(s)) + 1]

\* Workspace::focus.
ShowWorkspace(d, ws) ==
  [d EXCEPT !.hidden = @ \ Range(d.tops[ws]),
            !.active[ws] = IF d.tops[ws] = <<>> THEN None
                           ELSE IF @ = None THEN Last(d.tops[ws]) ELSE @]

\* Mutant: the window stays in the list it came from.
MoveToInserted(d, w, from, to, at) ==
  IF from = to \/ ~Holds(d, from, w) THEN d
  ELSE [d EXCEPT
          !.hidden = IF d.of[from] = at THEN @ \cup {w} ELSE @,
          !.tops[to] = <<w>> \o @,
          !.active[from] = IF @ # w THEN @
                           ELSE IF Len(d.tops[from]) = 1 THEN None
                           ELSE After(d.tops[from], w),
          !.active[to] = w]

\* Workspace::move_to.  `at' is focused_output.
MoveTo(d, w, from, to, at) ==
  IF from = to \/ ~Holds(d, from, w) THEN d
  ELSE [d EXCEPT
          !.hidden = IF d.of[from] = at THEN @ \cup {w} ELSE @,
          !.tops[from] = Without(@, w),
          !.tops[to] = <<w>> \o @,
          !.active[from] = IF @ # w THEN @
                           ELSE IF Len(d.tops[from]) = 1 THEN None
                           ELSE After(d.tops[from], w),
          !.active[to] = w]

ToFront(list, ws) == <<ws>> \o Without(list, ws)

\* Its pinned windows follow, from the head of the list.
Follow(d, from, to, at) ==
  LET windows == Filter(d.tops[from], pinned)
      moved[i \in 0 .. Len(windows)] ==
        IF i = 0 THEN d ELSE MoveTo(moved[i - 1], windows[i], from, to, at)
  IN moved[Len(windows)]

\* Mutant: the pinned windows follow once the workspace is shown.
SetWorkspacePinnedLast(d, ws, at) ==
  LET previous == Active(d, d.of[ws])
      shown == ShowWorkspace(
                 [d EXCEPT !.hidden = @ \cup Range(d.tops[previous]),
                           !.list = ToFront(@, ws)], ws)
  IN IF previous \in {None, ws} THEN d ELSE Follow(shown, previous, ws, at)

\* Mutant: the windows of the previous workspace are not hidden.
SetWorkspaceUnhidden(d, ws, at) ==
  LET previous == Active(d, d.of[ws])
      front == [d EXCEPT !.list = ToFront(@, ws)]
  IN IF previous \in {None, ws} THEN d
     ELSE ShowWorkspace(Follow(front, previous, ws, at), ws)

\* WorkspaceManager::set_workspace.
SetWorkspace(d, ws, at) ==
  LET previous == Active(d, d.of[ws])
      front == [d EXCEPT !.hidden = @ \cup Range(d.tops[previous]),
                         !.list = ToFront(@, ws)]
  IN IF previous \in {None, ws} THEN d
     ELSE ShowWorkspace(Follow(front, previous, ws, at), ws)

\* Each workspace becomes o's and the new head of the list.
Insert(d, list, o) ==
  [d EXCEPT !.list = Reverse(list) \o @,
            !.of = [ws \in Workspace |-> IF ws \in Range(list) THEN o ELSE @[ws]]]

\* Mutant: no workspace is shown.
AdoptOnly(d, orphans, o, at) == Insert(d, orphans.list, o)

\* adopt_workspaces shows the workspace that was shown, not the last it inserted.
Adopt(d, orphans, o, at) ==
  SetWorkspace(Insert(d, orphans.list, o), <<o, orphans.num>>, at)

\* The workspaces of an output that is new.
Create(d, o, at) ==
  SetWorkspace(Insert(d, [i \in 1 .. Count |-> <<o, i>>], o), <<o, 1>>, at)

-----------------------------------------------------------------------------
(* Outputs *)

Init ==
  /\ plugged = {}
  /\ desk = [list |-> <<>>, of |-> [ws \in Workspace |-> None],
             tops |-> [ws \in Workspace |-> <<>>],
             active |-> [ws \in Workspace |-> None], hidden |-> {}]
  /\ orphaned = [o \in Names |-> None]
  /\ pinned = {}
  /\ grab = None
  /\ pointer \in Names
  /\ waiting = {}
  /\ lost = {}

\* Mutant: the entry is not erased.
KeepOrphan(o) == orphaned

\* orphaned_outputs_map.erase.
Erase(o) == [orphaned EXCEPT ![o] = None]

Dangles(ws) == desk.active[ws] # None /\ ~Holds(desk, ws, desk.active[ws])

\* Output's constructor.  The cursor is not on it before it is in the layout.  What
\* happens once a workspace whose active window is gone is adopted is undefined, and
\* left out.
Plug(o) ==
  /\ o \notin plugged
  /\ \A n \in 1 .. Count : ~Dangles(<<o, n>>)
  /\ plugged' = plugged \cup {o}
  /\ IF orphaned[o] = None
     THEN /\ desk' = Create(desk, o, Focused)
          /\ UNCHANGED orphaned
     ELSE /\ desk' = Adopt(desk, orphaned[o], o, Focused)
          /\ orphaned' = Erase(o)
  /\ pointer' = IF Focused = None THEN o ELSE pointer
  /\ UNCHANGED <<pinned, grab, waiting, lost>>

\* Output's destructor and orphanize_workspaces.
Unplug(o) ==
  /\ o \in plugged
  /\ plugged' = plugged \ {o}
  /\ desk' = [desk EXCEPT
                !.list = Filter(@, {ws \in Workspace : desk.of[ws] # o}),
                !.of = [ws \in Workspace |-> IF @[ws] = o THEN None ELSE @[ws]]]
  /\ orphaned' = [orphaned EXCEPT ![o] = [num |-> Active(desk, o)[2],
                                          list |-> OfOutput(desk, o)]]
  /\ pointer' \in IF pointer = o /\ plugged # {o} THEN plugged \ {o} ELSE {pointer}
  /\ UNCHANGED <<pinned, grab, waiting, lost>>

MovePointer(o) ==
  /\ o \in plugged \ {pointer}
  /\ pointer' = o
  /\ UNCHANGED <<plugged, desk, orphaned, pinned, grab, waiting, lost>>

-----------------------------------------------------------------------------
(* Windows *)

Listed == {w \in Windows : \E ws \in Workspace : Holds(desk, ws, w)}

Added(d, w, ws) == [d EXCEPT !.tops[ws] = <<w>> \o @, !.active[ws] = w]

\* map_notify without a rule.  A new surface's node is enabled.  For a workspace
\* that tiles (`hide') it is disabled until it has been laid out: an xdg window's
\* node, which set_hidden switches too, or the tree an X11 window's node is in.
Map(w, hide) ==
  /\ w \notin Listed
  /\ Focused # None
  /\ desk' = [Added(desk, w, Active(desk, Focused)) EXCEPT
                !.hidden = IF hide /\ w \notin XWayland THEN @ \cup {w} ELSE @ \ {w}]
  /\ waiting' = IF hide THEN waiting \cup {w} ELSE waiting
  /\ pinned' = pinned \ {w}
  /\ UNCHANGED <<plugged, orphaned, grab, pointer, lost>>

\* The layout it waits for has come, in set_position_size or as the transaction ends
\* it is part of (Transaction::apply).  Neither asks whether the window is hidden by
\* now.
Reveal(w) ==
  /\ w \in waiting
  /\ w \in XWayland => w \in Listed
  /\ waiting' = waiting \ {w}
  /\ desk' = IF w \in XWayland THEN desk ELSE [desk EXCEPT !.hidden = @ \ {w}]
  /\ UNCHANGED <<plugged, orphaned, pinned, grab, pointer, lost>>

\* map_notify with a rule that names a workspace and may pin the window.
MapByRule(w, ws) ==
  /\ w \notin Listed
  /\ ws \in Range(desk.list)
  /\ desk' = [Added(desk, w, ws) EXCEPT
                !.hidden = IF Active(desk, desk.of[ws]) = ws THEN @ \ {w} ELSE @ \cup {w}]
  /\ pinned' \in {pinned \ {w}, pinned \cup {w}}
  /\ UNCHANGED <<plugged, orphaned, grab, pointer, waiting, lost>>

\* Mutant: the grab outlives the window.
KeepGrab(w) == grab

\* reset_mode when it is the grabbed window that goes.
Released(w) == IF grab = w THEN None ELSE grab

\* Mutant: no other window takes over.
ClosedOnly(ws, w) == {desk.active[ws]}

\* What Workspace::close may leave as the active window.
Closed(ws, w) ==
  IF desk.active[ws] # w THEN {desk.active[ws]}
  ELSE IF Len(desk.tops[ws]) = 1 THEN {None}
  ELSE Range(desk.tops[ws]) \ {w}

\* unmap_notify.  A workspace without an output is not found, so it does not close
\* the window: it is only taken from the list.  When it is destroyed, too, the next
\* to have its name is another.
Unmap(w) ==
  /\ w \in Listed
  /\ grab' = Released(w)
  /\ \E ws \in Workspace :
       /\ Holds(desk, ws, w)
       /\ IF ws = WorkspaceOf(desk, w)
          THEN /\ \E t \in Closed(ws, w) :
                    desk' = [desk EXCEPT !.active[ws] = t,
                                         !.tops[ws] = Without(@, w),
                                         !.hidden = @ \ {w}]
               /\ UNCHANGED lost
          ELSE /\ desk' = [desk EXCEPT !.tops[ws] = Without(@, w), !.hidden = @ \ {w}]
               /\ lost' = IF desk.active[ws] = w THEN lost \cup {ws} ELSE lost
  /\ pinned' = pinned \ {w}
  /\ waiting' \in {waiting, waiting \ {w}}
  /\ UNCHANGED <<plugged, orphaned, pointer>>

-----------------------------------------------------------------------------
(* Binds, activation and the pointer *)

\* BIND_WORKSPACE_OPEN, and the request of the same name over IPC.
Open(n) ==
  /\ Focused # None
  /\ desk' = SetWorkspace(desk, <<Focused, n>>, Focused)
  /\ UNCHANGED <<plugged, orphaned, pinned, grab, pointer, waiting, lost>>

\* BIND_WORKSPACE_WINDOW_TO.
WindowTo(n) ==
  /\ Focused # None
  /\ LET current == Active(desk, Focused) IN
     /\ desk.active[current] # None
     /\ desk' = MoveTo(desk, desk.active[current], current, <<Focused, n>>, Focused)
  /\ UNCHANGED <<plugged, orphaned, pinned, grab, pointer, waiting, lost>>

\* BIND_WINDOW_PIN.
Pin ==
  /\ Focused # None
  /\ LET w == desk.active[Active(desk, Focused)] IN
     /\ w # None
     /\ pinned' = IF w \in pinned THEN pinned \ {w} ELSE pinned \cup {w}
  /\ UNCHANGED <<plugged, desk, orphaned, grab, pointer, waiting, lost>>

\* xdg_activation under FOWA_ANY: its workspace is shown, on whichever output.
Activate(w) ==
  /\ WorkspaceOf(desk, w) # None
  /\ desk' = SetWorkspace(desk, WorkspaceOf(desk, w), Focused)
  /\ UNCHANGED <<plugged, orphaned, pinned, grab, pointer, waiting, lost>>

\* begin_interactive, by a button, a bind or the client's request.  The workspace it
\* notes is for the layouts of reset_mode, which are Workspace's.
BeginMove(w) ==
  /\ w \in Listed
  /\ grab' = w
  /\ UNCHANGED <<plugged, desk, orphaned, pinned, pointer, waiting, lost>>

\* process_move: the window goes to the workspace under the cursor, unless it is
\* fullscreen, which is Workspace's.
DragOver ==
  /\ grab # None
  /\ Focused # None
  /\ WorkspaceOf(desk, grab) # None
  /\ desk' = MoveTo(desk, grab, WorkspaceOf(desk, grab), Active(desk, Focused),
                    Focused)
  /\ UNCHANGED <<plugged, orphaned, pinned, grab, pointer, waiting, lost>>

\* reset_mode.
EndMove ==
  /\ grab # None
  /\ grab' = None
  /\ UNCHANGED <<plugged, desk, orphaned, pinned, pointer, waiting, lost>>

Next ==
  \/ \E o \in Names : Plug(o) \/ Unplug(o) \/ MovePointer(o)
  \/ \E w \in Windows :
       \/ \E hide \in BOOLEAN : Map(w, hide)
       \/ Reveal(w) \/ Unmap(w) \/ Activate(w) \/ BeginMove(w)
       \/ \E ws \in Workspace : MapByRule(w, ws)
  \/ \E n \in 1 .. Count : Open(n) \/ WindowTo(n)
  \/ Pin \/ DragOver \/ EndMove

Spec == Init /\ [][Next]_vars

-----------------------------------------------------------------------------
(* Properties *)

\* Every variable keeps its type, and the grabbed window is one that is mapped.
TypeOK ==
  /\ plugged \subseteq Names
  /\ desk \in Desk
  /\ orphaned \in [Names -> Orphans \cup {None}]
  /\ pinned \subseteq Listed
  /\ grab \in Listed \cup {None}
  /\ pointer \in Names
  /\ waiting \subseteq Windows
  /\ lost \subseteq Workspace

\* A workspace of an output is in the manager's list, once, and one whose output is
\* away is among the orphans of its name, once: whatever is plugged and unplugged in
\* which order, an output has all its workspaces (WorkspaceManager.cpp:111).
WorkspacesKept ==
  \A o \in Names :
    LET mine == {<<o, i>> : i \in 1 .. Count} IN
    IF o \in plugged
    THEN /\ Range(OfOutput(desk, o)) = mine
         /\ IsInjective(OfOutput(desk, o))
         /\ orphaned[o] = None
    ELSE /\ OfOutput(desk, o) = <<>>
         /\ orphaned[o] # None =>
              Range(orphaned[o].list) = mine /\ IsInjective(orphaned[o].list)

\* A window is on one workspace, once, however it was moved, dragged and pinned.
OnOneWorkspace ==
  \A w \in Windows :
    \A x, y \in Workspace :
      /\ Holds(desk, x, w) /\ Holds(desk, y, w) => x = y
      /\ IsInjective(desk.tops[x])

\* A workspace's active window is on it, unless it closed while the output was away:
\* then the orphan keeps pointing to it (WorkspaceManager.cpp:111).
ActiveIsListed ==
  \A ws \in Workspace \ lost : desk.active[ws] # None => Holds(desk, ws, desk.active[ws])

\* A window is drawn.
Visible(w) == w \notin desk.hidden /\ ~(w \in XWayland /\ w \in waiting)

\* A workspace is what its output shows, or will show when it comes back.
ShownOn(ws) ==
  IF desk.of[ws] # None THEN Active(desk, desk.of[ws]) = ws
  ELSE orphaned[ws[1]] # None /\ ws = <<ws[1], orphaned[ws[1]].num>>

\* A window is drawn although its workspace is not shown.
Astray(w) ==
  \E ws \in Workspace : Holds(desk, ws, w) /\ ~ShownOn(ws) /\ Visible(w)

\* Nothing is drawn of a workspace that is not shown, as set_workspace says
\* (WorkspaceManager.cpp:71).  Transaction::apply breaks it (Transaction.cpp:171).
HiddenWithWorkspace == \A w \in Windows : ~Astray(w)

\* There is one way for a window to be drawn although its workspace is not shown: the
\* layout an xdg window has waited for since it was mapped comes after the switch.
\* No other step leads there, whatever is switched, moved, dragged, pinned, unplugged
\* and adopted, and it ends when its workspace is next switched (Workspace.cpp:262).
OnlyShownIsVisible ==
  [][\A w \in Windows :
       Astray(w)' /\ ~Astray(w) => w \in (waiting \ waiting') \ XWayland]_vars

\* When a workspace comes to be shown so do all windows on it, the pinned ones that
\* followed included (WorkspaceManager.cpp:74); but an X11 window waits for its layout.
SwitchingShows ==
  [][\A o \in plugged \cap plugged' :
       Active(desk', o) # Active(desk, o) =>
         \A w \in Range(desk'.tops[Active(desk', o)]) :
           Visible(w)' \/ w \in XWayland \cap waiting']_vars

\* An output that comes back shows the workspace it showed when it went.
ComesBackAsItWas ==
  [][\A o \in plugged' \ plugged :
       orphaned[o] # None => Active(desk', o) = <<o, orphaned[o].num>>]_vars
=============================================================================
