------------------------------- MODULE Focus -------------------------------
(***************************************************************************)
(* Who has the keyboard: windows, layer surfaces and the session lock.     *)
(* src/src/SessionLock.cpp, with the handlers of Server, Cursor, Keyboard, *)
(* LayerSurface, Toplevel and Workspace that move keyboard focus.          *)
(*                                                                         *)
(* Of each output only the workspace it shows matters, and the windows on  *)
(* it are neither fullscreen nor another output's.  A keyboard is always   *)
(* attached, and an output is not unplugged while a lock surface covers    *)
(* it.  wlroots clears the keyboard focus of a surface it destroys, and    *)
(* destroys the surfaces of a lock before the lock.                        *)
(***************************************************************************)
EXTENDS Naturals, FiniteSets

CONSTANTS
  Outputs,
  Windows,
  Layers,        \* layer surfaces that want the keyboard
  Lockers,       \* clients that lock the session
  FocusOnHover,  \* general.focus_on_hover
  None

ASSUME FocusAssumption ==
  /\ Outputs # {}
  /\ FocusOnHover \in BOOLEAN
  /\ None \notin Outputs \cup Windows \cup Layers \cup Lockers

VARIABLES
  locked,      \* Server::locked
  background,  \* lock_background is enabled, and covers every output
  lock,        \* current_session_lock
  asking,      \* what has become of each client's lock
  lockSurfs,   \* the lock surfaces that exist
  known,       \* Output::lock_surface
  kbd,         \* the seat's focused surface
  on,          \* the output whose workspace lists a window, None when unmapped
  active,      \* that workspace's active_toplevel
  layers,      \* the mapped layer surfaces
  inhibitors,  \* windows that have a shortcuts inhibitor
  inhibitor,   \* active_keyboard_shortcuts_inhibitor
  pointer      \* focused_output

lockVars == <<locked, background, lock, asking, lockSurfs, known>>
windowVars == <<on, active>>
inhibitVars == <<inhibitors, inhibitor>>
vars == <<lockVars, kbd, windowVars, layers, inhibitVars, pointer>>

LockSurface == [locker : Lockers, output : Outputs]

ASSUME SurfaceAssumption ==
  (Windows \cup Layers \cup {None}) \cap LockSurface = {}

Listed(o) == {w \in Windows : on[w] = o}
SurfacesOf(c) == {s \in lockSurfs : s.locker = c}

Init ==
  /\ locked = FALSE
  /\ background = FALSE
  /\ lock = None
  /\ asking = [c \in Lockers |-> "none"]
  /\ lockSurfs = {}
  /\ known = [o \in Outputs |-> None]
  /\ kbd = None
  /\ on = [w \in Windows |-> None]
  /\ active = [o \in Outputs |-> None]
  /\ layers = {}
  /\ inhibitors = {}
  /\ inhibitor = None
  /\ pointer \in Outputs

-----------------------------------------------------------------------------
(* Where Toplevel::focus and Workspace::focus leave the keyboard *)

\* Mutant: a locked session is not asked about.
FocusAnyway(isLocked, w, before) == w

\* Toplevel::focus of a mapped window.
Focus(isLocked, w, before) == IF isLocked THEN before ELSE w

\* Workspace::focus: the active window, or any it lists.
FocusWorkspace(isLocked, o, before) ==
  IF Listed(o) = {}
  THEN /\ active' = [active EXCEPT ![o] = None]
       /\ kbd' = before
  ELSE \E w \in Listed(o) :
         /\ active[o] # None => w = active[o]
         /\ active' = [active EXCEPT ![o] = w]
         /\ kbd' = Focus(isLocked, w, before)

-----------------------------------------------------------------------------
(* The session lock *)

\* Mutant: a second lock replaces the first.
NewLockAnyway(c) ==
  /\ asking[c] = "none"
  /\ background' = TRUE
  /\ asking' = [asking EXCEPT ![c] = "held"]
  /\ lock' = c
  /\ locked' = TRUE
  /\ UNCHANGED <<lockSurfs, known, kbd, windowVars, layers, inhibitVars, pointer>>

\* new_session_lock.  Nothing takes the keyboard away from the window that has it.
NewLock(c) ==
  /\ asking[c] = "none"
  /\ background' = TRUE
  /\ IF lock # None
     THEN /\ asking' = [asking EXCEPT ![c] = "refused"]
          /\ UNCHANGED <<lock, locked>>
     ELSE /\ asking' = [asking EXCEPT ![c] = "held"]
          /\ lock' = c
          /\ locked' = TRUE
  /\ UNCHANGED <<lockSurfs, known, kbd, windowVars, layers, inhibitVars, pointer>>

\* SessionLock::new_surface.
NewLockSurface(s) ==
  /\ asking[s.locker] = "held"
  /\ s \notin lockSurfs
  /\ lockSurfs' = lockSurfs \cup {s}
  /\ known' = [known EXCEPT ![s.output] = s]
  /\ kbd' = IF pointer = s.output THEN s ELSE kbd
  /\ UNCHANGED <<locked, background, lock, asking, windowVars, layers, inhibitVars,
                 pointer>>

\* Mutant: the output keeps the surface.
ForgetLate(s) == known' = known

\* The output no longer has the surface.
Forget(s) == known' = [known EXCEPT ![s.output] = None]

\* destroy_lock_surface.  When the head of the lock's list is the surface that goes,
\* the keyboard goes with it.  A surface that has the keyboard is never of a session
\* that is unlocked, so the branch for that is not reached.
LockSurfaceGone(s) ==
  /\ s \in lockSurfs
  /\ lockSurfs' = lockSurfs \ {s}
  /\ Forget(s)
  /\ \/ /\ kbd # s
        /\ UNCHANGED <<kbd, active>>
     \/ /\ kbd = s
        /\ kbd' \in (lockSurfs \ {s}) \cup {None}
        /\ UNCHANGED active
  /\ UNCHANGED <<locked, background, lock, asking, on, layers, inhibitVars, pointer>>

\* Mutant: the workspace is focused before locked is cleared.
UnlockFocusFirst(c) ==
  /\ asking[c] = "held"
  /\ locked' = FALSE
  /\ background' = FALSE
  /\ FocusWorkspace(TRUE, pointer, None)
  /\ lock' = None
  /\ asking' = [asking EXCEPT ![c] = "unlocked"]
  /\ lockSurfs' = lockSurfs \ SurfacesOf(c)
  /\ known' = [o \in Outputs |-> IF known[o] \in SurfacesOf(c) THEN None ELSE known[o]]
  /\ UNCHANGED <<on, layers, inhibitVars, pointer>>

\* destroy_unlock(true); then wlroots destroys the lock's surfaces, none of which
\* has the keyboard by then.
Unlock(c) ==
  /\ asking[c] = "held"
  /\ locked' = FALSE
  /\ background' = FALSE
  /\ FocusWorkspace(FALSE, pointer, None)
  /\ lock' = None
  /\ asking' = [asking EXCEPT ![c] = "unlocked"]
  /\ lockSurfs' = lockSurfs \ SurfacesOf(c)
  /\ known' = [o \in Outputs |-> IF known[o] \in SurfacesOf(c) THEN None ELSE known[o]]
  /\ UNCHANGED <<on, layers, inhibitVars, pointer>>

\* Mutant: the end of the client unlocks the session.
LockGoneUnlocking(c) ==
  /\ asking[c] = "held"
  /\ locked' = FALSE
  /\ kbd' = None
  /\ lock' = None
  /\ asking' = [asking EXCEPT ![c] = "none"]
  /\ lockSurfs' = lockSurfs \ SurfacesOf(c)
  /\ known' = [o \in Outputs |-> IF known[o] \in SurfacesOf(c) THEN None ELSE known[o]]
  /\ UNCHANGED <<background, windowVars, layers, inhibitVars, pointer>>

\* The client ends without unlocking: its surfaces go, then destroy_unlock(false).
LockGone(c) ==
  /\ asking[c] = "held"
  /\ locked' = TRUE
  /\ kbd' = None
  /\ lock' = None
  /\ asking' = [asking EXCEPT ![c] = "none"]
  /\ lockSurfs' = lockSurfs \ SurfacesOf(c)
  /\ known' = [o \in Outputs |-> IF known[o] \in SurfacesOf(c) THEN None ELSE known[o]]
  /\ UNCHANGED <<background, windowVars, layers, inhibitVars, pointer>>

\* The client has seen the end of its lock and may ask again.
Finish(c) ==
  /\ asking[c] \in {"refused", "unlocked"}
  /\ asking' = [asking EXCEPT ![c] = "none"]
  /\ UNCHANGED <<locked, background, lock, lockSurfs, known, kbd, windowVars, layers,
                 inhibitVars, pointer>>

-----------------------------------------------------------------------------
(* Windows and layer surfaces *)

\* map_notify and add_toplevel, on the workspace under the pointer.
MapWindow(w) ==
  /\ on[w] = None
  /\ on' = [on EXCEPT ![w] = pointer]
  /\ active' = [active EXCEPT ![pointer] = w]
  /\ kbd' = Focus(locked, w, kbd)
  /\ UNCHANGED <<lockVars, layers, inhibitVars, pointer>>

\* Mutant: the window that goes may take over from itself.
OthersOrSelf(w) == Listed(on[w])

\* What get_topmost_toplevel chooses from.
Others(w) == Listed(on[w]) \ {w}

\* unmap_notify and Workspace::close: the topmost of the others takes over, and
\* when there is none nobody has the keyboard.
UnmapWindow(w) ==
  /\ on[w] # None
  /\ on' = [on EXCEPT ![w] = None]
  /\ \/ /\ active[on[w]] # w
        /\ UNCHANGED <<active, kbd>>
     \/ /\ active[on[w]] = w
        /\ Others(w) = {}
        /\ active' = [active EXCEPT ![on[w]] = None]
        /\ kbd' = None
     \/ /\ active[on[w]] = w
        /\ \E t \in Others(w) :
             /\ active' = [active EXCEPT ![on[w]] = t]
             /\ kbd' = Focus(locked, t, kbd)
  /\ UNCHANGED <<lockVars, layers, inhibitVars, pointer>>

\* LayerSurface's map: handle_focus does not ask whether the session is locked.
MapLayer(l) ==
  /\ l \notin layers
  /\ layers' = layers \cup {l}
  /\ kbd' = l
  /\ UNCHANGED <<lockVars, windowVars, inhibitVars, pointer>>

\* LayerSurface's unmap: nobody else is given the keyboard.
UnmapLayer(l) ==
  /\ l \in layers
  /\ layers' = layers \ {l}
  /\ UNCHANGED <<lockVars, kbd, windowVars, inhibitVars, pointer>>

\* The seat forgets an unmapped surface when it is destroyed.
Destroy ==
  /\ \/ kbd \in Windows /\ on[kbd] = None
     \/ kbd \in Layers \ layers
  /\ kbd' = None
  /\ UNCHANGED <<lockVars, windowVars, layers, inhibitVars, pointer>>

-----------------------------------------------------------------------------
(* The pointer and the keyboard *)

MovePointer(o) ==
  /\ pointer # o
  /\ pointer' = o
  /\ UNCHANGED <<lockVars, kbd, windowVars, layers, inhibitVars>>

\* process_motion.  Nothing is found below the lock background.
Hover(s) ==
  /\ FocusOnHover
  /\ ~background
  /\ \/ s \in Listed(pointer) /\ kbd' = Focus(locked, s, kbd)
     \/ s \in layers /\ kbd' = s
  /\ UNCHANGED <<lockVars, windowVars, layers, inhibitVars, pointer>>

\* A button is pressed on a window or a layer surface.
Click(s) ==
  /\ ~background
  /\ \/ /\ s \in Listed(pointer)
        /\ active' = [active EXCEPT ![pointer] = s]
        /\ kbd' = Focus(locked, s, kbd)
     \/ /\ s \in layers
        /\ kbd' = s
        /\ UNCHANGED active
  /\ UNCHANGED <<lockVars, on, layers, inhibitVars, pointer>>

FocusToplevel(w) ==
  /\ w \in Listed(pointer)
  /\ active' = [active EXCEPT ![pointer] = w]
  /\ kbd' = Focus(locked, w, kbd)
  /\ UNCHANGED <<lockVars, on, layers, inhibitVars, pointer>>

\* A key bind that focuses another window of the workspace.
KeyBind(w) ==
  /\ ~locked
  /\ inhibitor = None
  /\ w # active[pointer]
  /\ FocusToplevel(w)

\* The same bind on a mouse button, which does not ask whether the session is locked.
MouseBind(w) ==
  /\ inhibitor = None
  /\ w # active[pointer]
  /\ FocusToplevel(w)

\* xdg_activation and foreign_activate: Toplevel::focus of a mapped window.
Activate(w) ==
  /\ on[w] # None
  /\ kbd' = Focus(locked, w, kbd)
  /\ UNCHANGED <<lockVars, windowVars, layers, inhibitVars, pointer>>

-----------------------------------------------------------------------------
(* The shortcuts inhibitor *)

NewInhibitor(w) ==
  /\ w \notin inhibitors
  /\ inhibitors' = inhibitors \cup {w}
  /\ inhibitor' = IF inhibitor = None THEN w ELSE inhibitor
  /\ UNCHANGED <<lockVars, kbd, windowVars, layers, pointer>>

\* Mutant: the active inhibitor is not reset.
InhibitorGoneKept(w) ==
  /\ w \in inhibitors
  /\ inhibitors' = inhibitors \ {w}
  /\ UNCHANGED <<lockVars, kbd, windowVars, layers, inhibitor, pointer>>

\* Only the active one has a destroy listener.
InhibitorGone(w) ==
  /\ w \in inhibitors
  /\ inhibitors' = inhibitors \ {w}
  /\ inhibitor' = IF inhibitor = w THEN None ELSE inhibitor
  /\ UNCHANGED <<lockVars, kbd, windowVars, layers, pointer>>

-----------------------------------------------------------------------------
Next ==
  \/ \E c \in Lockers : NewLock(c) \/ Unlock(c) \/ LockGone(c) \/ Finish(c)
  \/ \E s \in LockSurface : NewLockSurface(s) \/ LockSurfaceGone(s)
  \/ \E w \in Windows :
       \/ MapWindow(w) \/ UnmapWindow(w) \/ KeyBind(w) \/ MouseBind(w) \/ Activate(w)
       \/ NewInhibitor(w) \/ InhibitorGone(w)
  \/ \E l \in Layers : MapLayer(l) \/ UnmapLayer(l)
  \/ \E s \in Windows \cup Layers : Hover(s) \/ Click(s)
  \/ \E o \in Outputs : MovePointer(o)
  \/ Destroy

Spec == Init /\ [][Next]_vars

-----------------------------------------------------------------------------
(* Properties *)

\* Every variable keeps its type, and an active window is one its workspace lists.
TypeOK ==
  /\ {locked, background} \subseteq BOOLEAN
  /\ lock \in Lockers \cup {None}
  /\ asking \in [Lockers -> {"none", "held", "refused", "unlocked"}]
  /\ lockSurfs \subseteq LockSurface
  /\ known \in [Outputs -> LockSurface \cup {None}]
  /\ kbd \in Windows \cup Layers \cup LockSurface \cup {None}
  /\ on \in [Windows -> Outputs \cup {None}]
  /\ active \in [Outputs -> Windows \cup {None}]
  /\ \A o \in Outputs : active[o] \in Listed(o) \cup {None}
  /\ layers \subseteq Layers
  /\ inhibitors \subseteq Windows
  /\ inhibitor \in Windows \cup {None}
  /\ pointer \in Outputs

\* While the session is locked its windows are covered, and only then; the current
\* lock is the only one any client holds, and one that is refused or has died
\* neither replaces it nor uncovers anything (Server.cpp:671, SessionLock.cpp:100).
OneLock ==
  /\ background = locked
  /\ lock # None => locked
  /\ \A c \in Lockers : asking[c] = "held" <=> lock = c

\* Output::lock_surface points to a surface that exists, of the lock that is held,
\* and each lock surface is the one its output knows (SessionLock.cpp:30).
SurfacesAreKnown ==
  /\ \A s \in lockSurfs : known[s.output] = s /\ s.locker = lock
  /\ \A o \in Outputs : known[o] # None => known[o] \in lockSurfs /\ known[o].output = o

\* active_keyboard_shortcuts_inhibitor is never one that was destroyed, whichever of
\* several inhibitors goes first (Server.cpp:884).
InhibitorLives == inhibitor # None => inhibitor \in inhibitors

\* The session is unlocked only by the client whose lock it is: not by its death, nor
\* by another that locks and unlocks meanwhile.
OnlyHolderUnlocks ==
  [][locked /\ ~locked' => /\ lock # None
                           /\ asking[lock] = "held" /\ asking'[lock] = "unlocked"]_vars

\* Unlocking gives the keyboard to the active window under the pointer, or to nobody
\* when there is none (SessionLock.cpp:100 clears `locked' before it focuses).
UnlockRestores ==
  [][locked /\ ~locked' => /\ kbd' = active'[pointer]
                           /\ kbd' = None <=> Listed(pointer) = {}]_vars

LastOfWorkspaceGoes ==
  \E w \in Windows : on[w] # None /\ on'[w] = None /\ Listed(on[w]) = {w}

\* A lock surface that has the keyboard keeps it as long as it exists, unless another
\* lock surface takes it, a layer surface is mapped, or the last window of a workspace
\* closes: those two do not ask whether the session is locked.
LockKeepsKeyboard ==
  [][locked /\ locked' /\ kbd \in lockSurfs \cap lockSurfs' /\ kbd' # kbd
       => kbd' \in lockSurfs' \cup layers' \/ LastOfWorkspaceGoes]_vars
=============================================================================
