---------------------------- MODULE FocusProofs ----------------------------
(***************************************************************************)
(* The properties of Focus that say who may lock and unlock the session    *)
(* and who has the keyboard meanwhile, for any outputs, windows, layer     *)
(* surfaces and clients.  The invariants are inductive together, and the   *)
(* action properties follow from them step by step.                        *)
(***************************************************************************)
EXTENDS Focus, TLAPS

\* The four invariants that the runs check, together.
IInv == TypeOK /\ OneLock /\ SurfacesAreKnown /\ InhibitorLives

-----------------------------------------------------------------------------
(* What a part of the variables does for the invariant *)

\* An active window is one that its workspace lists, and the windows' outputs
\* exist: what TypeOK says of the windows.
WindowsTyped(where, which) ==
  /\ where \in [Windows -> Outputs \cup {None}]
  /\ which \in [Outputs -> Windows \cup {None}]
  /\ \A o \in Outputs : which[o] # None => where[which[o]] = o

\* An active window is listed exactly when it is on its output.
LEMMA TypedWindows ==
  ASSUME on \in [Windows -> Outputs \cup {None}],
         active \in [Outputs -> Windows \cup {None}]
  PROVE  (\A o \in Outputs : active[o] \in Listed(o) \cup {None})
           <=> WindowsTyped(on, active)
BY DEF WindowsTyped, Listed

\* The same after a step.
LEMMA TypedWindowsNext ==
  ASSUME WindowsTyped(on', active')
  PROVE  /\ on' \in [Windows -> Outputs \cup {None}]
         /\ active' \in [Outputs -> Windows \cup {None}]
         /\ \A o \in Outputs : active'[o] \in Listed(o)' \cup {None}
BY DEF WindowsTyped, Listed

\* A surface that Toplevel::focus leaves the keyboard to.
LEMMA FocusTyped ==
  ASSUME NEW isLocked \in BOOLEAN, NEW w, NEW before
  PROVE  /\ Focus(isLocked, w, before) \in {w, before}
         /\ isLocked => Focus(isLocked, w, before) = before
         /\ ~isLocked => Focus(isLocked, w, before) = w
BY DEF Focus

\* Nothing that leaves the session lock alone breaks what is said of it.
LEMMA LockUntouched ==
  ASSUME IInv, UNCHANGED lockVars
  PROVE  OneLock' /\ SurfacesAreKnown'
BY DEF IInv, lockVars, OneLock, SurfacesAreKnown

\* A step that leaves the lock and the inhibitors alone, moves the keyboard to a
\* surface there is, and keeps the windows typed, keeps the invariant.
LEMMA FocusMoves ==
  ASSUME IInv, UNCHANGED <<lockVars, inhibitVars>>,
         kbd' \in Windows \cup Layers \cup {kbd, None},
         WindowsTyped(on', active'), layers' \subseteq Layers, pointer' \in Outputs
  PROVE  IInv'
<1>1. OneLock' /\ SurfacesAreKnown'
  BY LockUntouched
<1>2. InhibitorLives'
  BY DEF IInv, InhibitorLives, inhibitVars
<1>3. TypeOK'
  BY TypedWindowsNext DEF IInv, TypeOK, lockVars, inhibitVars
<1>4. QED
  BY <1>1, <1>2, <1>3 DEF IInv

\* The types of what an action starts from.
LEMMA Typed ==
  ASSUME IInv
  PROVE  /\ locked \in BOOLEAN /\ background \in BOOLEAN /\ background = locked
         /\ WindowsTyped(on, active)
         /\ layers \subseteq Layers /\ pointer \in Outputs
         /\ kbd \in Windows \cup Layers \cup LockSurface \cup {None}
<1>1. locked \in BOOLEAN /\ background \in BOOLEAN /\ background = locked
  BY DEF IInv, TypeOK, OneLock
<1>2. WindowsTyped(on, active)
  BY TypedWindows DEF IInv, TypeOK
<1>3. QED
  BY <1>1, <1>2 DEF IInv, TypeOK

-----------------------------------------------------------------------------
(* The session lock *)

\* Of several lock surfaces none is on the output of another: they are all of the
\* lock that is held.
LEMMA SurfacesOfOneLock ==
  ASSUME IInv, NEW c \in Lockers, asking[c] = "held"
  PROVE  /\ lock = c /\ c # None /\ locked /\ lockSurfs = SurfacesOf(c)
         /\ lockSurfs \subseteq LockSurface
         /\ \A o \in Outputs : known[o] # None => known[o] \in SurfacesOf(c)
<1>1. lock = c /\ c # None
  BY FocusAssumption DEF IInv, OneLock
<1>2. QED
  BY <1>1 DEF IInv, OneLock, SurfacesAreKnown, SurfacesOf, TypeOK

\* A second lock is refused and changes nothing of the first.
LEMMA NewLockStep ==
  ASSUME IInv, NEW c \in Lockers, NewLock(c)
  PROVE  IInv'
<1>1. /\ asking[c] = "none" /\ background' = TRUE /\ c # None
      /\ UNCHANGED <<lockSurfs, known, kbd, windowVars, layers, inhibitVars, pointer>>
  BY FocusAssumption DEF NewLock
<1>2. CASE /\ lock # None
           /\ asking' = [asking EXCEPT ![c] = "refused"]
           /\ UNCHANGED <<lock, locked>>
  <2>1. locked = TRUE
    BY <1>2 DEF IInv, OneLock, TypeOK
  <2>2. OneLock' /\ SurfacesAreKnown'
    BY <1>1, <1>2, <2>1 DEF IInv, OneLock, SurfacesAreKnown, TypeOK
  <2>3. TypeOK' /\ InhibitorLives'
    BY <1>1, <1>2 DEF IInv, TypeOK, InhibitorLives, windowVars, inhibitVars, Listed
  <2>4. QED
    BY <2>2, <2>3 DEF IInv
<1>3. CASE /\ lock = None
           /\ asking' = [asking EXCEPT ![c] = "held"]
           /\ lock' = c
           /\ locked' = TRUE
  <2>1. lockSurfs = {}
    BY <1>3, FocusAssumption DEF IInv, SurfacesAreKnown, TypeOK, LockSurface
  <2>2. OneLock'
    BY <1>1, <1>3, FocusAssumption DEF IInv, OneLock, TypeOK
  <2>3. SurfacesAreKnown'
    BY <1>1, <2>1 DEF IInv, SurfacesAreKnown
  <2>4. TypeOK' /\ InhibitorLives'
    BY <1>1, <1>3 DEF IInv, TypeOK, InhibitorLives, windowVars, inhibitVars, Listed
  <2>5. QED
    BY <2>2, <2>3, <2>4 DEF IInv
<1>4. QED
  BY <1>2, <1>3 DEF NewLock

\* The surface is the only one on its output.
LEMMA NewLockSurfaceStep ==
  ASSUME IInv, NEW s \in LockSurface, NewLockSurface(s)
  PROVE  IInv'
<1>1. /\ s \notin lockSurfs /\ lockSurfs' = lockSurfs \cup {s}
      /\ known' = [known EXCEPT ![s.output] = s]
      /\ kbd' \in {s, kbd}
      /\ UNCHANGED <<locked, background, lock, asking, windowVars, layers,
                    inhibitVars, pointer>>
  BY DEF NewLockSurface
<1>2. s.locker \in Lockers /\ s.output \in Outputs /\ s.locker = lock
  BY SurfacesOfOneLock DEF NewLockSurface, LockSurface
<1>3. \A t \in lockSurfs : t.output # s.output
  <2> SUFFICES ASSUME NEW t \in lockSurfs, t.output = s.output PROVE FALSE
    OBVIOUS
  <2>1. t \in LockSurface /\ t.locker = s.locker
    BY <1>2 DEF IInv, SurfacesAreKnown, TypeOK
  <2>2. t = s
    BY <2>1 DEF LockSurface
  <2>3. QED
    BY <1>1, <2>2
<1>4. SurfacesAreKnown'
  BY <1>1, <1>2, <1>3 DEF IInv, SurfacesAreKnown, TypeOK, LockSurface
<1>5. OneLock' /\ InhibitorLives'
  BY <1>1 DEF IInv, OneLock, InhibitorLives, inhibitVars
<1>6. TypeOK'
  BY <1>1, <1>2 DEF IInv, TypeOK, windowVars, inhibitVars, Listed
<1>7. QED
  BY <1>4, <1>5, <1>6 DEF IInv

\* The output that knew the surface no longer does.
LEMMA LockSurfaceGoneStep ==
  ASSUME IInv, NEW s \in LockSurface, LockSurfaceGone(s)
  PROVE  IInv'
<1>1. /\ s \in lockSurfs /\ lockSurfs' = lockSurfs \ {s}
      /\ known' = [known EXCEPT ![s.output] = None]
      /\ kbd' \in (lockSurfs \ {s}) \cup {kbd, None}
      /\ UNCHANGED <<locked, background, lock, asking, windowVars, layers,
                    inhibitVars, pointer>>
  BY DEF LockSurfaceGone, Forget, windowVars
<1>2. s.output \in Outputs /\ known[s.output] = s
  BY <1>1 DEF IInv, SurfacesAreKnown, LockSurface
<1>3. SurfacesAreKnown'
  BY <1>1, <1>2 DEF IInv, SurfacesAreKnown, TypeOK, LockSurface
<1>4. OneLock' /\ InhibitorLives'
  BY <1>1 DEF IInv, OneLock, InhibitorLives, inhibitVars
<1>5. TypeOK'
  BY <1>1, <1>2 DEF IInv, TypeOK, windowVars, inhibitVars, Listed
<1>6. QED
  BY <1>3, <1>4, <1>5 DEF IInv

\* What Workspace::focus leaves when the session is not locked.
LEMMA FocusedWorkspace ==
  ASSUME IInv, FocusWorkspace(FALSE, pointer, None), on' = on
  PROVE  /\ WindowsTyped(on', active')
         /\ kbd' = active'[pointer] /\ kbd' \in Windows \cup {None}
         /\ kbd' = None <=> Listed(pointer) = {}
<1>1. WindowsTyped(on, active) /\ pointer \in Outputs
  BY Typed
<1>2. CASE Listed(pointer) = {}
  <2>1. active' = [active EXCEPT ![pointer] = None] /\ kbd' = None
    BY <1>2 DEF FocusWorkspace
  <2>2. QED
    BY <1>1, <1>2, <2>1 DEF WindowsTyped
<1>3. CASE Listed(pointer) # {}
  <2>1. PICK w \in Listed(pointer) :
          /\ active' = [active EXCEPT ![pointer] = w]
          /\ kbd' = w
    BY <1>3 DEF FocusWorkspace, Focus
  <2>2. w \in Windows /\ on[w] = pointer /\ w # None
    BY FocusAssumption DEF Listed
  <2>3. QED
    BY <1>1, <1>3, <2>1, <2>2 DEF WindowsTyped
<1>4. QED
  BY <1>2, <1>3

\* Nothing of a lock is left when it is undone.
LEMMA UnlockStep ==
  ASSUME IInv, NEW c \in Lockers, Unlock(c)
  PROVE  IInv'
<1>1. /\ asking[c] = "held" /\ locked' = FALSE /\ background' = FALSE
      /\ lock' = None /\ asking' = [asking EXCEPT ![c] = "unlocked"]
      /\ lockSurfs' = lockSurfs \ SurfacesOf(c)
      /\ known' = [o \in Outputs |-> IF known[o] \in SurfacesOf(c) THEN None
                                                                  ELSE known[o]]
      /\ FocusWorkspace(FALSE, pointer, None)
      /\ UNCHANGED <<on, layers, inhibitVars, pointer>>
  BY DEF Unlock
<1>2. /\ lock = c /\ lockSurfs' = {} /\ \A o \in Outputs : known'[o] = None
  BY <1>1, SurfacesOfOneLock
<1>3. OneLock' /\ SurfacesAreKnown'
  <2>1. \A d \in Lockers : asking'[d] = "held" <=> lock' = d
    BY <1>1, <1>2, FocusAssumption DEF IInv, OneLock, TypeOK
  <2>2. background' = locked' /\ lock' = None
    BY <1>1
  <2>3. QED
    BY <1>2, <2>1, <2>2 DEF OneLock, SurfacesAreKnown
<1>4. InhibitorLives'
  BY <1>1 DEF IInv, InhibitorLives, inhibitVars
<1>5. TypeOK'
  <2>1. known' \in [Outputs -> LockSurface \cup {None}]
    BY <1>1 DEF IInv, TypeOK
  <2>2. WindowsTyped(on', active') /\ kbd' \in Windows \cup {None}
    BY <1>1, FocusedWorkspace
  <2>3. asking' \in [Lockers -> {"none", "held", "refused", "unlocked"}]
    BY <1>1 DEF IInv, TypeOK
  <2>4. QED
    BY <1>1, <1>2, <2>1, <2>2, <2>3, TypedWindowsNext DEF IInv, TypeOK, inhibitVars
<1>6. QED
  BY <1>3, <1>4, <1>5 DEF IInv

\* Nothing of a lock is left when its client dies, but the session stays locked.
LEMMA LockGoneStep ==
  ASSUME IInv, NEW c \in Lockers, LockGone(c)
  PROVE  IInv'
<1>1. /\ asking[c] = "held" /\ locked' = TRUE /\ kbd' = None
      /\ lock' = None /\ asking' = [asking EXCEPT ![c] = "none"]
      /\ lockSurfs' = lockSurfs \ SurfacesOf(c)
      /\ known' = [o \in Outputs |-> IF known[o] \in SurfacesOf(c) THEN None
                                                                  ELSE known[o]]
      /\ UNCHANGED <<background, windowVars, layers, inhibitVars, pointer>>
  BY DEF LockGone
<1>2. /\ lock = c /\ locked /\ lockSurfs' = {}
      /\ \A o \in Outputs : known'[o] = None
  BY <1>1, SurfacesOfOneLock
<1>3. locked = TRUE /\ background = TRUE
  BY <1>2 DEF IInv, OneLock, TypeOK
<1>4. OneLock' /\ SurfacesAreKnown'
  BY <1>1, <1>2, <1>3, FocusAssumption DEF IInv, OneLock, SurfacesAreKnown, TypeOK
<1>5. InhibitorLives'
  BY <1>1 DEF IInv, InhibitorLives, inhibitVars
<1>6. TypeOK'
  <2>1. known' \in [Outputs -> LockSurface \cup {None}]
    BY <1>1 DEF IInv, TypeOK
  <2>2. QED
    BY <1>1, <1>2, <1>3, <2>1 DEF IInv, TypeOK, windowVars, inhibitVars, Listed
<1>7. QED
  BY <1>4, <1>5, <1>6 DEF IInv

\* A client without a lock forgets what became of it.
LEMMA FinishStep ==
  ASSUME IInv, NEW c \in Lockers, Finish(c)
  PROVE  IInv'
BY DEF Finish, IInv, TypeOK, OneLock, SurfacesAreKnown, InhibitorLives,
       windowVars, inhibitVars, Listed

-----------------------------------------------------------------------------
(* Windows, layer surfaces, the pointer, the keyboard and the inhibitor *)

\* A window that is given the keyboard is on its workspace, and one that goes is
\* no longer active.
LEMMA WindowSteps ==
  ASSUME IInv, NEW w \in Windows,
         \/ MapWindow(w) \/ UnmapWindow(w) \/ KeyBind(w) \/ MouseBind(w) \/ Activate(w)
  PROVE  IInv'
<1>1. /\ locked \in BOOLEAN /\ WindowsTyped(on, active) /\ w # None
      /\ layers \subseteq Layers /\ pointer \in Outputs
  BY Typed, FocusAssumption
<1>2. CASE MapWindow(w)
  <2>1. /\ on[w] = None /\ on' = [on EXCEPT ![w] = pointer]
        /\ active' = [active EXCEPT ![pointer] = w]
        /\ kbd' \in {w, kbd}
        /\ UNCHANGED <<lockVars, layers, inhibitVars, pointer>>
    BY <1>1, <1>2, FocusTyped DEF MapWindow
  <2>2. WindowsTyped(on', active')
    BY <1>1, <2>1, FocusAssumption DEF WindowsTyped
  <2>3. QED
    BY <1>1, <2>1, <2>2, FocusMoves
<1>3. CASE UnmapWindow(w)
  <2>1. /\ on[w] # None /\ on' = [on EXCEPT ![w] = None]
        /\ UNCHANGED <<lockVars, layers, inhibitVars, pointer>>
    BY <1>3 DEF UnmapWindow
  <2>2. /\ WindowsTyped(on', active')
        /\ kbd' \in Windows \cup {kbd, None}
    <3>1. CASE active[on[w]] # w /\ UNCHANGED <<active, kbd>>
      BY <1>1, <2>1, <3>1 DEF WindowsTyped
    <3>2. CASE active' = [active EXCEPT ![on[w]] = None] /\ kbd' = None
      BY <1>1, <2>1, <3>2 DEF WindowsTyped
    <3>3. ASSUME NEW t \in Others(w), active' = [active EXCEPT ![on[w]] = t],
                 kbd' = Focus(locked, t, kbd)
          PROVE  /\ WindowsTyped(on', active')
                 /\ kbd' \in Windows \cup {kbd, None}
      <4>1. t \in Windows \ {w} /\ on[t] = on[w]
        BY <3>3 DEF Others, Listed
      <4>2. kbd' \in {t, kbd}
        BY <1>1, <3>3, FocusTyped
      <4>3. QED
        BY <1>1, <2>1, <3>3, <4>1, <4>2 DEF WindowsTyped
    <3>4. QED
      BY <1>3, <3>1, <3>2, <3>3 DEF UnmapWindow
  <2>3. QED
    BY <1>1, <2>1, <2>2, FocusMoves
<1>4. CASE KeyBind(w) \/ MouseBind(w)
  <2>1. /\ on[w] = pointer /\ active' = [active EXCEPT ![pointer] = w]
        /\ kbd' \in {w, kbd}
        /\ UNCHANGED <<lockVars, on, layers, inhibitVars, pointer>>
    BY <1>1, <1>4, FocusTyped DEF KeyBind, MouseBind, FocusToplevel, Listed
  <2>2. WindowsTyped(on', active')
    BY <1>1, <2>1 DEF WindowsTyped
  <2>3. QED
    BY <1>1, <2>1, <2>2, FocusMoves
<1>5. CASE Activate(w)
  <2>1. /\ kbd' \in {w, kbd}
        /\ UNCHANGED <<lockVars, on, active, layers, inhibitVars, pointer>>
    BY <1>1, <1>5, FocusTyped DEF Activate, windowVars
  <2>2. QED
    BY <1>1, <2>1, FocusMoves
<1>6. QED
  BY <1>2, <1>3, <1>4, <1>5

\* What is under the pointer is a window of its workspace or a layer surface.
LEMMA PointerSteps ==
  ASSUME IInv,
         \/ \E s \in Windows \cup Layers : Hover(s) \/ Click(s)
         \/ \E o \in Outputs : MovePointer(o)
         \/ \E l \in Layers : MapLayer(l) \/ UnmapLayer(l)
         \/ Destroy
  PROVE  IInv'
<1>1. /\ locked \in BOOLEAN /\ WindowsTyped(on, active)
      /\ layers \subseteq Layers /\ pointer \in Outputs
  BY Typed
<1>2. ASSUME NEW s \in Windows \cup Layers, Hover(s) PROVE IInv'
  <2>1. /\ kbd' \in {s, kbd}
        /\ UNCHANGED <<lockVars, on, active, layers, inhibitVars, pointer>>
    BY <1>1, <1>2, FocusTyped DEF Hover, windowVars
  <2>2. QED
    BY <1>1, <2>1, FocusMoves
<1>3. ASSUME NEW s \in Windows \cup Layers, Click(s) PROVE IInv'
  <2>1. /\ kbd' \in {s, kbd}
        /\ \/ s \in Listed(pointer) /\ active' = [active EXCEPT ![pointer] = s]
           \/ UNCHANGED active
        /\ UNCHANGED <<lockVars, on, layers, inhibitVars, pointer>>
    BY <1>1, <1>3, FocusTyped DEF Click
  <2>2. WindowsTyped(on', active')
    BY <1>1, <2>1 DEF WindowsTyped, Listed
  <2>3. QED
    BY <1>1, <2>1, <2>2, FocusMoves
<1>4. ASSUME NEW o \in Outputs, MovePointer(o) PROVE IInv'
  BY <1>1, <1>4, FocusMoves DEF MovePointer, windowVars
<1>5. ASSUME NEW l \in Layers, MapLayer(l) \/ UnmapLayer(l) PROVE IInv'
  BY <1>1, <1>5, FocusMoves DEF MapLayer, UnmapLayer, windowVars
<1>6. CASE Destroy
  BY <1>1, <1>6, FocusMoves DEF Destroy, windowVars
<1>7. QED
  BY <1>2, <1>3, <1>4, <1>5, <1>6

\* The inhibitor that is active is one there is.
LEMMA InhibitorSteps ==
  ASSUME IInv, NEW w \in Windows, NewInhibitor(w) \/ InhibitorGone(w)
  PROVE  IInv'
<1>1. /\ inhibitors' \subseteq Windows /\ inhibitor' \in Windows \cup {None}
      /\ inhibitor' # None => inhibitor' \in inhibitors'
      /\ UNCHANGED <<lockVars, kbd, windowVars, layers, pointer>>
  BY DEF NewInhibitor, InhibitorGone, IInv, TypeOK, InhibitorLives
<1>2. OneLock' /\ SurfacesAreKnown'
  BY <1>1, LockUntouched
<1>3. TypeOK'
  BY <1>1 DEF IInv, TypeOK, lockVars, windowVars, Listed
<1>4. QED
  BY <1>1, <1>2, <1>3 DEF IInv, InhibitorLives

-----------------------------------------------------------------------------
(* The theorems *)

\* The invariants hold at first.
LEMMA InitIInv == Init => IInv
<1> SUFFICES ASSUME Init PROVE IInv
  OBVIOUS
<1>1. TypeOK
  BY DEF Init, TypeOK
<1>2. OneLock
  <2>1. \A c \in Lockers : asking[c] # "held" /\ lock # c
    BY FocusAssumption DEF Init
  <2>2. QED
    BY <2>1 DEF Init, OneLock
<1>3. SurfacesAreKnown /\ InhibitorLives
  BY DEF Init, SurfacesAreKnown, InhibitorLives
<1>4. QED
  BY <1>1, <1>2, <1>3 DEF IInv

\* Every step keeps them.
LEMMA NextIInv == IInv /\ [Next]_vars => IInv'
<1> SUFFICES ASSUME IInv, [Next]_vars PROVE IInv'
  OBVIOUS
<1>1. ASSUME NEW c \in Lockers, NewLock(c) \/ Unlock(c) \/ LockGone(c) \/ Finish(c)
      PROVE  IInv'
  BY <1>1, NewLockStep, UnlockStep, LockGoneStep, FinishStep
<1>2. ASSUME NEW s \in LockSurface, NewLockSurface(s) \/ LockSurfaceGone(s)
      PROVE  IInv'
  BY <1>2, NewLockSurfaceStep, LockSurfaceGoneStep
<1>3. ASSUME NEW w \in Windows,
             \/ MapWindow(w) \/ UnmapWindow(w) \/ KeyBind(w) \/ MouseBind(w)
             \/ Activate(w) \/ NewInhibitor(w) \/ InhibitorGone(w)
      PROVE  IInv'
  BY <1>3, WindowSteps, InhibitorSteps
<1>4. CASE \/ \E s \in Windows \cup Layers : Hover(s) \/ Click(s)
           \/ \E o \in Outputs : MovePointer(o)
           \/ \E l \in Layers : MapLayer(l) \/ UnmapLayer(l)
           \/ Destroy
  BY <1>4, PointerSteps
<1>5. CASE UNCHANGED vars
  BY <1>5 DEF vars, lockVars, windowVars, inhibitVars, IInv, TypeOK, OneLock,
              SurfacesAreKnown, InhibitorLives, Listed
<1>6. QED
  BY <1>1, <1>2, <1>3, <1>4, <1>5 DEF Next

\* The four invariants hold in every state that is reached.
THEOREM Inductive == Spec => []IInv
BY InitIInv, NextIInv, PTL DEF Spec

\* Every variable keeps its type, and an active window is one its workspace lists.
THEOREM FocusTypes == Spec => []TypeOK
<1>1. IInv => TypeOK
  BY DEF IInv
<1>2. QED
  BY Inductive, <1>1, PTL

\* There is one lock at most, and the session is covered exactly while it is locked.
THEOREM LockIsSingle == Spec => []OneLock
<1>1. IInv => OneLock
  BY DEF IInv
<1>2. QED
  BY Inductive, <1>1, PTL

\* Each output knows the lock surface it has, of the lock that is held.
THEOREM NoDanglingSurface == Spec => []SurfacesAreKnown
<1>1. IInv => SurfacesAreKnown
  BY DEF IInv
<1>2. QED
  BY Inductive, <1>1, PTL

\* The active shortcuts inhibitor exists.
THEOREM NoDanglingInhibitor == Spec => []InhibitorLives
<1>1. IInv => InhibitorLives
  BY DEF IInv
<1>2. QED
  BY Inductive, <1>1, PTL

\* A step that unlocks the session is its holder's.
LEMMA UnlockingStep ==
  ASSUME IInv, [Next]_vars, locked, ~locked'
  PROVE  \E c \in Lockers : Unlock(c)
<1>1. /\ \A c \in Lockers : NewLock(c) => locked' = locked \/ locked' = TRUE
      /\ \A c \in Lockers : LockGone(c) => locked' = TRUE
      /\ \A c \in Lockers : Finish(c) => locked' = locked
  BY DEF NewLock, LockGone, Finish
<1>2. \A s \in LockSurface :
        NewLockSurface(s) \/ LockSurfaceGone(s) => locked' = locked
  BY DEF NewLockSurface, LockSurfaceGone
<1>3. \A w \in Windows :
        \/ MapWindow(w) \/ UnmapWindow(w) \/ KeyBind(w) \/ MouseBind(w)
        \/ Activate(w) \/ NewInhibitor(w) \/ InhibitorGone(w)
        => locked' = locked
  BY DEF MapWindow, UnmapWindow, KeyBind, MouseBind, FocusToplevel, Activate,
         NewInhibitor, InhibitorGone, lockVars
<1>4. /\ \A l \in Layers : MapLayer(l) \/ UnmapLayer(l) => locked' = locked
      /\ \A s \in Windows \cup Layers : Hover(s) \/ Click(s) => locked' = locked
      /\ \A o \in Outputs : MovePointer(o) => locked' = locked
      /\ Destroy => locked' = locked
      /\ UNCHANGED vars => locked' = locked
  BY DEF MapLayer, UnmapLayer, Hover, Click, MovePointer, Destroy, vars, lockVars
<1>5. QED
  BY <1>1, <1>2, <1>3, <1>4 DEF Next

\* The session is unlocked only by the client whose lock it is.
THEOREM UnlockedByHolder == Spec => OnlyHolderUnlocks
<1>1. ASSUME IInv, [Next]_vars, locked, ~locked'
      PROVE  lock # None /\ asking[lock] = "held" /\ asking'[lock] = "unlocked"
  <2>1. PICK c \in Lockers : Unlock(c)
    BY <1>1, UnlockingStep
  <2>2. asking[c] = "held" /\ asking' = [asking EXCEPT ![c] = "unlocked"]
    BY <2>1 DEF Unlock
  <2>3. QED
    BY <1>1, <2>2, SurfacesOfOneLock DEF IInv, TypeOK
<1>2. QED
  BY Inductive, <1>1, PTL DEF Spec, OnlyHolderUnlocks

\* Unlocking gives the keyboard to the active window under the pointer, if any.
THEOREM UnlockGivesBack == Spec => UnlockRestores
<1>1. ASSUME IInv, [Next]_vars, locked, ~locked'
      PROVE  kbd' = active'[pointer] /\ (kbd' = None <=> Listed(pointer) = {})
  <2>1. PICK c \in Lockers : Unlock(c)
    BY <1>1, UnlockingStep
  <2>2. FocusWorkspace(FALSE, pointer, None) /\ on' = on
    BY <2>1 DEF Unlock
  <2>3. QED
    BY <1>1, <2>2, FocusedWorkspace
<1>2. QED
  BY Inductive, <1>1, PTL DEF Spec, UnlockRestores

\* While the session stays locked, a lock surface that stays loses the keyboard only
\* to another, to a layer surface, or to the end of a workspace's last window.
THEOREM LockSurfaceKeepsKeyboard == Spec => LockKeepsKeyboard
<1>1. ASSUME IInv, [Next]_vars,
             locked, locked', kbd \in lockSurfs \cap lockSurfs', kbd' # kbd
      PROVE  kbd' \in lockSurfs' \cup layers' \/ LastOfWorkspaceGoes
  <2>1. /\ kbd \notin Windows \cup Layers /\ locked = TRUE /\ background = TRUE
    BY <1>1, SurfaceAssumption DEF IInv, TypeOK, OneLock
  <2>2. ASSUME NEW c \in Lockers, NewLock(c) \/ Unlock(c) \/ LockGone(c) \/ Finish(c)
        PROVE  FALSE
    <3>1. asking[c] = "held" => lockSurfs \ SurfacesOf(c) = {}
      BY <1>1, SurfacesOfOneLock
    <3>2. QED
      BY <1>1, <2>2, <3>1 DEF NewLock, Unlock, LockGone, Finish
  <2>3. ASSUME NEW s \in LockSurface, NewLockSurface(s) \/ LockSurfaceGone(s)
        PROVE  kbd' \in lockSurfs'
    BY <1>1, <2>3 DEF NewLockSurface, LockSurfaceGone
  <2>4. ASSUME NEW w \in Windows,
               \/ MapWindow(w) \/ KeyBind(w) \/ MouseBind(w) \/ Activate(w)
               \/ NewInhibitor(w) \/ InhibitorGone(w)
        PROVE  FALSE
    <3>1. \A v : Focus(locked, v, kbd) = kbd
      BY <2>1 DEF Focus
    <3>2. QED
      BY <1>1, <2>4, <3>1 DEF MapWindow, KeyBind, MouseBind, FocusToplevel, Activate,
                             NewInhibitor, InhibitorGone
  <2>5. ASSUME NEW w \in Windows, UnmapWindow(w)
        PROVE  LastOfWorkspaceGoes
    <3>1. \A v : Focus(locked, v, kbd) = kbd
      BY <2>1 DEF Focus
    <3>2. Others(w) = {} /\ on[w] # None /\ on' = [on EXCEPT ![w] = None]
      BY <1>1, <2>5, <3>1 DEF UnmapWindow
    <3>3. Listed(on[w]) = {w} /\ on'[w] = None
      BY <3>2, <1>1 DEF Others, Listed, IInv, TypeOK
    <3>4. QED
      BY <3>2, <3>3 DEF LastOfWorkspaceGoes
  <2>6. ASSUME NEW l \in Layers, MapLayer(l) \/ UnmapLayer(l)
        PROVE  kbd' \in layers'
    BY <1>1, <2>6 DEF MapLayer, UnmapLayer
  <2>7. ASSUME \/ \E s \in Windows \cup Layers : Hover(s) \/ Click(s)
               \/ \E o \in Outputs : MovePointer(o)
               \/ Destroy
               \/ UNCHANGED vars
        PROVE  FALSE
    BY <1>1, <2>1, <2>7 DEF Hover, Click, MovePointer, Destroy, vars
  <2>8. QED
    BY <1>1, <2>2, <2>3, <2>4, <2>5, <2>6, <2>7 DEF Next
<1>2. QED
  BY Inductive, <1>1, PTL DEF Spec, LockKeepsKeyboard

=============================================================================
