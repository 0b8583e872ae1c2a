---------------------------- MODULE ConfigProofs ----------------------------
(***************************************************************************)
(* The safety properties of Config, for any texts, times, keyboards and    *)
(* pointers: what a reload leaves is what the file says, whatever an       *)
(* editor did between its steps.                                           *)
(***************************************************************************)
EXTENDS Config, TLAPS

-----------------------------------------------------------------------------
(* The inductive invariant *)

\* Before the first load has ended there are no devices.
Start == {"find", "first stat", "first load"}

\* The settings follow the file as long as the time that was seen is its time:
\* also while the timer looks, when it has not yet seen another.
InForce ==
  thread \in {"idle", "stat"} /\ path /\ Parses /\ seen = stamp =>
    Load(file, conf) = conf

\* Nothing is plugged before the configuration is there, and what is plugged has
\* the settings in force, until the next reload changes both.
Handed ==
  /\ thread \in Start => keyboards = {} /\ pointers = {}
  /\ thread \in Running =>
       /\ \A p \in pointers : p \in listed /\ applied[p] = PointerSettings(conf)
       /\ \A k \in keyboards \ passed : keymap[k] = Keymap(conf)

\* keymap and applied have an entry for each device there may be, and a
\* configuration without a path stays where it is.
Shape ==
  /\ keymap = [k \in Keyboards |-> keymap[k]]
  /\ applied = [p \in Pointers |-> applied[p]]
  /\ thread \in {"first stat", "first load"} => path

IInv == TypeOK /\ InForce /\ Handed /\ Shape

-----------------------------------------------------------------------------
(* Config::load *)

\* Reading a file a second time changes nothing.
LEMMA LoadAgain ==
  ASSUME NEW text, NEW old
  PROVE  /\ Load(text, Load(text, old)) = Load(text, old)
         /\ DOMAIN Load(text, old) = Settings
<1> DEFINE once == Load(text, old)
<1>1. /\ DOMAIN once = Settings
      /\ \A s \in Settings :
           once[s] = IF Has(text, s) THEN text[s]
                     ELSE IF Resets(text, s) THEN Default ELSE old[s]
  BY DEF Load
<1>2. \A s \in Settings :
        (IF Has(text, s) THEN text[s]
         ELSE IF Resets(text, s) THEN Default ELSE once[s]) = once[s]
  BY <1>1
<1>3. once = [s \in Settings |-> once[s]]
  BY DEF Load
<1>4. Load(text, once) = once
  BY <1>2, <1>3 DEF Load
<1>5. QED
  BY <1>1, <1>4

\* What a load leaves when the file can be read, and when it cannot.
LEMMA LoadedIsInForce ==
  ASSUME DOMAIN conf = Settings, conf' = Loaded, file' = file
  PROVE  /\ DOMAIN conf' = Settings
         /\ Parses' => Load(file', conf') = conf'
BY LoadAgain DEF Loaded, Parses

-----------------------------------------------------------------------------
(* The steps *)

\* A save gives the file a time that was not seen.
LEMMA EditStep ==
  ASSUME IInv, Edit
  PROVE  IInv'
<1>1. /\ UNCHANGED <<path, seen, conf, thread>>
      /\ UNCHANGED <<keyboards, seat, keymap, passed, pointers, listed, applied>>
      /\ stamp' \in Stamps /\ saving' \in BOOLEAN
      /\ (stamp' # stamp /\ stamp' # seen) \/ file' = Absent
  BY DEF Edit, Truncate, Fill, Replace, Remove, Stamped, devices, IInv, TypeOK
<1>2. TypeOK'
  BY <1>1 DEF IInv, TypeOK
<1>3. InForce'
  BY <1>1 DEF InForce, Parses
<1>4. Handed' /\ Shape'
  BY <1>1 DEF IInv, Handed, Shape
<1>5. QED
  BY <1>2, <1>3, <1>4 DEF IInv

\* Finding, looking and loading before there are devices.
LEMMA StartStep ==
  ASSUME IInv, Find \/ FirstStat \/ FirstLoad
  PROVE  IInv'
<1>1. /\ UNCHANGED <<file, stamp, saving>>
      /\ UNCHANGED <<keyboards, seat, keymap, passed, pointers, listed, applied>>
      /\ thread \in Start /\ keyboards = {} /\ pointers = {}
  BY DEF Find, FirstStat, FirstLoad, disk, devices, IInv, Handed, Start
<1>2. CASE Find
  <2>1. /\ thread' \in {"first stat", "idle", "exited"}
        /\ thread' = "first stat" => path' = TRUE
        /\ thread' # "first stat" => path' = path /\ file = Absent
        /\ DOMAIN conf' = Settings /\ seen' = seen
        /\ path' \in BOOLEAN /\ path => path'
    BY <1>2 DEF Find, IInv, TypeOK
  <2>2. TypeOK'
    BY <1>1, <2>1 DEF IInv, TypeOK, Thread, Running, Ended
  <2>3. InForce' /\ Handed' /\ Shape'
    BY <1>1, <2>1 DEF IInv, InForce, Parses, Handed, Shape, Start, Running
  <2>4. QED
    BY <2>2, <2>3 DEF IInv
<1>3. CASE FirstStat
  <2>1. /\ thread = "first stat" /\ path
        /\ thread' \in {"first load", "threw"}
        /\ seen' \in {seen, stamp} /\ UNCHANGED <<path, conf>>
    BY <1>3 DEF FirstStat, Threw, IInv, Shape
  <2>2. TypeOK'
    BY <1>1, <2>1 DEF IInv, TypeOK, Thread, Running, Ended
  <2>3. InForce' /\ Handed' /\ Shape'
    BY <1>1, <2>1 DEF IInv, InForce, Handed, Shape, Start, Running
  <2>4. QED
    BY <2>2, <2>3 DEF IInv
<1>4. CASE FirstLoad
  <2>1. /\ thread = "first load" /\ path /\ thread' = "idle"
        /\ conf' = Loaded /\ UNCHANGED <<path, seen>>
    BY <1>4 DEF FirstLoad, IInv, Shape
  <2>2. DOMAIN conf' = Settings /\ (Parses' => Load(file', conf') = conf')
    BY <1>1, <2>1, LoadedIsInForce DEF IInv, TypeOK
  <2>3. TypeOK'
    BY <1>1, <2>1, <2>2 DEF IInv, TypeOK, Thread, Running
  <2>4. InForce'
    BY <2>2 DEF InForce
  <2>5. Handed' /\ Shape'
    BY <1>1, <2>1 DEF IInv, Handed, Shape, Start, Running
  <2>6. QED
    BY <2>3, <2>4, <2>5 DEF IInv
<1>5. QED
  BY <1>2, <1>3, <1>4

\* The timer: it looks, and finds the time it has seen or another.
LEMMA TimerStep ==
  ASSUME IInv, Exists \/ Stat
  PROVE  IInv'
<1>1. /\ UNCHANGED <<file, stamp, saving, path, conf>>
      /\ UNCHANGED <<keyboards, seat, keymap, passed, pointers, listed, applied>>
      /\ thread \in {"idle", "stat"} /\ path
      /\ thread' \in {"idle", "stat", "load", "threw"}
      /\ thread' \in {"idle", "stat"} => seen' = seen
      /\ seen' \in {seen, stamp}
  BY DEF Exists, Stat, Threw, disk, devices, IInv, TypeOK, Running
<1>2. TypeOK'
  BY <1>1 DEF IInv, TypeOK, Thread, Running, Ended
<1>3. InForce'
  BY <1>1 DEF IInv, InForce, Parses
<1>4. Handed' /\ Shape'
  BY <1>1 DEF IInv, Handed, Shape, Start, Running
<1>5. QED
  BY <1>2, <1>3, <1>4 DEF IInv

\* Every pointer that is plugged is listed, and the keyboards a reload passes over
\* are all but the seat's.
LEMMA ReloadStep ==
  ASSUME IInv, Reload
  PROVE  IInv'
<1>1. /\ UNCHANGED <<file, stamp, saving, path, seen>>
      /\ UNCHANGED <<keyboards, seat, pointers, listed>>
      /\ thread = "load" /\ path /\ conf' = Loaded
  BY DEF Reload, disk, devices, IInv, TypeOK, Running
<1>2. DOMAIN conf' = Settings /\ (Parses' => Load(file', conf') = conf')
  BY <1>1, LoadedIsInForce DEF IInv, TypeOK
<1>3. InForce'
  BY <1>2 DEF InForce
<1>4. CASE thread' = "undefined" /\ UNCHANGED devices
  <2>1. TypeOK'
    BY <1>1, <1>2, <1>4 DEF IInv, TypeOK, Thread, Running, Ended, devices
  <2>2. Handed' /\ Shape'
    BY <1>1, <1>4 DEF IInv, Handed, Shape, Start, Running, devices
  <2>3. QED
    BY <1>3, <2>1, <2>2 DEF IInv
<1>5. CASE /\ seat # None /\ thread' = "idle"
           /\ keymap' = [keymap EXCEPT ![seat] = Keymap(conf')]
           /\ passed' = keyboards \ {seat}
           /\ applied' = [p \in Pointers |-> IF p \in listed THEN PointerSettings(conf')
                                             ELSE applied[p]]
  <2>1. seat \in keyboards /\ seat \in Keyboards /\ pointers \subseteq Pointers
    BY <1>5 DEF IInv, TypeOK
  <2>2. TypeOK'
    BY <1>1, <1>2, <1>5 DEF IInv, TypeOK, Thread, Running
  <2>3. \A k \in keyboards \ passed' : keymap'[k] = Keymap(conf')
    BY <1>5, <2>1 DEF IInv, Shape
  <2>4. \A p \in pointers : p \in listed /\ applied'[p] = PointerSettings(conf')
    BY <1>1, <1>5, <2>1 DEF IInv, Handed, Running
  <2>5. Handed'
    BY <1>1, <1>5, <2>3, <2>4 DEF Handed, Start
  <2>6. Shape'
    BY <1>1, <1>5 DEF IInv, Shape
  <2>7. QED
    BY <1>3, <2>2, <2>5, <2>6 DEF IInv
<1>6. QED
  BY <1>4, <1>5 DEF Reload

\* What Device needs of the devices and keeps.
Fitting ==
  /\ keyboards \subseteq Keyboards /\ passed \subseteq keyboards
  /\ seat \in keyboards \cup {None} /\ pointers \cup listed \subseteq Pointers
  /\ keymap = [k \in Keyboards |-> keymap[k]]
  /\ applied = [p \in Pointers |-> applied[p]]
  /\ \A p \in pointers : p \in listed /\ applied[p] = PointerSettings(conf)
  /\ \A k \in keyboards \ passed : keymap[k] = Keymap(conf)

\* A device that is plugged is given the settings in force.
LEMMA DeviceStep ==
  ASSUME IInv, Device
  PROVE  IInv'
<1>1. UNCHANGED <<file, stamp, saving, path, seen, conf, thread>> /\ thread = "idle"
  BY DEF Device, disk
<1>2. Fitting
  BY <1>1 DEF IInv, TypeOK, Shape, Handed, Running, Fitting
<1>3. InForce'
  BY <1>1 DEF IInv, InForce, Parses
<1>4. Fitting'
  <2>1. ASSUME NEW k \in Keyboards, PlugKeyboard(k) PROVE Fitting'
    BY <1>1, <1>2, <2>1 DEF PlugKeyboard, Fitting
  <2>2. ASSUME NEW k \in Keyboards, UnplugKeyboard(k) \/ Press(k) PROVE Fitting'
    BY <1>1, <1>2, <2>2 DEF UnplugKeyboard, Press, Fitting
  <2>3. ASSUME NEW p \in Pointers, PlugPointer(p) PROVE Fitting'
    BY <1>1, <1>2, <2>3 DEF PlugPointer, Fitting
  <2>4. ASSUME NEW p \in Pointers, UnplugPointer(p) PROVE Fitting'
    BY <1>1, <1>2, <2>4 DEF UnplugPointer, Fitting
  <2>5. QED
    BY <2>1, <2>2, <2>3, <2>4 DEF Device
<1>5. TypeOK'
  BY <1>1, <1>4 DEF IInv, TypeOK, Running, Fitting
<1>6. Handed' /\ Shape'
  BY <1>1, <1>4 DEF IInv, Handed, Shape, Start, Fitting
<1>7. QED
  BY <1>3, <1>5, <1>6 DEF IInv

-----------------------------------------------------------------------------
(* The theorems *)

\* Nothing is plugged, seen or in force before main has looked for the file.
LEMMA InitIInv == Init => IInv
BY DEF Init, IInv, TypeOK, InForce, Handed, Shape, Initial, Start, Thread, Running,
       Ended

\* What a reload leaves is what the file says, after every step.
THEOREM Inductive == Spec => []IInv
<1>1. IInv /\ [Next]_vars => IInv'
  <2> SUFFICES ASSUME IInv, [Next]_vars PROVE IInv'
    OBVIOUS
  <2>1. CASE UNCHANGED vars
    BY <2>1 DEF vars, disk, devices, IInv, TypeOK, InForce, Parses, Handed, Shape
  <2>2. QED
    BY <2>1, EditStep, StartStep, TimerStep, ReloadStep, DeviceStep
    DEF Next, Compositor
<1>2. QED
  BY InitIInv, <1>1, PTL DEF Spec

\* The settings, the file's times and the devices keep their types, and only what is
\* plugged is typed on.
THEOREM ConfigTypes == Spec => []TypeOK
<1>1. IInv => TypeOK
  BY DEF IInv
<1>2. QED
  BY Inductive, <1>1, PTL

\* At rest with the file's time seen, reading the file again would change nothing,
\* and every device a reload is for has the settings in force.
THEOREM FileIsFollowed == Spec => []FollowsFile
<1>1. IInv => FollowsFile
  BY DEF IInv, InForce, Handed, FollowsFile, AtRest, Running
<1>2. QED
  BY Inductive, <1>1, PTL

=============================================================================
