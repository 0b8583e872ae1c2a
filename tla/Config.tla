------------------------------- MODULE Config -------------------------------
(***************************************************************************)
(* The configuration of src/src/Config.cpp: how main finds it, what load   *)
(* makes of a file, and the timer of src/src/Server.cpp that looks once a  *)
(* second whether the file changed and hands the new values to the input   *)
(* devices, while an editor saves the file.                                *)
(*                                                                         *)
(* A text is what toml::parseFile returns: a function from the names the   *)
(* file holds to their values.  A value of another kind than the one asked *)
(* for is Wrong, which the getters of src/src/Toml.cpp treat as not there. *)
(*                                                                         *)
(* An editor never gives a file the time it has, nor the one update saw    *)
(* last: two saves within one tick of the file system's clock look the     *)
(* same to the code, and are left out.                                     *)
(***************************************************************************)
EXTENDS Naturals, FiniteSets

CONSTANTS
  Texts,      \* what the editor saves
  Stamps,     \* the times of last write
  Keyboards,
  Pointers,
  Compiles,   \* the keyboard settings xkb makes a keymap of
  Absent,     \* no file
  Broken      \* a file that is not TOML

\* Values of settings.
Default == "default"
Wrong == "wrong"
Unset == "unset"

\* The Alt+Escape that awm falls back on, alone.
Escape == "escape"

\* No keyboard.
None == "none"

\* Tables that are read as a whole: what they leave out has a default.
Whole == {"ipc", "keyboard", "general", "tiling"}

\* Parts of a table that are read by themselves, with their table.  tap is for
\* the keys of pointer.touchpad that load gives no default.
Part == [exec |-> "startup", env |-> "startup", exit_exec |-> "exit",
         xcursor |-> "pointer", mouse |-> "pointer", touchpad |-> "pointer",
         tap |-> "pointer"]

\* What stays as it was where the file does not name it.
Kept == {"binds", "commands", "outputs", "window_rules"}

Settings == Whole \cup DOMAIN Part \cup Kept
Names == Settings \cup {Part[p] : p \in DOMAIN Part}

\* What toml::parse makes of a file: a part is in its table.
IsText(t) == /\ DOMAIN t \subseteq Names
             /\ \A p \in DOMAIN t \cap DOMAIN Part : Part[p] \in DOMAIN t
             /\ \A n \in DOMAIN t : t[n] \notin {Default, Unset, Escape}

ASSUME ConfigAssumption ==
  /\ Stamps \subseteq Nat \ {0} /\ Cardinality(Stamps) > 2
  /\ {Absent, Broken} \cap Texts = {}
  /\ \A t \in Texts : IsText(t)

\* What a truncated file is parsed as: a root table with nothing in it.
Empty == [n \in {} |-> Wrong]

VARIABLES
  file,      \* what the configuration file holds
  stamp,     \* its time of last write
  saving,    \* an editor has truncated it and not yet written it
  path,      \* Config::path is not empty
  seen,      \* Config::last_write_time
  conf,      \* the settings of Config
  thread,    \* where the compositor is
  keyboards, \* the plugged keyboards
  seat,      \* the seat's current keyboard
  keymap,    \* the keymap each keyboard was given
  passed,    \* keyboards that were not the seat's at a reload
  pointers,  \* the plugged libinput pointers
  listed,    \* Cursor::pointers
  applied    \* the pointer settings each pointer was given

disk == <<file, stamp, saving>>
devices == <<keyboards, seat, keymap, passed, pointers, listed, applied>>
vars == <<disk, path, seen, conf, thread, devices>>

\* Where the compositor is, and how it can have ended.
Running == {"idle", "stat", "load"}
Ended == {"exited", "threw", "undefined"}
Thread == {"find", "first stat", "first load"} \cup Running \cup Ended

-----------------------------------------------------------------------------
(* Config::load *)

Has(text, n) == n \in DOMAIN text /\ text[n] # Wrong

\* A table that is left out resets what is read from it, a key that is left out
\* of startup, exit or pointer does not.
Resets(text, s) ==
  \/ s \in Whole
  \/ s \in DOMAIN Part /\ ~Has(text, Part[s])

Load(text, old) ==
  [s \in Settings |-> IF Has(text, s) THEN text[s]
                      ELSE IF Resets(text, s) THEN Default ELSE old[s]]

Parses == file \notin {Absent, Broken}

\* A file that cannot be read leaves everything as it was.
Loaded == IF Parses THEN Load(file, conf) ELSE conf

\* A setting that has a value in C++ before load, and the lists that are empty.
Initial == [s \in Settings |-> IF s \in Kept THEN Unset ELSE Default]

\* Keyboard::update_config falls back on xkb's own keymap.
Keymap(c) == IF c["keyboard"] \in Compiles THEN c["keyboard"] ELSE Default

PointerSettings(c) == [s \in {"mouse", "touchpad", "tap"} |-> c[s]]
Untouched == PointerSettings(Initial)

-----------------------------------------------------------------------------
(* The editor *)

Stamped == \E s \in Stamps \ {stamp, seen} : stamp' = s

\* open(O_TRUNC), and then the writing.
Truncate == /\ file # Absent /\ ~saving
            /\ file' = Empty /\ saving' = TRUE
            /\ Stamped

Fill == /\ saving
        /\ \E t \in Texts \cup {Broken} : file' = t
        /\ saving' = FALSE
        /\ Stamped

\* A new file, or one renamed over it.
Replace == /\ ~saving
           /\ \E t \in Texts \cup {Broken} : file' = t
           /\ Stamped
           /\ UNCHANGED saving

Remove == /\ file # Absent
          /\ file' = Absent /\ saving' = FALSE
          /\ UNCHANGED stamp

\* Nothing is modelled once the compositor has ended.
Edit == /\ thread \notin Ended
        /\ Truncate \/ Fill \/ Replace \/ Remove
        /\ UNCHANGED <<path, seen, conf, thread, devices>>

-----------------------------------------------------------------------------
(* main, the constructors of Config and Config::update *)

\* Mutant: the path is not kept.
FindPathless == /\ thread = "find"
                /\ \/ /\ file # Absent
                      /\ thread' = "first stat"
                      /\ UNCHANGED conf
                   \/ /\ file = Absent
                      /\ thread' = "idle"
                      /\ conf' = [conf EXCEPT !["binds"] = Escape]
                   \/ /\ file = Absent
                      /\ thread' = "exited"
                      /\ UNCHANGED conf
                /\ UNCHANGED <<disk, path, seen, devices>>

\* No file in any of the default places: a configuration without a path.  The
\* -c option names a file that has to be there.
Find == /\ thread = "find"
        /\ \/ /\ file # Absent
              /\ path' = TRUE /\ thread' = "first stat"
              /\ UNCHANGED conf
           \/ /\ file = Absent
              /\ thread' = "idle"
              /\ conf' = [conf EXCEPT !["binds"] = Escape]
              /\ UNCHANGED path
           \/ /\ file = Absent
              /\ thread' = "exited"
              /\ UNCHANGED <<path, conf>>
        /\ UNCHANGED <<disk, seen, devices>>

\* std::filesystem::last_write_time throws where the file has gone, and nothing
\* catches it.
Threw == /\ file = Absent
         /\ thread' = "threw"
         /\ UNCHANGED seen

FirstStat == /\ thread = "first stat"
             /\ \/ Threw
                \/ /\ file # Absent
                   /\ seen' = stamp /\ thread' = "first load"
             /\ UNCHANGED <<disk, path, conf, devices>>

FirstLoad == /\ thread = "first load"
             /\ conf' = Loaded
             /\ thread' = "idle"
             /\ UNCHANGED <<disk, path, seen, devices>>

\* The timer fires: does the file exist?
Exists == /\ thread = "idle" /\ path /\ file # Absent
          /\ thread' = "stat"
          /\ UNCHANGED <<disk, path, seen, conf, devices>>

\* Mutant: only a later time will do.
NewerLater == stamp > seen

\* Any other time will do.
Newer == stamp # seen

Stat == /\ thread = "stat"
        /\ \/ Threw
           \/ /\ file # Absent /\ Newer
              /\ seen' = stamp /\ thread' = "load"
           \/ /\ file # Absent /\ ~Newer
              /\ thread' = "idle"
              /\ UNCHANGED seen
        /\ UNCHANGED <<disk, path, conf, devices>>

\* The keyboard of the seat and every pointer that was ever configured get the
\* new values.  Without a keyboard, or with a pointer that has been unplugged,
\* the code follows a pointer that is null or freed.
Reload ==
  /\ thread = "load"
  /\ conf' = Loaded
  /\ \/ /\ seat = None \/ ~(listed \subseteq pointers)
        /\ thread' = "undefined"
        /\ UNCHANGED devices
     \/ /\ seat # None /\ listed \subseteq pointers
        /\ thread' = "idle"
        /\ keymap' = [keymap EXCEPT ![seat] = Keymap(conf')]
        /\ passed' = keyboards \ {seat}
        /\ applied' = [p \in Pointers |-> IF p \in listed THEN PointerSettings(conf')
                                          ELSE applied[p]]
        /\ UNCHANGED <<keyboards, seat, pointers, listed>>
  /\ UNCHANGED <<disk, path, seen>>

Compositor == Find \/ FirstStat \/ FirstLoad \/ Exists \/ Stat \/ Reload

-----------------------------------------------------------------------------
(* The devices, between two events of the loop *)

\* Keyboard's constructor, for a virtual keyboard too.
PlugKeyboard(k) == /\ k \notin keyboards
                   /\ keyboards' = keyboards \cup {k}
                   /\ seat' = k
                   /\ keymap' = [keymap EXCEPT ![k] = Keymap(conf)]
                   /\ passed' = passed \ {k}
                   /\ UNCHANGED <<pointers, listed, applied>>

\* wlroots takes a keyboard that goes from the seat and puts no other there.
UnplugKeyboard(k) == /\ k \in keyboards
                     /\ keyboards' = keyboards \ {k}
                     /\ seat' = IF seat = k THEN None ELSE seat
                     /\ passed' = passed \ {k}
                     /\ UNCHANGED <<keymap, pointers, listed, applied>>

\* A key no bind took, or a modifier: the seat takes its keyboard, as it is.
Press(k) == /\ k \in keyboards
            /\ seat' = k
            /\ UNCHANGED <<keyboards, keymap, passed, pointers, listed, applied>>

\* Mutant: set_config does not list the pointer.
PlugPointerUnlisted(p) == /\ p \notin pointers \cup listed
                          /\ pointers' = pointers \cup {p}
                          /\ applied' = [applied EXCEPT ![p] = PointerSettings(conf)]
                          /\ UNCHANGED <<keyboards, seat, keymap, passed, listed>>

\* Seat::new_input and Cursor::set_config.
PlugPointer(p) == /\ p \notin pointers \cup listed
                  /\ pointers' = pointers \cup {p}
                  /\ listed' = listed \cup {p}
                  /\ applied' = [applied EXCEPT ![p] = PointerSettings(conf)]
                  /\ UNCHANGED <<keyboards, seat, keymap, passed>>

\* Nothing takes a pointer that goes off Cursor::pointers.
UnplugPointer(p) == /\ p \in pointers
                    /\ pointers' = pointers \ {p}
                    /\ UNCHANGED <<keyboards, seat, keymap, passed, listed, applied>>

Device == /\ thread = "idle"
          /\ \/ \E k \in Keyboards : PlugKeyboard(k) \/ UnplugKeyboard(k) \/ Press(k)
             \/ \E p \in Pointers : PlugPointer(p) \/ UnplugPointer(p)
          /\ UNCHANGED <<disk, path, seen, conf, thread>>

-----------------------------------------------------------------------------
Init == /\ file \in Texts \cup {Broken, Absent}
        /\ stamp \in Stamps
        /\ saving = FALSE /\ path = FALSE
        /\ seen = 0
        /\ conf = Initial
        /\ thread = "find"
        /\ keyboards = {} /\ seat = None
        /\ keymap = [k \in Keyboards |-> Default]
        /\ passed = {} /\ pointers = {} /\ listed = {}
        /\ applied = [p \in Pointers |-> Untouched]

Next == Edit \/ Compositor \/ Device

Spec == Init /\ [][Next]_vars

\* The timer is set again whenever it has fired, and the loop serves it: the
\* compositor goes on.  The editor and the devices may stop for good.
FairSpec == Spec /\ WF_vars(Compositor)

-----------------------------------------------------------------------------
(* What should hold *)

\* Only what is plugged is typed on or passed over, and the configuration has a
\* path from the moment it has read a file.
TypeOK ==
  /\ thread \in Thread
  /\ stamp \in Stamps /\ seen \in Stamps \cup {0}
  /\ {saving, path} \subseteq BOOLEAN
  /\ DOMAIN conf = Settings
  /\ keyboards \subseteq Keyboards /\ passed \subseteq keyboards
  /\ seat \in keyboards \cup {None}
  /\ pointers \cup listed \subseteq Pointers
  /\ thread \in Running \ {"idle"} => path
  /\ seen # 0 => path

AtRest == thread = "idle" /\ path

\* Whatever the editor did between the steps of a reload: while the compositor
\* rests and the time it saw is the file's, reading the file again would change
\* nothing, and every device the reload is for has the settings in force.
FollowsFile ==
  AtRest =>
    /\ (Parses /\ seen = stamp) => Load(file, conf) = conf
    /\ \A p \in pointers : applied[p] = PointerSettings(conf)
    /\ \A k \in keyboards \ passed : keymap[k] = Keymap(conf)

\* A file that is saved and left alone comes into force, an older one that is
\* put in its place too, unless the compositor ends first.
PicksUp ==
  \A t \in Texts :
    (path /\ file = t /\ thread \notin Ended) ~>
      (file # t \/ Load(t, conf) = conf \/ thread \in Ended)
=============================================================================
