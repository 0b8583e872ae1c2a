--------------------------- MODULE DesktopProofs ---------------------------
(***************************************************************************)
(* The properties of Desktop for any outputs, windows and number of        *)
(* workspaces: what set_workspace, move_to and the pinned windows that     *)
(* follow do to the lists, and the invariant that plugging, unplugging and *)
(* all moves keep.                                                         *)
(***************************************************************************)
EXTENDS Desktop, ListProofs

-----------------------------------------------------------------------------
(* What is said of a desk *)

\* The workspaces of an output.
Mine(o) == {ws \in Workspace : ws[1] = o}

\* The list has the workspaces of the outputs P, each once.
Listing(d, P) ==
  /\ IsInjective(d.list)
  /\ \A ws \in Workspace :
       /\ ws \in Range(d.list) <=> ws[1] \in P
       /\ d.of[ws] = IF ws[1] \in P THEN ws[1] ELSE None

\* A window is on one workspace, once.
Apart(d) ==
  /\ \A x \in Workspace : IsInjective(d.tops[x])
  /\ \A x, y \in Workspace : x # y => Range(d.tops[x]) \cap Range(d.tops[y]) = {}

Placed(d) == {w \in Windows : \E ws \in Workspace : Holds(d, ws, w)}

\* The active window of x is on it.
ActiveFine(d, x) == d.active[x] # None => Holds(d, x, d.active[x])

\* The windows on x whose node is enabled.
Drawn(d, x) == Range(d.tops[x]) \ d.hidden

\* What stays as it is, and what becomes of the rest, when windows move from one
\* workspace to another.
Moves(d, e, from, to) ==
  /\ e \in Desk
  /\ e.list = d.list
  /\ e.of = d.of
  /\ \A x \in Workspace \ {from, to} : e.tops[x] = d.tops[x]
  /\ Range(e.tops[from]) \subseteq Range(d.tops[from])
  /\ Placed(e) = Placed(d)
  /\ d.hidden \subseteq e.hidden
  /\ Apart(e)
  /\ \A x \in Workspace : ActiveFine(d, x) => ActiveFine(e, x)

\* The fields of a desk.
LEMMA DeskFields ==
  ASSUME NEW d \in Desk
  PROVE  /\ d.list \in Seq(Workspace)
         /\ d.of \in [Workspace -> Names \cup {None}]
         /\ d.tops \in [Workspace -> Seq(Windows)]
         /\ d.active \in [Workspace -> Windows \cup {None}]
         /\ d.hidden \subseteq Windows
BY DEF Desk

\* The windows of a workspace are windows, and finitely many.
LEMMA TopsOf ==
  ASSUME NEW d \in Desk, NEW x \in Workspace
  PROVE  d.tops[x] \in Seq(Windows) /\ Range(d.tops[x]) \subseteq Windows
<1>1. d.tops[x] \in Seq(Windows)
  BY DEF Desk
<1>2. QED
  BY <1>1, RangeOfSeq

-----------------------------------------------------------------------------
(* The workspace an output shows *)

\* The first workspace of o in the list is the one it shows.
LEMMA ActiveIsFirst ==
  ASSUME NEW P \in SUBSET Names, NEW d \in Desk, Listing(d, P), NEW o \in P
  PROVE  /\ Active(d, o) \in Mine(o)
         /\ Active(d, o) \in Range(d.list)
         /\ IsFirst(Active(d, o), d.list, Mine(o))
         /\ Active(d, o) # None
<1> DEFINE S == {ws \in Workspace : d.of[ws] = o}
<1>1. S = Mine(o)
  BY DesktopAssumption DEF Listing, Mine
<1>2. d.list \in Seq(Workspace)
  BY DEF Desk
<1>3. <<o, 1>> \in Mine(o) /\ <<o, 1>> \in Workspace
  BY DesktopAssumption DEF Mine, Workspace
<1>4. <<o, 1>> \in Range(d.list)
  BY <1>3 DEF Listing, Mine
<1>5. Filter(d.list, Mine(o)) # << >>
  BY <1>2, <1>3, <1>4, FilterEmpty
<1>6. Active(d, o) = Head(Filter(d.list, Mine(o)))
  BY <1>1, <1>5 DEF Active, OfOutput
<1>7. IsFirst(Active(d, o), d.list, Mine(o))
  BY <1>2, <1>5, <1>6, FilterFirst
<1>8. Active(d, o) \in Mine(o) /\ Active(d, o) \in Range(d.list)
  BY <1>7 DEF IsFirst, Range
<1>9. Active(d, o) # None
  BY <1>8, DesktopAssumption DEF Mine
<1>10. QED
  BY <1>7, <1>8, <1>9

\* The other way round.
LEMMA FirstIsActive ==
  ASSUME NEW P \in SUBSET Names, NEW d \in Desk, Listing(d, P), NEW o \in P,
         NEW ws, IsFirst(ws, d.list, Mine(o))
  PROVE  Active(d, o) = ws
<1>1. d.list \in Seq(Workspace)
  BY DEF Desk
<1>2. QED
  BY <1>1, ActiveIsFirst, FirstUnique

\* An output that is not plugged in shows nothing.
LEMMA NothingShown ==
  ASSUME NEW P \in SUBSET Names, NEW d \in Desk, Listing(d, P), NEW o \in Names \ P
  PROVE  OfOutput(d, o) = << >> /\ Active(d, o) = None
<1> DEFINE S == {ws \in Workspace : d.of[ws] = o}
<1>1. S = {}
  BY DesktopAssumption DEF Listing
<1>2. d.list \in Seq(Workspace)
  BY DEF Desk
<1>3. OfOutput(d, o) = << >>
  BY <1>1, <1>2, FilterEmpty DEF OfOutput
<1>4. QED
  BY <1>3 DEF Active

\* The workspaces of an output in the list: all of them, once.
LEMMA AllOfOutput ==
  ASSUME NEW P \in SUBSET Names, NEW d \in Desk, Listing(d, P), NEW o \in P
  PROVE  /\ OfOutput(d, o) \in Seq(Workspace)
         /\ Range(OfOutput(d, o)) = Mine(o)
         /\ IsInjective(OfOutput(d, o))
<1> DEFINE S == {ws \in Workspace : d.of[ws] = o}
<1>1. S = Mine(o)
  BY DesktopAssumption DEF Listing, Mine
<1>2. d.list \in Seq(Workspace) /\ IsInjective(d.list)
  BY DEF Desk, Listing
<1>3. OfOutput(d, o) = Filter(d.list, Mine(o))
  BY <1>1 DEF OfOutput
<1>4. Range(d.list) \cap Mine(o) = Mine(o)
  BY DEF Listing, Mine
<1>5. /\ Filter(d.list, Mine(o)) \in Seq(Workspace)
      /\ Range(Filter(d.list, Mine(o))) = Range(d.list) \cap Mine(o)
      /\ IsInjective(Filter(d.list, Mine(o)))
  BY <1>2, FilterElements
<1>6. QED
  BY <1>3, <1>4, <1>5

\* What only depends on the list and the outputs.
LEMMA SameList ==
  ASSUME NEW d, NEW e, e.list = d.list, e.of = d.of
  PROVE  /\ \A P : Listing(d, P) => Listing(e, P)
         /\ \A o : Active(e, o) = Active(d, o) /\ OfOutput(e, o) = OfOutput(d, o)
BY DEF Listing, Active, OfOutput

\* The workspace that is found for a window holds it.
LEMMA WorkspaceFound ==
  ASSUME NEW d \in Desk, NEW w, WorkspaceOf(d, w) # None
  PROVE  /\ WorkspaceOf(d, w) \in Workspace
         /\ WorkspaceOf(d, w) \in Range(d.list)
         /\ Holds(d, WorkspaceOf(d, w), w)
<1>1. d.list \in Seq(Workspace)
  BY DEF Desk
<1>2. Range(d.list) \subseteq Workspace
  BY <1>1, RangeOfSeq
<1>3. WorkspaceOf(d, w) \in Holder(d, w)
  BY DEF WorkspaceOf
<1>4. QED
  BY <1>2, <1>3 DEF Holder

-----------------------------------------------------------------------------
(* Workspace::move_to *)

\* A window that is not the last of its workspace has another after it.
LEMMA AfterIsAnother ==
  ASSUME NEW s \in Seq(Windows), IsInjective(s), NEW w \in Range(s), Len(s) # 1
  PROVE  After(s, w) \in Range(s) \ {w}
<1>1. Len(s) \in Nat /\ DOMAIN s = 1 .. Len(s)
  OBVIOUS
<1>2. PICK i : i = (CHOOSE j \in DOMAIN s : s[j] = w) /\ i \in DOMAIN s /\ s[i] = w
  BY DEF Range
<1>3. i \in 1 .. Len(s) /\ Len(s) > 1
  BY <1>1, <1>2
<1>4. (i % Len(s)) + 1 \in 1 .. Len(s) /\ (i % Len(s)) + 1 # i
  <2>1. CASE i = Len(s)
    <3>1. i % Len(s) = 0
      BY <1>1, <1>3, <2>1
    <3>2. QED
      BY <1>3, <2>1, <3>1
  <2>2. CASE i < Len(s)
    <3>1. i % Len(s) = i
      BY <1>1, <1>3, <2>2
    <3>2. QED
      BY <1>1, <1>3, <2>2, <3>1
  <2>3. i = Len(s) \/ i < Len(s)
    <3>1. i \in Nat /\ i <= Len(s)
      BY <1>1, <1>3
    <3>2. \A m, n \in Nat : m <= n => m = n \/ m < n
      OBVIOUS
    <3>3. QED
      BY <1>1, <3>1, <3>2
  <2>4. QED
    BY <2>1, <2>2, <2>3
<1>5. s[(i % Len(s)) + 1] # w
  BY <1>1, <1>2, <1>4 DEF IsInjective
<1>6. After(s, w) = s[(i % Len(s)) + 1]
  BY <1>2 DEF After
<1>7. QED
  BY <1>1, <1>4, <1>5, <1>6 DEF Range

\* e is d with w moved.
Moved(d, e, w, from, to, at) ==
  /\ e \in Desk
  /\ e.list = d.list
  /\ e.of = d.of
  /\ e.hidden = IF d.of[from] = at THEN d.hidden \cup {w} ELSE d.hidden
  /\ \A x \in Workspace :
       e.tops[x] = IF x = to THEN <<w>> \o d.tops[to]
                   ELSE IF x = from THEN Without(d.tops[from], w)
                   ELSE d.tops[x]
  /\ \A x \in Workspace :
       e.active[x] = IF x = to THEN w
                     ELSE IF x # from \/ d.active[from] # w THEN d.active[x]
                     ELSE IF Len(d.tops[from]) = 1 THEN None
                     ELSE After(d.tops[from], w)

\* The fields of what move_to makes of a desk.
LEMMA MoveToFields ==
  ASSUME NEW d \in Desk, NEW w \in Windows, NEW from \in Workspace, NEW to \in Workspace,
         NEW at, from # to, Holds(d, from, w), IsInjective(d.tops[from])
  PROVE  Moved(d, MoveTo(d, w, from, to, at), w, from, to, at)
<1> DEFINE tops == [d.tops EXCEPT ![from] = Without(@, w), ![to] = <<w>> \o @]
           next == IF d.active[from] # w THEN d.active[from]
                   ELSE IF Len(d.tops[from]) = 1 THEN None
                   ELSE After(d.tops[from], w)
           active == [d.active EXCEPT ![from] = next, ![to] = w]
           hidden == IF d.of[from] = at THEN d.hidden \cup {w} ELSE d.hidden
           e == [d EXCEPT !.hidden = hidden, !.tops = tops, !.active = active]
<1>1. MoveTo(d, w, from, to, at) = e
  BY DEF MoveTo, Desk

<1>2. d.tops[from] \in Seq(Windows) /\ d.tops[to] \in Seq(Windows)
  BY DeskFields
<1>3. w \in Range(d.tops[from])
  BY DEF Holds
<1>4. next \in Windows \cup {None}
  <2>1. Range(d.tops[from]) \subseteq Windows
    BY <1>2, RangeOfSeq
  <2>2. CASE d.active[from] = w /\ Len(d.tops[from]) # 1
    BY <1>2, <1>3, <2>1, <2>2, AfterIsAnother
  <2>3. QED
    BY <2>2, DeskFields
<1>5. /\ tops \in [Workspace -> Seq(Windows)]
      /\ \A x \in Workspace :
           tops[x] = IF x = to THEN <<w>> \o d.tops[to]
                     ELSE IF x = from THEN Without(d.tops[from], w)
                     ELSE d.tops[x]
  <2>1. Without(d.tops[from], w) \in Seq(Windows)
    BY <1>2, WithoutElements
  <2>2. <<w>> \o d.tops[to] \in Seq(Windows)
    BY <1>2, ConsElements
  <2>3. QED
    BY <2>1, <2>2, DeskFields
<1>6. /\ active \in [Workspace -> Windows \cup {None}]
      /\ \A x \in Workspace :
           active[x] = IF x = to THEN w
                       ELSE IF x # from \/ d.active[from] # w THEN d.active[x]
                       ELSE IF Len(d.tops[from]) = 1 THEN None
                       ELSE After(d.tops[from], w)
  <2> HIDE DEF next
  <2>1. /\ active \in [Workspace -> Windows \cup {None}]
        /\ \A x \in Workspace :
             active[x] = IF x = to THEN w ELSE IF x = from THEN next ELSE d.active[x]
    BY <1>4, DeskFields
  <2>2. QED
    BY <2>1 DEF next
<1>7. hidden \subseteq Windows
  BY DeskFields
<1> HIDE DEF tops, active, hidden, next
<1>8. /\ e \in Desk /\ e.list = d.list /\ e.of = d.of
      /\ e.hidden = hidden /\ e.tops = tops /\ e.active = active
  BY <1>5, <1>6, <1>7 DEF Desk
<1> HIDE DEF e
<1>9. Moved(d, e, w, from, to, at)
  BY <1>5, <1>6, <1>8 DEF hidden, Moved
<1>10. QED
  BY <1>1, <1>9

\* The windows of each workspace after move_to.
LEMMA MoveToRanges ==
  ASSUME NEW d \in Desk, Apart(d), NEW w \in Windows,
         NEW from \in Workspace, NEW to \in Workspace,
         NEW at, from # to, Holds(d, from, w)
  PROVE  LET e == MoveTo(d, w, from, to, at) IN
         /\ Range(e.tops[to]) = {w} \cup Range(d.tops[to])
         /\ Range(e.tops[from]) = Range(d.tops[from]) \ {w}
         /\ \A x \in Workspace \ {from, to} : e.tops[x] = d.tops[x]
         /\ \A x \in Workspace : IsInjective(e.tops[x])
<1> DEFINE e == MoveTo(d, w, from, to, at)
<1>1. \A x \in Workspace : IsInjective(d.tops[x]) /\ d.tops[x] \in Seq(Windows)
  BY TopsOf DEF Apart
<1>2. Moved(d, e, w, from, to, at)
  BY <1>1, MoveToFields
<1> HIDE DEF e
<1>3. w \notin Range(d.tops[to])
  BY DEF Apart, Holds
<1>4. /\ Range(<<w>> \o d.tops[to]) = {w} \cup Range(d.tops[to])
      /\ IsInjective(<<w>> \o d.tops[to])
  BY <1>1, <1>3, ConsElements
<1>5. /\ Range(Without(d.tops[from], w)) = Range(d.tops[from]) \ {w}
      /\ IsInjective(Without(d.tops[from], w))
  BY <1>1, WithoutElements
<1>6. /\ e.tops[to] = <<w>> \o d.tops[to]
      /\ e.tops[from] = Without(d.tops[from], w)
      /\ \A x \in Workspace \ {from, to} : e.tops[x] = d.tops[x]
  BY <1>2 DEF Moved
<1>7. QED
  BY <1>1, <1>4, <1>5, <1>6 DEF e

\* A move leaves the list alone, takes no window from a third workspace, hides at
\* most, and leaves each workspace with an active window that is on it.
LEMMA MoveToMoves ==
  ASSUME NEW d \in Desk, Apart(d), NEW w \in Windows,
         NEW from \in Workspace, NEW to \in Workspace, NEW at, from # to
  PROVE  Moves(d, MoveTo(d, w, from, to, at), from, to)
<1>1. CASE ~Holds(d, from, w)
  BY <1>1 DEF MoveTo, Moves
<1>2. CASE Holds(d, from, w)
  <2> DEFINE e == MoveTo(d, w, from, to, at)
  <2>1. /\ Range(e.tops[to]) = {w} \cup Range(d.tops[to])
        /\ Range(e.tops[from]) = Range(d.tops[from]) \ {w}
        /\ \A x \in Workspace \ {from, to} : e.tops[x] = d.tops[x]
        /\ \A x \in Workspace : IsInjective(e.tops[x])
    BY <1>2, MoveToRanges
  <2>2. IsInjective(d.tops[from]) /\ d.tops[from] \in Seq(Windows)
    BY TopsOf DEF Apart
  <2>3. Moved(d, e, w, from, to, at)
    BY <1>2, <2>2, MoveToFields
  <2> HIDE DEF e
  <2>4. /\ e \in Desk
        /\ e.list = d.list /\ e.of = d.of
        /\ d.hidden \subseteq e.hidden
        /\ \A x \in Workspace :
             e.active[x] = IF x = to THEN w
                           ELSE IF x # from \/ d.active[from] # w THEN d.active[x]
                           ELSE IF Len(d.tops[from]) = 1 THEN None
                           ELSE After(d.tops[from], w)
    BY <2>3 DEF Moved
  <2>5. Apart(e)
    <3>1. ASSUME NEW x \in Workspace, NEW y \in Workspace, x # y
          PROVE  Range(e.tops[x]) \cap Range(e.tops[y]) = {}
      <4>1. \A z \in Workspace \ {from, to} : w \notin Range(d.tops[z])
        BY <1>2 DEF Apart, Holds
      <4>2. Range(d.tops[x]) \cap Range(d.tops[y]) = {}
        BY <3>1 DEF Apart
      <4>3. QED
        BY <2>1, <3>1, <4>1, <4>2
    <3>2. QED
      BY <2>1, <3>1 DEF Apart
  <2>6. Placed(e) = Placed(d)
    BY <1>2, <2>1 DEF Placed, Holds
  <2>7. ASSUME NEW x \in Workspace, ActiveFine(d, x) PROVE ActiveFine(e, x)
    <3>1. CASE x = to
      BY <2>1, <2>4, <3>1 DEF ActiveFine, Holds
    <3>2. CASE x = from /\ d.active[from] = w /\ Len(d.tops[from]) # 1
      <4>1. After(d.tops[from], w) \in Range(d.tops[from]) \ {w}
        BY <1>2, <2>2, <3>2, AfterIsAnother DEF Holds
      <4>2. QED
        BY <2>1, <2>4, <3>2, <4>1 DEF ActiveFine, Holds
    <3>3. CASE x = from /\ ~(d.active[from] = w /\ Len(d.tops[from]) # 1)
      BY <2>1, <2>4, <2>7, <3>3 DEF ActiveFine, Holds
    <3>4. CASE x \notin {from, to}
      BY <2>1, <2>4, <2>7, <3>4 DEF ActiveFine, Holds
    <3>5. QED
      BY <3>1, <3>2, <3>3, <3>4
  <2>8. Moves(d, e, from, to)
    BY <2>1, <2>4, <2>5, <2>6, <2>7 DEF Moves
  <2>9. QED
    BY <2>8 DEF e
<1>3. QED
  BY <1>1, <1>2

-----------------------------------------------------------------------------
(* The pinned windows follow *)

\* m solves the recursion in Follow for the first n of the windows.
Following(m, d, windows, from, to, at, n) ==
  m = [i \in 0 .. n |->
         IF i = 0 THEN d ELSE MoveTo(m[i - 1], windows[i], from, to, at)]

\* The recursion in Follow has a solution.
LEMMA FollowRecursion ==
  ASSUME NEW d, NEW from, NEW to, NEW at, Len(Filter(d.tops[from], pinned)) \in Nat
  PROVE  LET windows == Filter(d.tops[from], pinned) IN
         \E m : /\ Following(m, d, windows, from, to, at, Len(windows))
                /\ Follow(d, from, to, at) = m[Len(windows)]
<1> DEFINE windows == Filter(d.tops[from], pinned)
           n == Len(windows)
           Solves(f, k) == Following(f, d, windows, from, to, at, k)
           Solved == {k \in 0 .. n : \E f : Solves(f, k)}
<1>1. 0 \in Solved
  <2>1. Solves([i \in 0 .. 0 |-> d], 0)
    BY DEF Following
  <2> HIDE DEF Solves
  <2>2. QED
    BY <2>1
<1>2. ASSUME NEW k \in 0 .. n, k # 0, k - 1 \in Solved PROVE k \in Solved
  <2>1. PICK f : Solves(f, k - 1)
    BY <1>2
  <2> DEFINE g == [i \in 0 .. k |->
                     IF i = k THEN MoveTo(f[k - 1], windows[k], from, to, at) ELSE f[i]]
  <2> HIDE DEF windows
  <2>2. Solves(g, k)
    <3>1. ASSUME NEW i \in 0 .. k
          PROVE  g[i] = IF i = 0 THEN d
                        ELSE MoveTo(g[i - 1], windows[i], from, to, at)
      <4>1. \A j \in 0 .. k - 1 :
              f[j] = IF j = 0 THEN d ELSE MoveTo(f[j - 1], windows[j], from, to, at)
        BY <2>1 DEF Following
      <4>2. i # 0 => g[i - 1] = f[i - 1]
        BY <1>2
      <4>3. CASE i = k
        BY <1>2, <4>2, <4>3
      <4>4. CASE i # k
        <5>1. i \in 0 .. k - 1 /\ g[i] = f[i]
          BY <4>4
        <5>2. QED
          BY <4>1, <4>2, <5>1
      <4>5. QED
        BY <4>3, <4>4
    <3>2. QED
      BY <3>1 DEF Following
  <2> HIDE DEF Solves, g
  <2>3. QED
    BY <2>2
<1>3. \E f : Solves(f, n)
  <2> HIDE DEF Solves
  <2>1. 0 .. n \subseteq Solved
    BY <1>1, <1>2, UpTo
  <2>2. QED
    BY <2>1
<1>4. Solves(CHOOSE f : Solves(f, n), n)
  <2> HIDE DEF Solves
  <2>1. QED
    BY <1>3
<1>5. Follow(d, from, to, at) = (CHOOSE f : Solves(f, n))[n]
  BY DEF Follow, Following
<1>6. QED
  BY <1>4, <1>5

\* One move after others.
LEMMA MovesAgain ==
  ASSUME NEW d, NEW e, NEW f, NEW from \in Workspace, NEW to \in Workspace,
         Moves(d, e, from, to), Moves(e, f, from, to)
  PROVE  Moves(d, f, from, to)
<1>1. \A x \in Workspace : ActiveFine(d, x) => ActiveFine(f, x)
  BY DEF Moves
<1>2. \A x \in Workspace \ {from, to} : f.tops[x] = d.tops[x]
  BY DEF Moves
<1>3. QED
  BY <1>1, <1>2 DEF Moves

\* What follows moves as one window does.
LEMMA FollowMoves ==
  ASSUME NEW d \in Desk, Apart(d), NEW from \in Workspace, NEW to \in Workspace,
         NEW at, from # to
  PROVE  Moves(d, Follow(d, from, to, at), from, to)
<1> DEFINE windows == Filter(d.tops[from], pinned)
<1>1. windows \in Seq(Windows) /\ Len(windows) \in Nat
  BY TopsOf, FilterElements
<1>2. PICK m : /\ Following(m, d, windows, from, to, at, Len(windows))
               /\ Follow(d, from, to, at) = m[Len(windows)]
  BY <1>1, FollowRecursion
<1> HIDE DEF windows
<1> DEFINE n == Len(windows)
           Good == {i \in 0 .. n : Moves(d, m[i], from, to)}
<1>3. 0 \in Good
  <2>1. m[0] = d
    BY <1>1, <1>2 DEF Following
  <2>2. Moves(d, d, from, to)
    BY DEF Moves
  <2>3. QED
    BY <1>1, <2>1, <2>2
<1>4. ASSUME NEW i \in 0 .. n, i # 0, i - 1 \in Good PROVE i \in Good
  <2>1. Moves(d, m[i - 1], from, to)
    BY <1>4
  <2>2. m[i] = MoveTo(m[i - 1], windows[i], from, to, at)
    BY <1>2, <1>4 DEF Following
  <2>3. windows[i] \in Windows
    BY <1>1, <1>4
  <2>4. m[i - 1] \in Desk /\ Apart(m[i - 1])
    BY <2>1 DEF Moves
  <2>5. Moves(m[i - 1], m[i], from, to)
    BY <2>2, <2>3, <2>4, MoveToMoves
  <2>6. QED
    BY <2>1, <2>5, MovesAgain
<1>5. 0 .. n \subseteq Good
  <2> HIDE DEF Good
  <2>1. QED
    BY <1>1, <1>3, <1>4, UpTo
<1>6. QED
  BY <1>1, <1>2, <1>5

-----------------------------------------------------------------------------
(* WorkspaceManager::set_workspace and Workspace::focus *)

\* What set_workspace does when ws is not the workspace that is shown: ws is, the
\* other outputs show what they did, and only what is on ws comes to be visible.
Switched(d, e, ws, P) ==
  /\ e \in Desk
  /\ Listing(e, P)
  /\ Apart(e)
  /\ Placed(e) = Placed(d)
  /\ Active(e, ws[1]) = ws
  /\ \A o \in P \ {ws[1]} : Active(e, o) = Active(d, o)
  /\ \A x \in Workspace : ActiveFine(d, x) => ActiveFine(e, x)
  /\ \A x \in Workspace \ {ws} :
       Drawn(e, x) \subseteq IF x = Active(d, ws[1]) THEN {} ELSE Drawn(d, x)
  /\ Active(d, ws[1]) # ws => Range(e.tops[ws]) \cap e.hidden = {}

\* A list with ws moved to its front.
LEMMA ToFrontList ==
  ASSUME NEW list \in Seq(Workspace), IsInjective(list), NEW ws \in Range(list)
  PROVE  /\ ToFront(list, ws) \in Seq(Workspace)
         /\ Range(ToFront(list, ws)) = Range(list)
         /\ IsInjective(ToFront(list, ws))
         /\ IsFirst(ws, ToFront(list, ws), Mine(ws[1]))
         /\ \A o : \A e : o # ws[1] /\ IsFirst(e, list, Mine(o))
                            => IsFirst(e, ToFront(list, ws), Mine(o))
<1> DEFINE rest == Without(list, ws)
<1>1. ws \in Workspace
  BY RangeOfSeq
<1>2. /\ rest \in Seq(Workspace)
      /\ Range(rest) = Range(list) \ {ws}
      /\ IsInjective(rest)
  BY WithoutElements
<1>3. \A o : \A e : o # ws[1] /\ IsFirst(e, list, Mine(o)) => IsFirst(e, rest, Mine(o))
  <2> SUFFICES ASSUME NEW o, NEW e, o # ws[1], IsFirst(e, list, Mine(o))
               PROVE  IsFirst(e, rest, Mine(o))
    OBVIOUS
  <2>1. e # ws
    BY DEF IsFirst, Mine
  <2>2. QED
    BY <2>1, WithoutKeepsFirst
<1> HIDE DEF rest
<1>4. ToFront(list, ws) = <<ws>> \o rest
  BY DEF ToFront, rest
<1>5. /\ <<ws>> \o rest \in Seq(Workspace)
      /\ Range(<<ws>> \o rest) = {ws} \cup Range(rest)
      /\ IsInjective(<<ws>> \o rest)
  BY <1>1, <1>2, ConsElements
<1>6. IsFirst(ws, <<ws>> \o rest, Mine(ws[1]))
  <2>1. ws \in Mine(ws[1])
    BY <1>1 DEF Mine
  <2>2. QED
    BY <1>1, <1>2, <2>1, HeadFirst
<1>7. ASSUME NEW o, NEW e, o # ws[1], IsFirst(e, list, Mine(o))
      PROVE  IsFirst(e, <<ws>> \o rest, Mine(o))
  <2>1. <<ws>> \in Seq(Workspace) /\ Range(<<ws>>) = {ws}
    BY <1>1, OneElement
  <2>2. Range(<<ws>>) \cap Mine(o) = {}
    BY <1>7, <2>1 DEF Mine
  <2>3. IsFirst(e, rest, Mine(o))
    BY <1>3, <1>7
  <2>4. QED
    BY <1>2, <2>1, <2>2, <2>3, ConcatFirst
<1>8. Range(<<ws>> \o rest) = Range(list)
  BY <1>2, <1>5
<1>9. QED
  BY <1>4, <1>5, <1>6, <1>7, <1>8

\* Workspace::focus shows what is on ws, and nothing else.
LEMMA ShowFields ==
  ASSUME NEW d \in Desk, NEW ws \in Workspace
  PROVE  LET e == ShowWorkspace(d, ws) IN
         /\ e \in Desk
         /\ e.list = d.list /\ e.of = d.of /\ e.tops = d.tops
         /\ e.hidden = d.hidden \ Range(d.tops[ws])
         /\ \A x \in Workspace : ActiveFine(d, x) => ActiveFine(e, x)
<1> DEFINE next == IF d.tops[ws] = <<>> THEN None
                   ELSE IF d.active[ws] = None THEN Last(d.tops[ws]) ELSE d.active[ws]
           hidden == d.hidden \ Range(d.tops[ws])
           active == [d.active EXCEPT ![ws] = next]
           e == [d EXCEPT !.hidden = hidden, !.active = active]
<1>1. ShowWorkspace(d, ws) = e
  BY DEF ShowWorkspace, Desk
<1>2. d.tops[ws] \in Seq(Windows) /\ Range(d.tops[ws]) \subseteq Windows
  BY TopsOf
<1>3. d.tops[ws] # <<>> => Last(d.tops[ws]) \in Range(d.tops[ws])
  <2> DEFINE s == d.tops[ws]
  <2>1. s # <<>> => Len(s) \in DOMAIN s
    BY <1>2
  <2>2. QED
    BY <2>1 DEF Last, Range
<1>4. next \in Windows \cup {None}
  BY <1>2, <1>3, DeskFields
<1>5. hidden \subseteq Windows
  BY DeskFields
<1>6. /\ active \in [Workspace -> Windows \cup {None}]
      /\ \A x \in Workspace : active[x] = IF x = ws THEN next ELSE d.active[x]
  <2> HIDE DEF next
  <2>1. QED
    BY <1>4, DeskFields
<1> HIDE DEF hidden, active
<1>7. /\ e \in Desk /\ e.list = d.list /\ e.of = d.of /\ e.tops = d.tops
      /\ e.hidden = hidden /\ e.active = active
  BY <1>5, <1>6 DEF Desk
<1> HIDE DEF e
<1>8. ASSUME NEW x \in Workspace, ActiveFine(d, x) PROVE ActiveFine(e, x)
  <2>1. CASE x # ws
    BY <1>6, <1>7, <1>8, <2>1 DEF ActiveFine, Holds
  <2>2. CASE x = ws
    BY <1>3, <1>6, <1>7, <1>8, <2>2 DEF ActiveFine, Holds
  <2>3. QED
    BY <2>1, <2>2
<1>9. QED
  BY <1>1, <1>7, <1>8 DEF hidden

\* The desk on which the pinned windows follow.
Fronted(d, ws) ==
  [d EXCEPT !.hidden = @ \cup Range(d.tops[Active(d, ws[1])]),
            !.list = ToFront(@, ws)]

\* The workspace that was shown is hidden and the new one first in the list.
LEMMA FrontFields ==
  ASSUME NEW P \in SUBSET Names, NEW d \in Desk, Listing(d, P), NEW ws \in Workspace,
         ws[1] \in P
  PROVE  /\ Fronted(d, ws) \in Desk
         /\ Listing(Fronted(d, ws), P)
         /\ Fronted(d, ws).tops = d.tops
         /\ Fronted(d, ws).active = d.active
         /\ Fronted(d, ws).hidden = d.hidden \cup Range(d.tops[Active(d, ws[1])])
         /\ Active(Fronted(d, ws), ws[1]) = ws
         /\ \A o \in P \ {ws[1]} : Active(Fronted(d, ws), o) = Active(d, o)
<1> DEFINE old == Active(d, ws[1])
           hidden == d.hidden \cup Range(d.tops[old])
           list == ToFront(d.list, ws)
           f == Fronted(d, ws)
<1>1. old \in Workspace
  BY ActiveIsFirst DEF Mine
<1>2. hidden \subseteq Windows
  BY <1>1, DeskFields, TopsOf
<1>3. d.list \in Seq(Workspace) /\ IsInjective(d.list) /\ ws \in Range(d.list)
  BY DeskFields DEF Listing
<1>4. /\ list \in Seq(Workspace)
      /\ Range(list) = Range(d.list)
      /\ IsInjective(list)
      /\ IsFirst(ws, list, Mine(ws[1]))
      /\ \A o : \A e : o # ws[1] /\ IsFirst(e, d.list, Mine(o)) => IsFirst(e, list, Mine(o))
  BY <1>3, ToFrontList
<1>5. /\ f \in Desk /\ f.list = list /\ f.of = d.of /\ f.tops = d.tops
      /\ f.hidden = hidden /\ f.active = d.active
  <2>1. f = [d EXCEPT !.hidden = hidden, !.list = list]
    BY DEF Fronted
  <2> HIDE DEF hidden, list, f
  <2>2. QED
    BY <1>2, <1>4, <2>1, DeskFields DEF Desk
<1> HIDE DEF hidden, list, f
<1>6. Listing(f, P)
  BY <1>4, <1>5 DEF Listing
<1>7. Active(f, ws[1]) = ws
  <2>1. IsFirst(ws, f.list, Mine(ws[1]))
    BY <1>4, <1>5
  <2>2. QED
    BY <1>5, <1>6, <2>1, FirstIsActive
<1>8. ASSUME NEW o \in P \ {ws[1]} PROVE Active(f, o) = Active(d, o)
  <2>1. IsFirst(Active(d, o), d.list, Mine(o))
    BY ActiveIsFirst
  <2>2. IsFirst(Active(d, o), f.list, Mine(o))
    BY <1>4, <1>5, <1>8, <2>1
  <2>3. QED
    BY <1>5, <1>6, <2>2, FirstIsActive
<1>9. QED
  BY <1>5, <1>6, <1>7, <1>8 DEF f, hidden, list

\* set_workspace as a whole.
LEMMA SetWorkspaceSwitches ==
  ASSUME NEW P \in SUBSET Names, NEW d \in Desk, Listing(d, P), Apart(d),
         NEW ws \in Workspace, ws[1] \in P, NEW at
  PROVE  Switched(d, SetWorkspace(d, ws, at), ws, P)
<1> DEFINE old == Active(d, ws[1])
<1>1. old \in Workspace /\ old[1] = ws[1] /\ old # None /\ d.of[ws] = ws[1]
  BY ActiveIsFirst DEF Mine, Listing
<1>2. CASE old = ws
  <2>1. SetWorkspace(d, ws, at) = d
    BY <1>1, <1>2 DEF SetWorkspace
  <2>2. QED
    BY <1>2, <2>1 DEF Switched
<1>3. CASE old # ws
  <2> DEFINE f == Fronted(d, ws)
             g == Follow(f, old, ws, at)
             e == ShowWorkspace(g, ws)
  <2>1. SetWorkspace(d, ws, at) = e
    BY <1>1, <1>3 DEF SetWorkspace, Fronted
  <2>2. /\ f \in Desk /\ Listing(f, P)
        /\ f.tops = d.tops /\ f.active = d.active
        /\ f.hidden = d.hidden \cup Range(d.tops[old])
        /\ Active(f, ws[1]) = ws
        /\ \A o \in P \ {ws[1]} : Active(f, o) = Active(d, o)
    BY FrontFields
  <2> HIDE DEF f
  <2>3. Apart(f)
    BY <2>2 DEF Apart
  <2>4. Moves(f, g, old, ws)
    BY <1>1, <1>3, <2>2, <2>3, FollowMoves
  <2> HIDE DEF g
  <2>5. g \in Desk
    BY <2>4 DEF Moves
  <2>6. /\ e \in Desk
        /\ e.list = g.list /\ e.of = g.of /\ e.tops = g.tops
        /\ e.hidden = g.hidden \ Range(g.tops[ws])
        /\ \A x \in Workspace : ActiveFine(g, x) => ActiveFine(e, x)
    BY <2>5, ShowFields
  <2> HIDE DEF e
  <2>7. e.list = f.list /\ e.of = f.of
    BY <2>4, <2>6 DEF Moves
  <2>8. /\ Listing(e, P)
        /\ Active(e, ws[1]) = ws
        /\ \A o \in P \ {ws[1]} : Active(e, o) = Active(d, o)
    BY <2>2, <2>7, SameList
  <2>9. Apart(e)
    BY <2>4, <2>6 DEF Moves, Apart
  <2>10. Placed(e) = Placed(d)
    BY <2>2, <2>4, <2>6 DEF Moves, Placed, Holds
  <2>11. ASSUME NEW x \in Workspace, ActiveFine(d, x) PROVE ActiveFine(e, x)
    <3>1. ActiveFine(f, x)
      BY <2>2, <2>11 DEF ActiveFine, Holds
    <3>2. QED
      BY <2>4, <2>6, <3>1 DEF Moves
  <2>12. ASSUME NEW x \in Workspace \ {ws}
         PROVE  Drawn(e, x) \subseteq IF x = old THEN {} ELSE Drawn(d, x)
    <3>1. Drawn(f, x) \subseteq IF x = old THEN {} ELSE Drawn(d, x)
      BY <2>2 DEF Drawn
    <3>2. Drawn(g, x) \subseteq Drawn(f, x)
      <4>1. CASE x = old
        BY <2>4, <4>1 DEF Moves, Drawn
      <4>2. CASE x # old
        BY <2>4, <2>12, <4>2 DEF Moves, Drawn
      <4>3. QED
        BY <4>1, <4>2
    <3>3. Range(g.tops[x]) \cap Range(g.tops[ws]) = {}
      BY <2>4, <2>12 DEF Moves, Apart
    <3>4. Drawn(e, x) \subseteq Drawn(g, x)
      BY <2>6, <3>3 DEF Drawn
    <3>5. QED
      BY <3>1, <3>2, <3>4
  <2>13. Range(e.tops[ws]) \cap e.hidden = {}
    BY <2>6
  <2>14. Switched(d, e, ws, P)
    BY <2>6, <2>8, <2>9, <2>10, <2>11, <2>12, <2>13 DEF Switched
  <2>15. QED
    BY <2>1, <2>14
<1>4. QED
  BY <1>2, <1>3

-----------------------------------------------------------------------------
(* The invariant *)

\* What an output shows, or will when it comes back.
ShownBy(P, d, r, o) ==
  IF o \in P THEN Active(d, o)
  ELSE IF r[o] = None THEN None ELSE <<o, r[o].num>>

\* Only an output that is away has orphans, and they are all its workspaces.
OrphansKept(P, r) ==
  \A o \in Names :
    /\ o \in P => r[o] = None
    /\ r[o] # None => Range(r[o].list) = Mine(o) /\ IsInjective(r[o].list)

\* The active window of a workspace is on it: of each that has an output, and of each
\* that is not in l.
AllFine(P, d, l) ==
  \A x \in Workspace : x[1] \in P \/ x \notin l => ActiveFine(d, x)

\* P: the outputs.  d: the desk.  r: the orphans.  l: the workspaces whose active
\* window closed while their output was away.  The last conjunct is also what an orphan
\* brings to the output that adopts it: but for the one it showed its workspaces are
\* hidden, the windows X excepted.
Good(P, d, r, l, X) ==
  /\ d \in Desk
  /\ Listing(d, P)
  /\ Apart(d)
  /\ OrphansKept(P, r)
  /\ AllFine(P, d, l)
  /\ \A x \in Workspace : x # ShownBy(P, d, r, x[1]) => Drawn(d, x) \subseteq X

\* The invariant is that of X11 windows; the steps keep it for any exceptions, but for
\* a layout that comes late.
InvFor(X) == TypeOK /\ Good(plugged, desk, orphaned, lost, X)

IInv == InvFor(Windows \ XWayland)

\* A desk after set_workspace is as good as before.
LEMMA SwitchedGood ==
  ASSUME NEW P \in SUBSET Names, NEW d, NEW r, NEW l, NEW X, Good(P, d, r, l, X),
         NEW ws \in Workspace, ws[1] \in P, NEW e, Switched(d, e, ws, P)
  PROVE  Good(P, e, r, l, X)
<1>1. ASSUME NEW x \in Workspace, x # ShownBy(P, e, r, x[1]) PROVE Drawn(e, x) \subseteq X
  <2>1. CASE x[1] = ws[1]
    <3>1. x # ws
      BY <1>1, <2>1 DEF Switched, ShownBy
    <3>2. x = Active(d, ws[1]) \/ Drawn(d, x) \subseteq X
      BY <2>1 DEF Good, ShownBy
    <3>3. QED
      BY <3>1, <3>2 DEF Switched
  <2>2. CASE x[1] # ws[1]
    <3>1. ShownBy(P, e, r, x[1]) = ShownBy(P, d, r, x[1])
      BY <2>2 DEF Switched, ShownBy
    <3>2. Drawn(d, x) \subseteq X /\ x # ws
      BY <1>1, <2>2, <3>1 DEF Good
    <3>3. QED
      BY <3>2 DEF Switched
  <2>3. QED
    BY <2>1, <2>2
<1>2. AllFine(P, e, l)
  BY DEF Switched, Good, AllFine
<1>3. QED
  BY <1>1, <1>2 DEF Good, Switched

\* So it is after set_workspace for an output that is plugged in.
LEMMA OpenGood ==
  ASSUME NEW P \in SUBSET Names, NEW d, NEW r, NEW l, NEW X, Good(P, d, r, l, X),
         NEW ws \in Workspace, ws[1] \in P, NEW at
  PROVE  /\ Switched(d, SetWorkspace(d, ws, at), ws, P)
         /\ Good(P, SetWorkspace(d, ws, at), r, l, X)
<1>1. Switched(d, SetWorkspace(d, ws, at), ws, P)
  BY SetWorkspaceSwitches DEF Good
<1>2. QED
  BY <1>1, SwitchedGood

\* A window that moves to a workspace that is shown, or is hidden as it leaves, keeps
\* the desk good.
LEMMA MoveGood ==
  ASSUME NEW P \in SUBSET Names, NEW d, NEW r, NEW l, NEW X, Good(P, d, r, l, X),
         NEW w \in Windows, NEW from \in Workspace, NEW to \in Workspace, NEW at,
         d.of[from] = at \/ ShownBy(P, d, r, to[1]) = to
  PROVE  /\ Good(P, MoveTo(d, w, from, to, at), r, l, X)
         /\ Placed(MoveTo(d, w, from, to, at)) = Placed(d)
         /\ \A o : Active(MoveTo(d, w, from, to, at), o) = Active(d, o)
<1>1. CASE from = to \/ ~Holds(d, from, w)
  BY <1>1 DEF MoveTo
<1>2. CASE from # to /\ Holds(d, from, w)
  <2> DEFINE e == MoveTo(d, w, from, to, at)
  <2>1. d \in Desk /\ Apart(d) /\ IsInjective(d.tops[from])
    BY DEF Good, Apart
  <2>2. Moves(d, e, from, to)
    BY <1>2, <2>1, MoveToMoves
  <2>3. Range(e.tops[to]) = {w} \cup Range(d.tops[to])
    BY <1>2, <2>1, MoveToRanges
  <2>4. Moved(d, e, w, from, to, at)
    BY <1>2, <2>1, MoveToFields
  <2> HIDE DEF e
  <2>5. /\ e \in Desk /\ Apart(e) /\ e.list = d.list /\ e.of = d.of
        /\ Placed(e) = Placed(d)
    BY <2>2 DEF Moves
  <2>6. /\ Listing(e, P)
        /\ \A o : Active(e, o) = Active(d, o)
    BY <2>5, SameList DEF Good
  <2>7. AllFine(P, e, l)
    BY <2>2 DEF Moves, Good, AllFine
  <2>8. ASSUME NEW x \in Workspace, x # ShownBy(P, e, r, x[1]) PROVE Drawn(e, x) \subseteq X
    <3>1. ShownBy(P, e, r, x[1]) = ShownBy(P, d, r, x[1])
      BY <2>6 DEF ShownBy
    <3>2. Drawn(d, x) \subseteq X
      BY <2>8, <3>1 DEF Good
    <3>3. CASE x = to
      <4>1. w \in e.hidden
        BY <2>4, <2>8, <3>1, <3>3 DEF Moved
      <4>2. QED
        BY <2>2, <2>3, <3>2, <3>3, <4>1 DEF Moves, Drawn
    <3>4. CASE x # to
      BY <2>2, <3>2, <3>4 DEF Moves, Drawn
    <3>5. QED
      BY <3>3, <3>4
  <2>9. Good(P, e, r, l, X)
    BY <2>5, <2>6, <2>7, <2>8 DEF Good
  <2>10. QED
    BY <2>5, <2>6, <2>9 DEF e
<1>3. QED
  BY <1>1, <1>2

-----------------------------------------------------------------------------
(* WorkspaceManager::adopt_workspaces and Output's constructor *)

\* A list the other way round has the same elements, as often.
LEMMA ReverseElements ==
  ASSUME NEW T, NEW s \in Seq(T)
  PROVE  /\ Reverse(s) \in Seq(T)
         /\ Range(Reverse(s)) = Range(s)
         /\ IsInjective(s) => IsInjective(Reverse(s))
<1> DEFINE n == Len(s)
           t == Reverse(s)
<1>1. n \in Nat /\ DOMAIN s = 1 .. n /\ \A i \in 1 .. n : s[i] \in T
  OBVIOUS
<1>2. \A i \in 1 .. n : n - i + 1 \in 1 .. n /\ n - (n - i + 1) + 1 = i
  BY <1>1
<1>3. /\ DOMAIN t = 1 .. n
      /\ \A i \in 1 .. n : t[i] = s[n - i + 1]
  BY DEF Reverse
<1>4. t \in Seq(T)
  <2>1. \A i \in 1 .. n : s[n - i + 1] \in T
    BY <1>1, <1>2
  <2>2. t = [i \in 1 .. n |-> s[n - i + 1]]
    BY DEF Reverse
  <2> HIDE DEF t, n
  <2>3. QED
    BY <1>1, <2>1, <2>2
<1> HIDE DEF t, n
<1>5. Range(t) = Range(s)
  <2>1. ASSUME NEW i \in 1 .. n PROVE t[i] \in Range(s)
    BY <1>1, <1>2, <1>3 DEF Range
  <2>2. ASSUME NEW i \in 1 .. n PROVE s[i] \in Range(t)
    <3>1. n - i + 1 \in 1 .. n /\ t[n - i + 1] = s[n - (n - i + 1) + 1]
      BY <1>2, <1>3
    <3>2. t[n - i + 1] = s[i]
      BY <1>2, <3>1
    <3>3. QED
      BY <1>3, <3>1, <3>2 DEF Range
  <2>3. QED
    BY <1>1, <1>3, <2>1, <2>2 DEF Range
<1>6. ASSUME IsInjective(s), NEW i \in 1 .. n, NEW j \in 1 .. n, t[i] = t[j] PROVE i = j
  <2>1. s[n - i + 1] = s[n - j + 1]
    BY <1>3, <1>6
  <2>2. n - i + 1 = n - j + 1
    BY <1>1, <1>2, <1>6, <2>1 DEF IsInjective
  <2>3. QED
    BY <1>1, <2>2
<1>7. IsInjective(s) => IsInjective(t)
  BY <1>3, <1>6 DEF IsInjective
<1>8. QED
  BY <1>4, <1>5, <1>7 DEF t

\* A list of the workspaces of o, each once.
Whole(list, o) ==
  list \in Seq(Workspace) /\ Range(list) = Mine(o) /\ IsInjective(list)

\* The workspaces that an output that is new makes.
LEMMA NewWorkspaces ==
  ASSUME NEW o \in Names
  PROVE  Whole([i \in 1 .. Count |-> <<o, i>>], o)
<1> DEFINE t == [i \in 1 .. Count |-> <<o, i>>]
<1>1. Count \in Nat /\ \A i \in 1 .. Count : <<o, i>> \in Workspace
  BY DesktopAssumption DEF Workspace
<1>2. t \in Seq(Workspace)
  BY <1>1
<1>3. Range(t) = Mine(o)
  <2>1. \A ws \in Workspace : \E i \in 1 .. Count : ws = <<ws[1], i>>
    BY DEF Workspace
  <2>2. QED
    BY <1>1, <2>1 DEF Range, Mine
<1>4. IsInjective(t)
  BY DEF IsInjective
<1>5. QED
  BY <1>2, <1>3, <1>4 DEF Whole

\* The list of an output is inserted in front, and that is all.
Inserted(d, e, o, P) ==
  /\ e \in Desk
  /\ Listing(e, P \cup {o})
  /\ e.tops = d.tops /\ e.active = d.active /\ e.hidden = d.hidden
  /\ \A q \in P : Active(e, q) = Active(d, q)

LEMMA InsertInserts ==
  ASSUME NEW P \in SUBSET Names, NEW d \in Desk, Listing(d, P),
         NEW o \in Names \ P, NEW list, Whole(list, o)
  PROVE  Inserted(d, Insert(d, list, o), o, P)
<1> DEFINE back == Reverse(list)
           new == back \o d.list
           of == [ws \in Workspace |-> IF ws \in Range(list) THEN o ELSE d.of[ws]]
           e == Insert(d, list, o)
<1>1. back \in Seq(Workspace) /\ Range(back) = Mine(o) /\ IsInjective(back)
  BY ReverseElements DEF Whole
<1> HIDE DEF back
<1>2. d.list \in Seq(Workspace) /\ IsInjective(d.list)
  BY DeskFields DEF Listing
<1>3. Range(back) \cap Range(d.list) = {}
  BY <1>1 DEF Listing, Mine
<1>4. /\ new \in Seq(Workspace)
      /\ Range(new) = Mine(o) \cup Range(d.list)
      /\ IsInjective(new)
  BY <1>1, <1>2, <1>3, ConcatElements
<1>5. of \in [Workspace -> Names \cup {None}]
  BY DeskFields
<1>6. /\ e \in Desk /\ e.list = new /\ e.of = of
      /\ e.tops = d.tops /\ e.active = d.active /\ e.hidden = d.hidden
  <2>1. e = [d EXCEPT !.list = new, !.of = of]
    BY DEF Insert, Desk, back
  <2> HIDE DEF new, of, e
  <2>2. QED
    BY <1>4, <1>5, <2>1, DeskFields DEF Desk
<1> HIDE DEF e
<1>7. Listing(e, P \cup {o})
  <2>1. ASSUME NEW ws \in Workspace
        PROVE  /\ ws \in Range(new) <=> ws[1] \in P \cup {o}
               /\ of[ws] = IF ws[1] \in P \cup {o} THEN ws[1] ELSE None
    <3>1. ws \in Range(d.list) <=> ws[1] \in P
      BY DEF Listing
    <3>2. d.of[ws] = IF ws[1] \in P THEN ws[1] ELSE None
      BY DEF Listing
    <3>3. ws \in Mine(o) <=> ws[1] = o
      BY DEF Mine
    <3>4. of[ws] = IF ws \in Mine(o) THEN o ELSE d.of[ws]
      BY DEF Whole
    <3> HIDE DEF of, new
    <3>5. QED
      BY <1>4, <3>1, <3>2, <3>3, <3>4
  <2> HIDE DEF of, new
  <2>2. QED
    BY <1>4, <1>6, <2>1 DEF Listing
<1>8. ASSUME NEW q \in P PROVE Active(e, q) = Active(d, q)
  <2>1. IsFirst(Active(d, q), d.list, Mine(q))
    BY ActiveIsFirst
  <2>2. Range(back) \cap Mine(q) = {}
    BY <1>1 DEF Mine
  <2>3. IsFirst(Active(d, q), new, Mine(q))
    BY <1>1, <1>2, <2>1, <2>2, ConcatFirst
  <2> HIDE DEF new
  <2>4. IsFirst(Active(d, q), e.list, Mine(q))
    BY <1>6, <2>3
  <2>5. P \cup {o} \in SUBSET Names /\ q \in P \cup {o} /\ e \in Desk
    BY <1>6
  <2>6. QED
    BY <1>7, <2>4, <2>5, FirstIsActive
<1>9. QED
  BY <1>6, <1>7, <1>8 DEF e, Inserted

\* What becomes of the desk as o is plugged in and shows its workspace n.
Plugged(d, list, o, n, at) == SetWorkspace(Insert(d, list, o), <<o, n>>, at)

\* o shows its workspace n, the others what they showed, and all stays good.
PluggedGood(P, d, e, o, n, r, l, X) ==
  /\ Good(P \cup {o}, e, r, l, X)
  /\ Placed(e) = Placed(d)
  /\ Active(e, o) = <<o, n>>
  /\ \A q \in P : Active(e, q) = Active(d, q)

\* So it is when the workspaces but n came hidden and their active windows were there.
LEMMA PlugGood ==
  ASSUME NEW P \in SUBSET Names, NEW d, NEW r, NEW l, NEW X, Good(P, d, r, l, X),
         NEW o \in Names \ P, NEW list, Whole(list, o), NEW n \in 1 .. Count, NEW at,
         \A x \in Mine(o) \ {<<o, n>>} : Drawn(d, x) \subseteq X,
         \A x \in Mine(o) : ActiveFine(d, x),
         NEW r2, r2 = [r EXCEPT ![o] = None], r \in [Names -> Orphans \cup {None}]
  PROVE  PluggedGood(P, d, Plugged(d, list, o, n, at), o, n, r2, l, X)
<1> DEFINE f == Insert(d, list, o)
           ws == <<o, n>>
           Q == P \cup {o}
           e == SetWorkspace(f, ws, at)
<1>1. Q \in SUBSET Names /\ ws \in Workspace /\ ws[1] = o /\ Q \ {o} = P
  BY DEF Workspace
<1>2. Inserted(d, f, o, P)
  BY InsertInserts DEF Good
<1> HIDE DEF f, Q
<1>3. /\ f \in Desk /\ Listing(f, Q)
      /\ f.tops = d.tops /\ f.active = d.active /\ f.hidden = d.hidden
      /\ \A q \in P : Active(f, q) = Active(d, q)
  BY <1>2 DEF Inserted, Q
<1>4. Apart(f) /\ Placed(f) = Placed(d)
  BY <1>3 DEF Good, Apart, Placed, Holds
<1>5. Switched(f, e, ws, Q)
  <2> HIDE DEF ws
  <2>1. ws[1] \in Q
    BY <1>1 DEF Q
  <2>2. QED
    BY <1>1, <1>3, <1>4, <2>1, SetWorkspaceSwitches
<1> HIDE DEF e, ws
<1>6. /\ e \in Desk /\ Listing(e, Q) /\ Apart(e) /\ Placed(e) = Placed(d)
      /\ Active(e, o) = ws
      /\ \A q \in P : Active(e, q) = Active(d, q)
  BY <1>1, <1>3, <1>4, <1>5 DEF Switched
<1>7. OrphansKept(Q, r2)
  BY DEF Good, OrphansKept, Q
<1>8. AllFine(Q, e, l)
  <2>1. ASSUME NEW x \in Workspace, ActiveFine(d, x) PROVE ActiveFine(e, x)
    <3>1. ActiveFine(f, x)
      BY <1>3, <2>1 DEF ActiveFine, Holds
    <3>2. QED
      BY <1>5, <3>1 DEF Switched
  <2>2. ASSUME NEW x \in Workspace, x[1] \in Q \/ x \notin l PROVE ActiveFine(d, x)
    <3>1. x[1] = o \/ x[1] \in P \/ x \notin l
      BY <2>2 DEF Q
    <3>2. CASE x[1] = o
      BY <3>2 DEF Mine
    <3>3. CASE x[1] \in P \/ x \notin l
      BY <3>3 DEF Good, AllFine
    <3>4. QED
      BY <3>1, <3>2, <3>3
  <2>3. QED
    BY <2>1, <2>2 DEF AllFine
<1>9. ASSUME NEW x \in Workspace, x # ShownBy(Q, e, r2, x[1]) PROVE Drawn(e, x) \subseteq X
  <2>1. x # ws
    BY <1>1, <1>6, <1>9 DEF ShownBy, Q
  <2>2. Drawn(d, x) \subseteq X
    <3>1. CASE x[1] = o
      <4>1. x \in Mine(o)
        BY <3>1 DEF Mine
      <4>2. QED
        BY <2>1, <4>1 DEF ws
    <3>2. CASE x[1] \in P
      <4>1. ShownBy(Q, e, r2, x[1]) = Active(e, x[1])
        BY <3>2 DEF ShownBy, Q
      <4>2. ShownBy(P, d, r, x[1]) = Active(d, x[1])
        BY <3>2 DEF ShownBy
      <4>3. QED
        BY <1>6, <1>9, <3>2, <4>1, <4>2 DEF Good
    <3>3. CASE x[1] \notin Q
      <4>1. x[1] \in Names /\ x[1] # o
        BY <3>3 DEF Q, Workspace
      <4>2. ShownBy(Q, e, r2, x[1]) = ShownBy(P, d, r, x[1])
        BY <3>3, <4>1 DEF ShownBy, Q
      <4>3. QED
        BY <1>9, <4>2 DEF Good
    <3>4. QED
      BY <3>1, <3>2, <3>3 DEF Q
  <2>3. Drawn(f, x) \subseteq X
    BY <1>3, <2>2 DEF Drawn
  <2>4. QED
    BY <1>5, <2>1, <2>3 DEF Switched
<1>10. Good(Q, e, r2, l, X)
  BY <1>6, <1>7, <1>8, <1>9 DEF Good
<1>11. QED
  BY <1>6, <1>10 DEF Plugged, PluggedGood, e, f, ws, Q

-----------------------------------------------------------------------------
(* WorkspaceManager::orphanize_workspaces *)

\* What becomes of the desk as o is unplugged.
Unplugged(d, o) ==
  [d EXCEPT !.list = Filter(@, {ws \in Workspace : d.of[ws] # o}),
            !.of = [ws \in Workspace |-> IF @[ws] = o THEN None ELSE @[ws]]]

\* The other outputs show what they did, and all stays good.
UnpluggedGood(P, d, e, o, r, l, X) ==
  /\ Good(P \ {o}, e, r, l, X)
  /\ r \in [Names -> Orphans \cup {None}]
  /\ Placed(e) = Placed(d)
  /\ \A q \in P \ {o} : Active(e, q) = Active(d, q)

\* So it is when what is kept of o's workspaces is what it showed and all it had.
LEMMA UnplugGood ==
  ASSUME NEW P \in SUBSET Names, NEW d, NEW r, NEW l, NEW X, Good(P, d, r, l, X),
         NEW o \in P, r \in [Names -> Orphans \cup {None}],
         NEW r2, r2 = [r EXCEPT ![o] = [num |-> Active(d, o)[2], list |-> OfOutput(d, o)]]
  PROVE  UnpluggedGood(P, d, Unplugged(d, o), o, r2, l, X)
<1> DEFINE S == {ws \in Workspace : d.of[ws] # o}
           list == Filter(d.list, S)
           of == [ws \in Workspace |-> IF d.of[ws] = o THEN None ELSE d.of[ws]]
           e == Unplugged(d, o)
           Q == P \ {o}
           away == [num |-> Active(d, o)[2], list |-> OfOutput(d, o)]
<1>1. d \in Desk /\ Listing(d, P) /\ Apart(d) /\ OrphansKept(P, r)
  BY DEF Good
<1>2. d.list \in Seq(Workspace) /\ IsInjective(d.list)
  BY <1>1, DeskFields DEF Listing
<1>3. S = {ws \in Workspace : ws[1] # o}
  BY <1>1, DesktopAssumption DEF Listing
<1>4. /\ list \in Seq(Workspace)
      /\ Range(list) = Range(d.list) \cap S
      /\ IsInjective(list)
  BY <1>2, FilterElements
<1>5. of \in [Workspace -> Names \cup {None}]
  BY <1>1, DeskFields
<1>6. /\ e \in Desk /\ e.list = list /\ e.of = of
      /\ e.tops = d.tops /\ e.active = d.active /\ e.hidden = d.hidden
  <2>1. e = [d EXCEPT !.list = list, !.of = of]
    BY <1>1 DEF Unplugged, Desk
  <2> HIDE DEF list, of, e
  <2>2. QED
    BY <1>1, <1>4, <1>5, <2>1, DeskFields DEF Desk
<1> HIDE DEF e
<1>7. Listing(e, Q)
  <2>1. ASSUME NEW ws \in Workspace
        PROVE  /\ ws \in Range(list) <=> ws[1] \in Q
               /\ of[ws] = IF ws[1] \in Q THEN ws[1] ELSE None
    <3>1. /\ ws \in Range(d.list) <=> ws[1] \in P
          /\ d.of[ws] = IF ws[1] \in P THEN ws[1] ELSE None
      BY <1>1 DEF Listing
    <3>2. ws \in S <=> ws[1] # o
      BY <1>3
    <3>3. of[ws] = IF d.of[ws] = o THEN None ELSE d.of[ws]
      OBVIOUS
    <3> HIDE DEF list, of, S
    <3>4. QED
      BY <1>4, <3>1, <3>2, <3>3, DesktopAssumption
  <2> HIDE DEF list, of
  <2>2. QED
    BY <1>4, <1>6, <2>1 DEF Listing
<1>8. ASSUME NEW q \in Q PROVE Active(e, q) = Active(d, q)
  <2>1. IsFirst(Active(d, q), d.list, Mine(q)) /\ Active(d, q) \in Mine(q)
    BY <1>1, ActiveIsFirst
  <2>2. Active(d, q) \in S
    BY <1>3, <2>1 DEF Mine
  <2>3. IsFirst(Active(d, q), list, Mine(q))
    BY <1>2, <2>1, <2>2, FilterKeepsFirst
  <2> HIDE DEF list
  <2>4. IsFirst(Active(d, q), e.list, Mine(q)) /\ Q \in SUBSET Names /\ e \in Desk
    BY <1>6, <2>3
  <2> HIDE DEF Q
  <2>5. QED
    BY <1>7, <2>4, FirstIsActive
<1>9. /\ Active(d, o) \in Mine(o)
      /\ OfOutput(d, o) \in Seq(Workspace)
      /\ Range(OfOutput(d, o)) = Mine(o)
      /\ IsInjective(OfOutput(d, o))
  BY <1>1, ActiveIsFirst, AllOfOutput
<1>10. Active(d, o)[2] \in 1 .. Count /\ Active(d, o) = <<o, Active(d, o)[2]>>
  BY <1>9 DEF Mine, Workspace
<1>11. away \in Orphans /\ away # None
  BY <1>9, <1>10, DesktopAssumption DEF Orphans
<1>12. r2 \in [Names -> Orphans \cup {None}]
  BY <1>11
<1>13. r2[o] # None /\ Range(r2[o].list) = Mine(o) /\ IsInjective(r2[o].list)
  BY <1>9, <1>11
<1>14. \A q \in Names \ {o} : r2[q] = r[q]
  OBVIOUS
<1>15. OrphansKept(Q, r2)
  BY <1>1, <1>13, <1>14 DEF OrphansKept
<1>16. ShownBy(Q, e, r2, o) = Active(d, o)
  BY <1>10, <1>13 DEF ShownBy
<1>17. ASSUME NEW x \in Workspace PROVE ShownBy(Q, e, r2, x[1]) = ShownBy(P, d, r, x[1])
  <2>1. x[1] \in Names
    BY DEF Workspace
  <2>2. CASE x[1] = o
    BY <1>16, <2>2 DEF ShownBy
  <2>3. CASE x[1] # o
    BY <1>8, <1>14, <2>1, <2>3 DEF ShownBy
  <2>4. QED
    BY <2>2, <2>3
<1> HIDE DEF Q, of, list
<1>18. /\ \A x \in Workspace : ActiveFine(d, x) => ActiveFine(e, x)
       /\ \A x \in Workspace : Drawn(d, x) \subseteq X => Drawn(e, x) \subseteq X
       /\ Apart(e) /\ Placed(e) = Placed(d)
  BY <1>1, <1>6 DEF ActiveFine, Drawn, Apart, Placed, Holds
<1>19. AllFine(Q, e, l)
  BY <1>18 DEF Good, AllFine, Q
<1>20. Good(Q, e, r2, l, X)
  BY <1>6, <1>7, <1>15, <1>17, <1>18, <1>19 DEF Good
<1>21. QED
  BY <1>8, <1>12, <1>18, <1>20 DEF UnpluggedGood, e, Q

-----------------------------------------------------------------------------
(* map_notify and unmap_notify *)

\* The windows that are placed are now these, and all stays good.
PlacedGood(P, d, e, r, l, windows, X) ==
  /\ Good(P, e, r, l, X)
  /\ Placed(e) = windows
  /\ \A o : Active(e, o) = Active(d, o)

\* A window that is mapped onto ws and hidden as `hidden' says.
Mapped(d, w, ws, hidden) ==
  [d EXCEPT !.tops[ws] = <<w>> \o @, !.active[ws] = w, !.hidden = hidden]

\* A window comes to a workspace that is shown, or comes hidden.
LEMMA MapGood ==
  ASSUME NEW P \in SUBSET Names, NEW d, NEW r, NEW l, NEW X, Good(P, d, r, l, X),
         NEW w \in Windows \ Placed(d), NEW ws \in Workspace,
         NEW hidden, hidden = d.hidden \ {w} \/ hidden = d.hidden \cup {w},
         ShownBy(P, d, r, ws[1]) = ws \/ w \in hidden
  PROVE  PlacedGood(P, d, Mapped(d, w, ws, hidden), r, l, Placed(d) \cup {w}, X)
<1> DEFINE tops == [d.tops EXCEPT ![ws] = <<w>> \o @]
           active == [d.active EXCEPT ![ws] = w]
           e == Mapped(d, w, ws, hidden)
<1>1. d \in Desk /\ Listing(d, P) /\ Apart(d) /\ OrphansKept(P, r)
  BY DEF Good
<1>2. d.tops[ws] \in Seq(Windows) /\ IsInjective(d.tops[ws])
  BY <1>1, TopsOf DEF Apart
<1>3. \A x \in Workspace : w \notin Range(d.tops[x])
  BY DEF Placed, Holds
<1>4. /\ <<w>> \o d.tops[ws] \in Seq(Windows)
      /\ Range(<<w>> \o d.tops[ws]) = {w} \cup Range(d.tops[ws])
      /\ IsInjective(<<w>> \o d.tops[ws])
  BY <1>2, <1>3, ConsElements
<1>5. /\ tops \in [Workspace -> Seq(Windows)]
      /\ \A x \in Workspace : tops[x] = IF x = ws THEN <<w>> \o d.tops[ws] ELSE d.tops[x]
  BY <1>1, <1>4, DeskFields
<1>6. /\ active \in [Workspace -> Windows \cup {None}]
      /\ \A x \in Workspace : active[x] = IF x = ws THEN w ELSE d.active[x]
  BY <1>1, DeskFields
<1>7. hidden \subseteq Windows
  BY <1>1, DeskFields
<1>8. /\ e \in Desk /\ e.list = d.list /\ e.of = d.of
      /\ e.tops = tops /\ e.active = active /\ e.hidden = hidden
  <2>1. e = [d EXCEPT !.tops = tops, !.active = active, !.hidden = hidden]
    BY <1>1 DEF Mapped, Desk
  <2> HIDE DEF tops, active, e
  <2>2. QED
    BY <1>1, <1>5, <1>6, <1>7, <2>1, DeskFields DEF Desk
<1> HIDE DEF e, tops, active
<1>9. /\ Range(e.tops[ws]) = {w} \cup Range(d.tops[ws])
      /\ \A x \in Workspace \ {ws} : e.tops[x] = d.tops[x]
      /\ \A x \in Workspace : IsInjective(e.tops[x])
  BY <1>1, <1>4, <1>5, <1>8 DEF Apart
<1>10. Listing(e, P) /\ \A o : Active(e, o) = Active(d, o)
  BY <1>1, <1>8, SameList
<1>11. Apart(e)
  BY <1>1, <1>3, <1>9 DEF Apart
<1>12. Placed(e) = Placed(d) \cup {w}
  BY <1>9 DEF Placed, Holds
<1>13. AllFine(P, e, l)
  <2>1. ASSUME NEW x \in Workspace, x[1] \in P \/ x \notin l PROVE ActiveFine(e, x)
    <3>1. ActiveFine(d, x)
      BY <2>1 DEF Good, AllFine
    <3>2. e.active[x] = IF x = ws THEN w ELSE d.active[x]
      BY <1>6, <1>8
    <3>3. QED
      BY <1>9, <3>1, <3>2 DEF ActiveFine, Holds
  <2>2. QED
    BY <2>1 DEF AllFine
<1>14. ASSUME NEW x \in Workspace, x # ShownBy(P, e, r, x[1]) PROVE Drawn(e, x) \subseteq X
  <2>1. ShownBy(P, e, r, x[1]) = ShownBy(P, d, r, x[1])
    BY <1>10 DEF ShownBy
  <2>2. Drawn(d, x) \subseteq X
    BY <1>14, <2>1 DEF Good
  <2>3. CASE x = ws
    <3>1. w \in hidden
      BY <1>14, <2>1, <2>3
    <3>2. d.hidden \subseteq hidden
      BY <3>1
    <3>3. QED
      BY <1>8, <1>9, <2>2, <2>3, <3>1, <3>2 DEF Drawn
  <2>4. CASE x # ws
    BY <1>3, <1>8, <1>9, <2>2, <2>4 DEF Drawn
  <2>5. QED
    BY <2>3, <2>4
<1>15. Good(P, e, r, l, X)
  BY <1>1, <1>8, <1>10, <1>11, <1>13, <1>14 DEF Good, AllFine
<1>16. QED
  BY <1>10, <1>12, <1>15 DEF PlacedGood, e

\* A window is taken from ws, whose active window becomes t.
Taken(d, w, ws, t) ==
  [d EXCEPT !.active[ws] = t, !.tops[ws] = Without(@, w), !.hidden = @ \ {w}]

\* A window goes.  Another on ws becomes the active one, or ws has no output, keeps what
\* may have been this window, and is counted among those that do.
LEMMA UnmapGood ==
  ASSUME NEW P \in SUBSET Names, NEW d, NEW r, NEW l, NEW X, Good(P, d, r, l, X),
         NEW w \in Windows, NEW ws \in Workspace, Holds(d, ws, w),
         NEW t \in Windows \cup {None},
         NEW l2, l \subseteq l2,
         \/ ws \in l2 /\ ws[1] \notin P
         \/ t \in (Range(d.tops[ws]) \ {w}) \cup {None}
  PROVE  PlacedGood(P, d, Taken(d, w, ws, t), r, l2, Placed(d) \ {w}, X)
<1> DEFINE tops == [d.tops EXCEPT ![ws] = Without(@, w)]
           active == [d.active EXCEPT ![ws] = t]
           hidden == d.hidden \ {w}
           e == Taken(d, w, ws, t)
<1>1. d \in Desk /\ Listing(d, P) /\ Apart(d) /\ OrphansKept(P, r)
  BY DEF Good
<1>2. d.tops[ws] \in Seq(Windows) /\ IsInjective(d.tops[ws])
  BY <1>1, TopsOf DEF Apart
<1>3. \A x \in Workspace \ {ws} : w \notin Range(d.tops[x])
  BY <1>1 DEF Apart, Holds
<1>4. /\ Without(d.tops[ws], w) \in Seq(Windows)
      /\ Range(Without(d.tops[ws], w)) = Range(d.tops[ws]) \ {w}
      /\ IsInjective(Without(d.tops[ws], w))
  BY <1>2, WithoutElements
<1>5. /\ tops \in [Workspace -> Seq(Windows)]
      /\ \A x \in Workspace :
           tops[x] = IF x = ws THEN Without(d.tops[ws], w) ELSE d.tops[x]
  BY <1>1, <1>4, DeskFields
<1>6. /\ active \in [Workspace -> Windows \cup {None}]
      /\ \A x \in Workspace : active[x] = IF x = ws THEN t ELSE d.active[x]
  BY <1>1, DeskFields
<1>7. hidden \subseteq Windows
  BY <1>1, DeskFields
<1>8. /\ e \in Desk /\ e.list = d.list /\ e.of = d.of
      /\ e.tops = tops /\ e.active = active /\ e.hidden = hidden
  <2>1. e = [d EXCEPT !.tops = tops, !.active = active, !.hidden = hidden]
    BY <1>1 DEF Taken, Desk
  <2> HIDE DEF tops, active, hidden, e
  <2>2. QED
    BY <1>1, <1>5, <1>6, <1>7, <2>1, DeskFields DEF Desk
<1> HIDE DEF e, tops, active
<1>9. /\ Range(e.tops[ws]) = Range(d.tops[ws]) \ {w}
      /\ \A x \in Workspace \ {ws} : e.tops[x] = d.tops[x]
      /\ \A x \in Workspace : IsInjective(e.tops[x])
  BY <1>1, <1>4, <1>5, <1>8 DEF Apart
<1>10. Listing(e, P) /\ \A o : Active(e, o) = Active(d, o)
  BY <1>1, <1>8, SameList
<1>11. Apart(e)
  BY <1>1, <1>9 DEF Apart
<1>12. Placed(e) = Placed(d) \ {w}
  BY <1>3, <1>9 DEF Placed, Holds
<1>13. ASSUME NEW x \in Workspace, x[1] \in P \/ x \notin l2 PROVE ActiveFine(e, x)
  <2>1. ActiveFine(d, x)
    BY <1>13 DEF Good, AllFine
  <2>2. e.active[x] = IF x = ws THEN t ELSE d.active[x]
    BY <1>6, <1>8
  <2>3. QED
    BY <1>9, <1>13, <2>1, <2>2 DEF ActiveFine, Holds
<1>14. ASSUME NEW x \in Workspace, x # ShownBy(P, e, r, x[1]) PROVE Drawn(e, x) \subseteq X
  <2>1. Drawn(d, x) \subseteq X
    BY <1>10, <1>14 DEF Good, ShownBy
  <2>2. w \notin Range(e.tops[x]) /\ Range(e.tops[x]) \subseteq Range(d.tops[x])
    BY <1>3, <1>9
  <2>3. QED
    BY <1>8, <2>1, <2>2 DEF Drawn
<1>15. Good(P, e, r, l2, X)
  BY <1>1, <1>8, <1>10, <1>11, <1>13, <1>14 DEF Good, AllFine
<1>16. QED
  BY <1>10, <1>12, <1>15 DEF PlacedGood, e

-----------------------------------------------------------------------------
(* The invariant is inductive *)

\* The parts of the invariant, and what is known where it holds.
LEMMA Parts ==
  ASSUME NEW X, InvFor(X)
  PROVE  /\ plugged \in SUBSET Names
         /\ Good(plugged, desk, orphaned, lost, X)
         /\ orphaned \in [Names -> Orphans \cup {None}]
         /\ pinned \subseteq Placed(desk)
         /\ grab \in Placed(desk) \cup {None}
         /\ pointer \in Names
         /\ waiting \subseteq Windows /\ lost \subseteq Workspace
         /\ desk \in Desk /\ Listing(desk, plugged)
BY DEF InvFor, TypeOK, Listed, Placed, Good

\* What a step has to show.
LEMMA Kept ==
  ASSUME NEW X, plugged' \in SUBSET Names,
         Good(plugged', desk', orphaned', lost', X),
         orphaned' \in [Names -> Orphans \cup {None}],
         pinned' \subseteq Placed(desk'),
         grab' \in Placed(desk') \cup {None},
         pointer' \in Names, waiting' \subseteq Windows, lost' \subseteq Workspace
  PROVE  InvFor(X)'
BY DEF InvFor, TypeOK, Listed, Placed, Good

\* The same for a step that only changes the desk, and places no window.
LEMMA KeptDesk ==
  ASSUME NEW X, InvFor(X),
         UNCHANGED <<plugged, orphaned, pinned, grab, pointer, waiting, lost>>,
         Good(plugged, desk', orphaned, lost, X), Placed(desk') = Placed(desk)
  PROVE  InvFor(X)'
BY Parts, Kept

\* The workspace of an output that is plugged in.
LEMMA Shown ==
  ASSUME NEW X, InvFor(X), NEW o \in plugged
  PROVE  /\ Active(desk, o) \in Workspace /\ Active(desk, o)[1] = o
         /\ Active(desk, o) # None
         /\ ShownBy(plugged, desk, orphaned, o) = Active(desk, o)
         /\ desk.of[Active(desk, o)] = o
<1>1. Active(desk, o) \in Mine(o) /\ Active(desk, o) # None
  BY Parts, ActiveIsFirst
<1>2. QED
  BY <1>1, Parts DEF Mine, ShownBy, Listing

\* The output of the cursor is plugged in, if there is one.
LEMMA FocusedPlugged ==
  ASSUME Focused # None
  PROVE  Focused \in plugged
BY DEF Focused

LEMMA InitIInv ==
  ASSUME Init, NEW X
  PROVE  InvFor(X)
<1>1. desk \in Desk
  BY DEF Init, Desk
<1>2. /\ Range(desk.list) = {}
      /\ \A x \in Workspace : desk.tops[x] = << >> /\ Range(desk.tops[x]) = {}
  BY DEF Init, Range
<1>3. IsInjective(<< >>)
  BY DEF IsInjective
<1>4. Listing(desk, {})
  BY <1>2, <1>3 DEF Init, Listing
<1>5. Apart(desk)
  BY <1>2, <1>3 DEF Apart
<1>6. OrphansKept({}, orphaned)
  BY DEF Init, OrphansKept
<1>7. \A x \in Workspace : ActiveFine(desk, x) /\ Drawn(desk, x) \subseteq X
  BY <1>2 DEF Init, ActiveFine, Drawn
<1>8. Good(plugged, desk, orphaned, lost, X)
  BY <1>1, <1>4, <1>5, <1>6, <1>7 DEF Good, AllFine, Init
<1>9. QED
  BY <1>8 DEF Init, InvFor, TypeOK, Good

LEMMA PlugKeeps ==
  ASSUME NEW X, InvFor(X), NEW o \in Names, Plug(o)
  PROVE  /\ InvFor(X)'
         /\ orphaned[o] # None => Active(desk', o) = <<o, orphaned[o].num>>
         /\ \A q \in plugged : Active(desk', q) = Active(desk, q)
<1>1. o \in Names \ plugged /\ plugged' = plugged \cup {o}
  BY DEF Plug
<1>2. OrphansKept(plugged, orphaned)
  BY Parts DEF Good
<1>3. PICK list \in Seq(Workspace), n \in 1 .. Count :
        /\ Whole(list, o)
        /\ \A x \in Mine(o) \ {<<o, n>>} : Drawn(desk, x) \subseteq X
        /\ desk' = Plugged(desk, list, o, n, Focused)
        /\ orphaned' = [orphaned EXCEPT ![o] = None]
        /\ orphaned[o] # None => n = orphaned[o].num
  <2>1. CASE orphaned[o] = None
    <3> DEFINE list == [i \in 1 .. Count |-> <<o, i>>]
    <3>1. desk' = Plugged(desk, list, o, 1, Focused)
      BY <2>1 DEF Plug, Create, Plugged
    <3>2. orphaned' = [orphaned EXCEPT ![o] = None]
      BY <2>1, Parts DEF Plug
    <3>3. Whole(list, o)
      BY NewWorkspaces
    <3>4. \A x \in Mine(o) : Drawn(desk, x) \subseteq X
      <4>1. \A x \in Mine(o) : ShownBy(plugged, desk, orphaned, x[1]) = None
        BY <1>1, <2>1 DEF ShownBy, Mine
      <4>2. \A x \in Mine(o) : x \in Workspace /\ x # None
        BY DesktopAssumption DEF Mine
      <4>3. QED
        BY <4>1, <4>2, Parts DEF Good
    <3> HIDE DEF list
    <3>5. 1 \in 1 .. Count /\ list \in Seq(Workspace)
      BY <3>3, DesktopAssumption DEF Whole
    <3>6. QED
      BY <2>1, <3>1, <3>2, <3>3, <3>4, <3>5
  <2>2. CASE orphaned[o] # None
    <3> DEFINE list == orphaned[o].list
               n == orphaned[o].num
    <3>1. desk' = Plugged(desk, list, o, n, Focused)
      BY <2>2 DEF Plug, Adopt, Plugged
    <3>2. orphaned' = [orphaned EXCEPT ![o] = None]
      BY <2>2 DEF Plug, Erase
    <3>3. orphaned[o] \in Orphans
      BY <2>2, Parts
    <3>4. Whole(list, o) /\ n \in 1 .. Count
      BY <1>2, <2>2, <3>3 DEF OrphansKept, Whole, Orphans
    <3>5. \A x \in Mine(o) \ {<<o, n>>} : Drawn(desk, x) \subseteq X
      <4>1. \A x \in Mine(o) : ShownBy(plugged, desk, orphaned, x[1]) = <<o, n>>
        BY <1>1, <2>2 DEF ShownBy, Mine
      <4>2. QED
        BY <4>1, Parts DEF Good, Mine
    <3>6. list \in Seq(Workspace) /\ n = orphaned[o].num
      BY <3>4 DEF Whole
    <3> HIDE DEF list, n
    <3>7. QED
      BY <3>1, <3>2, <3>4, <3>5, <3>6
  <2>3. QED
    BY <2>1, <2>2
<1>4. \A x \in Mine(o) : ActiveFine(desk, x)
  <2>1. \A x \in Mine(o) : \E n_1 \in 1 .. Count : x = <<o, n_1>>
    BY DEF Mine, Workspace
  <2>2. QED
    BY <2>1 DEF Plug, Dangles, ActiveFine
<1> DEFINE e == Plugged(desk, list, o, n, Focused)
           r == [orphaned EXCEPT ![o] = None]
<1>5. PluggedGood(plugged, desk, e, o, n, r, lost, X)
  BY <1>1, <1>3, <1>4, Parts, PlugGood
<1>6. /\ Good(plugged \cup {o}, e, r, lost, X)
      /\ Placed(e) = Placed(desk)
      /\ Active(e, o) = <<o, n>>
      /\ \A q \in plugged : Active(e, q) = Active(desk, q)
  BY <1>5 DEF PluggedGood
<1> HIDE DEF e
<1>7. desk' = e /\ orphaned' = r
  BY <1>3 DEF e
<1>8. r \in [Names -> Orphans \cup {None}]
  BY Parts
<1>9. pointer' \in Names
  BY Parts DEF Plug
<1> HIDE DEF r
<1>10. InvFor(X)'
  <2>1. UNCHANGED <<pinned, grab, waiting, lost>>
    BY DEF Plug
  <2>2. QED
    BY <1>1, <1>6, <1>7, <1>8, <1>9, <2>1, Parts, Kept
<1>11. QED
  BY <1>3, <1>6, <1>7, <1>10

LEMMA UnplugKeeps ==
  ASSUME NEW X, InvFor(X), NEW o \in Names, Unplug(o)
  PROVE  /\ InvFor(X)'
         /\ plugged' = plugged \ {o}
         /\ \A q \in plugged \ {o} : Active(desk', q) = Active(desk, q)
<1> DEFINE r == [orphaned EXCEPT ![o] = [num |-> Active(desk, o)[2],
                                         list |-> OfOutput(desk, o)]]
           e == Unplugged(desk, o)
<1>1. o \in plugged /\ plugged' = plugged \ {o} /\ orphaned' = r
  BY DEF Unplug
<1>2. desk' = e
  BY DEF Unplug, Unplugged
<1>3. UnpluggedGood(plugged, desk, e, o, r, lost, X)
  BY <1>1, Parts, UnplugGood
<1> HIDE DEF r, e
<1>4. pointer' \in Names /\ UNCHANGED <<pinned, grab, waiting, lost>>
  BY Parts DEF Unplug
<1>5. QED
  BY <1>1, <1>2, <1>3, <1>4, Parts, Kept DEF UnpluggedGood

\* A window is mapped, with a rule or without.
Mapping(w) == \/ \E hide \in BOOLEAN : Map(w, hide)
              \/ \E ws \in Workspace : MapByRule(w, ws)

LEMMA MapKeeps ==
  ASSUME NEW X, InvFor(X), NEW w \in Windows, Mapping(w)
  PROVE  InvFor(X)' /\ \A o : Active(desk', o) = Active(desk, o)
<1>1. PICK ws \in Workspace, hidden \in SUBSET Windows :
        /\ desk' = Mapped(desk, w, ws, hidden)
        /\ hidden = desk.hidden \ {w} \/ hidden = desk.hidden \cup {w}
        /\ ShownBy(plugged, desk, orphaned, ws[1]) = ws \/ w \in hidden
  <2>1. CASE \E hide \in BOOLEAN : Map(w, hide)
    <3>1. PICK hide \in BOOLEAN : Map(w, hide)
      BY <2>1
    <3> DEFINE ws == Active(desk, Focused)
               hidden == IF hide /\ w \notin XWayland
                         THEN desk.hidden \cup {w} ELSE desk.hidden \ {w}
    <3>2. ws \in Workspace /\ ShownBy(plugged, desk, orphaned, ws[1]) = ws
      BY <3>1, FocusedPlugged, Shown DEF Map
    <3> HIDE DEF ws
    <3>3. desk' = Mapped(desk, w, ws, hidden)
      BY <3>1, <3>2, Parts DEF Map, Added, Mapped, Desk, ws
    <3>4. hidden = desk.hidden \ {w} \/ hidden = desk.hidden \cup {w}
      OBVIOUS
    <3> HIDE DEF hidden
    <3>5. hidden \in SUBSET Windows
      BY <3>4, Parts, DeskFields
    <3>6. QED
      BY <3>2, <3>3, <3>4, <3>5
  <2>2. CASE \E ws \in Workspace : MapByRule(w, ws)
    <3>1. PICK ws \in Workspace : MapByRule(w, ws)
      BY <2>2
    <3> DEFINE hidden == IF Active(desk, desk.of[ws]) = ws
                         THEN desk.hidden \ {w} ELSE desk.hidden \cup {w}
    <3>2. desk' = Mapped(desk, w, ws, hidden)
      BY <3>1, Parts DEF MapByRule, Added, Mapped, Desk
    <3>3. ws[1] \in plugged /\ desk.of[ws] = ws[1]
      BY <3>1, Parts DEF MapByRule, Listing
    <3>4. ShownBy(plugged, desk, orphaned, ws[1]) = ws \/ w \in hidden
      BY <3>3 DEF ShownBy
    <3>5. hidden = desk.hidden \ {w} \/ hidden = desk.hidden \cup {w}
      OBVIOUS
    <3> HIDE DEF hidden
    <3>6. hidden \in SUBSET Windows
      BY <3>5, Parts, DeskFields
    <3>7. QED
      BY <3>2, <3>4, <3>5, <3>6
  <2>3. QED
    BY <2>1, <2>2 DEF Mapping
<1> DEFINE e == Mapped(desk, w, ws, hidden)
<1>2. /\ w \notin Placed(desk)
      /\ UNCHANGED <<plugged, orphaned, grab, pointer, lost>>
      /\ pinned' \subseteq pinned \cup {w}
      /\ waiting' \subseteq waiting \cup {w}
  BY DEF Mapping, Map, MapByRule, Listed, Placed
<1>3. PlacedGood(plugged, desk, e, orphaned, lost, Placed(desk) \cup {w}, X)
  BY <1>1, <1>2, Parts, MapGood
<1> HIDE DEF e
<1>4. desk' = e
  BY <1>1 DEF e
<1>5. InvFor(X)'
  BY <1>2, <1>3, <1>4, Parts, Kept DEF PlacedGood
<1>6. QED
  BY <1>3, <1>4, <1>5 DEF PlacedGood

\* A window that is on ws is on no other.
LEMMA AloneIn ==
  ASSUME NEW d \in Desk, Apart(d), NEW w, NEW ws \in Workspace, Holds(d, ws, w)
  PROVE  \A x \in Holder(d, w) : x = ws
<1>1. Range(d.list) \subseteq Workspace
  BY DeskFields, RangeOfSeq
<1>2. QED
  BY <1>1 DEF Apart, Holder, Holds

LEMMA UnmapKeeps ==
  ASSUME NEW X, InvFor(X), NEW w \in Windows, Unmap(w)
  PROVE  InvFor(X)' /\ \A o : Active(desk', o) = Active(desk, o)
<1>1. PICK ws \in Workspace :
        /\ Holds(desk, ws, w)
        /\ IF ws = WorkspaceOf(desk, w)
           THEN /\ \E t \in Closed(ws, w) :
                     desk' = [desk EXCEPT !.active[ws] = t,
                                          !.tops[ws] = Without(@, w),
                                          !.hidden = @ \ {w}]
                /\ UNCHANGED lost
           ELSE /\ desk' = [desk EXCEPT !.tops[ws] = Without(@, w), !.hidden = @ \ {w}]
                /\ lost' = IF desk.active[ws] = w THEN lost \cup {ws} ELSE lost
  BY DEF Unmap
<1>2. ASSUME ws[1] \in plugged \/ ws \notin lost
      PROVE  desk.active[ws] \in Range(desk.tops[ws]) \cup {None}
  BY <1>2, Parts DEF Good, AllFine, ActiveFine, Holds
<1>3. /\ desk.active[ws] \in Windows \cup {None}
      /\ Range(desk.tops[ws]) \subseteq Windows
  BY Parts, DeskFields, TopsOf
<1>4. PICK t \in Windows \cup {None} :
        /\ desk' = Taken(desk, w, ws, t)
        /\ \/ ws \in lost' /\ ws[1] \notin plugged
           \/ t \in (Range(desk.tops[ws]) \ {w}) \cup {None}
        /\ lost \subseteq lost' /\ lost' \subseteq Workspace
  <2>1. CASE ws = WorkspaceOf(desk, w)
    <3>1. PICK t \in Closed(ws, w) : desk' = Taken(desk, w, ws, t)
      BY <1>1, <2>1 DEF Taken
    <3>2. t \in Windows \cup {None}
      BY <1>3, <3>1 DEF Closed
    <3>3. ws \in Range(desk.list)
      BY <2>1, Parts, WorkspaceFound, DesktopAssumption
    <3>4. ws[1] \in plugged
      BY <3>3, Parts DEF Listing
    <3>5. t \in (Range(desk.tops[ws]) \ {w}) \cup {None}
      BY <1>2, <3>1, <3>4 DEF Closed
    <3>6. lost' = lost
      BY <1>1, <2>1
    <3>7. QED
      BY <3>1, <3>2, <3>5, <3>6, Parts
  <2>2. CASE ws # WorkspaceOf(desk, w)
    <3> DEFINE t == desk.active[ws]
    <3>1. desk' = [desk EXCEPT !.tops[ws] = Without(@, w), !.hidden = @ \ {w}]
      BY <1>1, <2>2
    <3>2. desk' = Taken(desk, w, ws, t)
      BY <3>1, Parts, DeskFields DEF Taken, Desk
    <3>3. lost' = IF t = w THEN lost \cup {ws} ELSE lost
      BY <1>1, <2>2
    <3> HIDE DEF t
    <3>4. /\ t \in Windows \cup {None}
          /\ ws \notin lost => t \in Range(desk.tops[ws]) \cup {None}
      BY <1>2, <1>3 DEF t
    <3>5. ws[1] \notin plugged
      <4>1. SUFFICES ASSUME ws[1] \in plugged PROVE FALSE
        OBVIOUS
      <4>2. ws \in Holder(desk, w)
        BY <1>1, <4>1, Parts DEF Holder, Listing
      <4>3. \A x \in Holder(desk, w) : x = ws
        BY <1>1, Parts, AloneIn DEF Good
      <4>4. QED
        BY <2>2, <4>2, <4>3 DEF WorkspaceOf
    <3>6. QED
      BY <3>2, <3>3, <3>4, <3>5, Parts
  <2>3. QED
    BY <2>1, <2>2
<1> DEFINE e == Taken(desk, w, ws, t)
<1>5. PlacedGood(plugged, desk, e, orphaned, lost', Placed(desk) \ {w}, X)
  BY <1>1, <1>4, Parts, UnmapGood
<1> HIDE DEF e
<1>6. desk' = e
  BY <1>4 DEF e
<1>7. /\ UNCHANGED <<plugged, orphaned, pointer>>
      /\ pinned' = pinned \ {w}
      /\ grab' = IF grab = w THEN None ELSE grab
      /\ waiting' \subseteq waiting
  BY DEF Unmap, Released
<1>8. InvFor(X)'
  BY <1>4, <1>5, <1>6, <1>7, Parts, Kept DEF PlacedGood
<1>9. QED
  BY <1>5, <1>6, <1>8 DEF PlacedGood

LEMMA OpenKeeps ==
  ASSUME NEW X, InvFor(X),
         (\E n \in 1 .. Count : Open(n)) \/ (\E w \in Windows : Activate(w))
  PROVE  /\ InvFor(X)'
         /\ \E ws \in Workspace : ws[1] \in plugged /\ Switched(desk, desk', ws, plugged)
<1>1. PICK ws \in Workspace :
        ws[1] \in plugged /\ desk' = SetWorkspace(desk, ws, Focused)
  <2>1. CASE \E n \in 1 .. Count : Open(n)
    <3>1. PICK n \in 1 .. Count : Open(n)
      BY <2>1
    <3> DEFINE ws == <<Focused, n>>
    <3>2. Focused \in plugged
      BY <3>1, FocusedPlugged DEF Open
    <3>3. ws \in Workspace /\ ws[1] \in plugged
      BY <3>2, Parts DEF Workspace
    <3>4. desk' = SetWorkspace(desk, ws, Focused)
      BY <3>1 DEF Open
    <3> HIDE DEF ws
    <3>5. QED
      BY <3>3, <3>4
  <2>2. CASE \E w \in Windows : Activate(w)
    <3>1. PICK w \in Windows : Activate(w)
      BY <2>2
    <3>2. /\ WorkspaceOf(desk, w) \in Workspace
          /\ WorkspaceOf(desk, w) \in Range(desk.list)
      BY <3>1, Parts, WorkspaceFound DEF Activate
    <3>3. WorkspaceOf(desk, w)[1] \in plugged
      BY <3>2, Parts DEF Listing
    <3>4. QED
      BY <3>1, <3>2, <3>3 DEF Activate
  <2>3. QED
    BY <2>1, <2>2
<1> DEFINE e == SetWorkspace(desk, ws, Focused)
<1>2. Switched(desk, e, ws, plugged) /\ Good(plugged, e, orphaned, lost, X)
  BY <1>1, Parts, OpenGood
<1> HIDE DEF e
<1>3. desk' = e
  BY <1>1 DEF e
<1>4. Placed(desk') = Placed(desk)
  BY <1>2, <1>3 DEF Switched
<1>5. UNCHANGED <<plugged, orphaned, pinned, grab, pointer, waiting, lost>>
  BY DEF Open, Activate
<1>6. QED
  BY <1>1, <1>2, <1>3, <1>4, <1>5, KeptDesk

LEMMA MoveKeeps ==
  ASSUME NEW X, InvFor(X), (\E n \in 1 .. Count : WindowTo(n)) \/ DragOver
  PROVE  InvFor(X)' /\ \A o : Active(desk', o) = Active(desk, o)
<1>1. PICK w \in Windows, from \in Workspace, to \in Workspace :
        /\ desk' = MoveTo(desk, w, from, to, Focused)
        /\ \/ desk.of[from] = Focused
           \/ ShownBy(plugged, desk, orphaned, to[1]) = to
  <2>1. CASE \E n \in 1 .. Count : WindowTo(n)
    <3>1. PICK n \in 1 .. Count : WindowTo(n)
      BY <2>1
    <3> DEFINE from == Active(desk, Focused)
               to == <<Focused, n>>
    <3>2. Focused \in plugged
      BY <3>1, FocusedPlugged DEF WindowTo
    <3>3. from \in Workspace /\ desk.of[from] = Focused
      BY <3>2, Shown
    <3>4. to \in Workspace
      BY <3>2, Parts DEF Workspace
    <3> HIDE DEF from, to
    <3>5. desk.active[from] \in Windows
      BY <3>1, <3>3, Parts, DeskFields DEF WindowTo, from
    <3>6. desk' = MoveTo(desk, desk.active[from], from, to, Focused)
      BY <3>1 DEF WindowTo, from, to
    <3>7. QED
      BY <3>3, <3>4, <3>5, <3>6
  <2>2. CASE DragOver
    <3> DEFINE to == Active(desk, Focused)
    <3>1. Focused \in plugged
      BY <2>2, FocusedPlugged DEF DragOver
    <3>2. to \in Workspace /\ ShownBy(plugged, desk, orphaned, to[1]) = to
      BY <3>1, Shown
    <3>3. grab \in Windows
      BY <2>2, Parts DEF DragOver, Placed
    <3>4. WorkspaceOf(desk, grab) \in Workspace
      BY <2>2, Parts, WorkspaceFound DEF DragOver
    <3>5. desk' = MoveTo(desk, grab, WorkspaceOf(desk, grab), to, Focused)
      BY <2>2 DEF DragOver
    <3> HIDE DEF to
    <3>6. QED
      BY <3>2, <3>3, <3>4, <3>5
  <2>3. QED
    BY <2>1, <2>2
<1> DEFINE e == MoveTo(desk, w, from, to, Focused)
<1>2. /\ Good(plugged, e, orphaned, lost, X)
      /\ Placed(e) = Placed(desk)
      /\ \A o : Active(e, o) = Active(desk, o)
  BY <1>1, Parts, MoveGood
<1> HIDE DEF e
<1>3. desk' = e
  BY <1>1 DEF e
<1>4. UNCHANGED <<plugged, orphaned, pinned, grab, pointer, waiting, lost>>
  BY DEF WindowTo, DragOver
<1>5. QED
  BY <1>2, <1>3, <1>4, KeptDesk

\* The steps that leave the desk, the outputs and the orphans as they are.
Idle == \/ \E o \in Names : MovePointer(o)
        \/ \E w \in Windows : BeginMove(w)
        \/ Pin \/ EndMove
        \/ UNCHANGED vars

LEMMA IdleKeeps ==
  ASSUME NEW X, InvFor(X), Idle
  PROVE  InvFor(X)' /\ UNCHANGED <<plugged, desk, orphaned>>
<1>1. UNCHANGED <<plugged, desk, orphaned, waiting, lost>>
  BY DEF Idle, MovePointer, BeginMove, Pin, EndMove, vars
<1>2. pointer' \in Names
  BY Parts DEF Idle, MovePointer, BeginMove, Pin, EndMove, vars
<1>3. pinned' \subseteq Placed(desk)
  <2>1. CASE Pin
    <3> DEFINE ws == Active(desk, Focused)
               w == desk.active[ws]
    <3>1. Focused \in plugged
      BY <2>1, FocusedPlugged DEF Pin
    <3>2. ws \in Workspace /\ ws[1] \in plugged
      BY <3>1, Shown
    <3>3. w # None /\ pinned' \subseteq pinned \cup {w}
      BY <2>1 DEF Pin
    <3> HIDE DEF ws
    <3>4. Holds(desk, ws, w)
      BY <3>2, <3>3, Parts DEF Good, AllFine, ActiveFine
    <3>5. w \in Placed(desk)
      BY <3>2, <3>3, <3>4, Parts, DeskFields DEF Placed
    <3> HIDE DEF w
    <3>6. QED
      BY <3>3, <3>5, Parts
  <2>2. CASE ~Pin
    BY <2>2, Parts DEF Idle, MovePointer, BeginMove, EndMove, vars
  <2>3. QED
    BY <2>1, <2>2
<1>4. grab' \in Placed(desk) \cup {None}
  <2>1. CASE \E w \in Windows : BeginMove(w)
    BY <2>1 DEF BeginMove, Listed, Placed
  <2>2. CASE grab' = None
    BY <2>2
  <2>3. CASE grab' = grab
    BY <2>3, Parts
  <2>4. QED
    BY <2>1, <2>2, <2>3 DEF Idle, MovePointer, Pin, EndMove, vars
<1>5. InvFor(X)'
  BY <1>1, <1>2, <1>3, <1>4, Parts, Kept
<1>6. QED
  BY <1>1, <1>5

\* A layout that comes late enables a node, that of an xdg window.
LEMMA RevealKeeps ==
  ASSUME NEW X, InvFor(X), NEW w \in Windows, Reveal(w)
  PROVE  /\ InvFor(X \cup ({w} \ XWayland))'
         /\ w \in waiting \ waiting'
         /\ \A o : Active(desk', o) = Active(desk, o)
<1> DEFINE hidden == IF w \in XWayland THEN desk.hidden ELSE desk.hidden \ {w}
           e == [desk EXCEPT !.hidden = hidden]
           Y == X \cup ({w} \ XWayland)
<1>1. desk \in Desk /\ Good(plugged, desk, orphaned, lost, X)
  BY Parts
<1>2. desk' = e
  BY <1>1 DEF Reveal, Desk
<1>3. hidden \subseteq Windows /\ desk.hidden \ hidden \subseteq {w} \ XWayland
  BY <1>1, DeskFields
<1> HIDE DEF hidden
<1>4. /\ e \in Desk /\ e.list = desk.list /\ e.of = desk.of /\ e.tops = desk.tops
      /\ e.active = desk.active /\ e.hidden = hidden
  BY <1>1, <1>3 DEF Desk
<1> HIDE DEF e
<1>5. /\ Listing(e, plugged)
      /\ \A o : Active(e, o) = Active(desk, o)
  BY <1>1, <1>4, SameList DEF Good
<1>6. Apart(e) /\ Placed(e) = Placed(desk) /\ AllFine(plugged, e, lost)
  BY <1>1, <1>4 DEF Good, Apart, Placed, Holds, AllFine, ActiveFine
<1>7. ASSUME NEW x \in Workspace, x # ShownBy(plugged, e, orphaned, x[1])
      PROVE  Drawn(e, x) \subseteq Y
  <2>1. Drawn(desk, x) \subseteq X
    BY <1>1, <1>5, <1>7 DEF Good, ShownBy
  <2>2. QED
    BY <1>3, <1>4, <2>1 DEF Drawn
<1>8. Good(plugged, e, orphaned, lost, Y)
  BY <1>1, <1>4, <1>5, <1>6, <1>7 DEF Good
<1> HIDE DEF Y
<1>9. /\ UNCHANGED <<plugged, orphaned, pinned, grab, pointer, lost>>
      /\ w \in waiting \ waiting' /\ waiting' \subseteq waiting
  BY DEF Reveal
<1>10. InvFor(Y)'
  BY <1>2, <1>6, <1>8, <1>9, Parts, Kept
<1>11. QED
  BY <1>2, <1>5, <1>9, <1>10 DEF Y

\* The steps, as the lemmas above take them.
LEMMA Steps ==
  ASSUME [Next]_vars
  PROVE  \/ \E o \in Names : Plug(o)
         \/ \E o \in Names : Unplug(o)
         \/ \E w \in Windows : Mapping(w)
         \/ \E w \in Windows : Reveal(w)
         \/ \E w \in Windows : Unmap(w)
         \/ (\E n \in 1 .. Count : Open(n)) \/ (\E w \in Windows : Activate(w))
         \/ (\E n \in 1 .. Count : WindowTo(n)) \/ DragOver
         \/ Idle
BY DEF Next, Mapping, Idle

\* The exceptions grow by the xdg windows whose layout comes, and only by those.
LEMMA NextKeeps ==
  ASSUME NEW X, NEW Y, InvFor(X), [Next]_vars,
         X \cup ((waiting \ waiting') \ XWayland) \subseteq Y
  PROVE  InvFor(Y)'
<1>1. InvFor(X)' => InvFor(Y)'
  BY DEF InvFor, Good
<1>2. CASE \E o \in Names : Plug(o)
  BY <1>1, <1>2, PlugKeeps
<1>3. CASE \E o \in Names : Unplug(o)
  BY <1>1, <1>3, UnplugKeeps
<1>4. CASE \E w \in Windows : Mapping(w)
  BY <1>1, <1>4, MapKeeps
<1>5. CASE \E w \in Windows : Reveal(w)
  <2>1. PICK w \in Windows : Reveal(w)
    BY <1>5
  <2>2. PICK Z : Z = X \cup ({w} \ XWayland)
    OBVIOUS
  <2>3. InvFor(Z)' /\ w \in waiting \ waiting'
    BY <2>1, <2>2, RevealKeeps
  <2>4. Z \subseteq Y
    BY <2>2, <2>3
  <2>5. QED
    BY <2>3, <2>4 DEF InvFor, Good
<1>6. CASE \E w \in Windows : Unmap(w)
  BY <1>1, <1>6, UnmapKeeps
<1>7. CASE (\E n \in 1 .. Count : Open(n)) \/ (\E w \in Windows : Activate(w))
  BY <1>1, <1>7, OpenKeeps
<1>8. CASE (\E n \in 1 .. Count : WindowTo(n)) \/ DragOver
  BY <1>1, <1>8, MoveKeeps
<1>9. CASE Idle
  BY <1>1, <1>9, IdleKeeps
<1>10. QED
  BY <1>2, <1>3, <1>4, <1>5, <1>6, <1>7, <1>8, <1>9, Steps

\* The invariant holds in every reachable state.
THEOREM DesktopInvariant == Spec => []IInv
<1>1. Init => IInv
  BY InitIInv DEF IInv
<1>2. IInv /\ [Next]_vars => IInv'
  <2> DEFINE X == Windows \ XWayland
  <2>1. waiting \subseteq Windows => X \cup ((waiting \ waiting') \ XWayland) \subseteq X
    OBVIOUS
  <2> HIDE DEF X
  <2>2. InvFor(X) /\ [Next]_vars => InvFor(X)'
    BY <2>1, Parts, NextKeeps
  <2>3. QED
    BY <2>2 DEF IInv, X
<1>3. QED
  BY <1>1, <1>2, PTL DEF Spec

-----------------------------------------------------------------------------
(* The properties *)

\* Every variable keeps its type; what is pinned and what is grabbed is mapped.
THEOREM DesktopTypeOK == Spec => []TypeOK
<1>1. IInv => TypeOK
  BY DEF IInv, InvFor
<1>2. QED
  BY <1>1, DesktopInvariant, PTL

\* An output that is plugged in has each of its workspaces in the list, once, and the
\* orphans of one that is away are all its workspaces (adopt_workspaces and
\* orphanize_workspaces).
THEOREM OutputsKeepWorkspaces == Spec => []WorkspacesKept
<1>1. ASSUME IInv PROVE WorkspacesKept
  <2>1. ASSUME NEW o \in Names PROVE Mine(o) = {<<o, i>> : i \in 1 .. Count}
    BY DEF Mine, Workspace
  <2>2. OrphansKept(plugged, orphaned)
    BY <1>1, Parts DEF IInv, Good
  <2>3. ASSUME NEW o \in plugged
        PROVE  Range(OfOutput(desk, o)) = Mine(o) /\ IsInjective(OfOutput(desk, o))
    BY <1>1, Parts, AllOfOutput DEF IInv
  <2>4. ASSUME NEW o \in Names \ plugged PROVE OfOutput(desk, o) = << >>
    BY <1>1, Parts, NothingShown DEF IInv
  <2>5. QED
    BY <2>1, <2>2, <2>3, <2>4 DEF WorkspacesKept, OrphansKept
<1>2. QED
  BY <1>1, DesktopInvariant, PTL

\* A window is on one workspace, once, whatever sequence of moves, drags and pins, and
\* of outputs that come and go, it went through (move_to and set_workspace).
THEOREM WindowsOnOneWorkspace == Spec => []OnOneWorkspace
<1>1. IInv => OnOneWorkspace
  BY DEF IInv, InvFor, Good, Apart, OnOneWorkspace, Holds
<1>2. QED
  BY <1>1, DesktopInvariant, PTL

\* The active window of a workspace is on it, but for a window that closed while the
\* output of the workspace was away (Workspace::close is not reached then).
THEOREM ActiveWindowIsListed == Spec => []ActiveIsListed
<1>1. IInv => ActiveIsListed
  BY DEF IInv, InvFor, Good, AllFine, ActiveFine, ActiveIsListed
<1>2. QED
  BY <1>1, DesktopInvariant, PTL

\* The exceptions of a desk: what is drawn on workspaces that are not shown.
LEMMA Exceptions ==
  ASSUME IInv, NEW X,
         X = {w \in Windows : \E x \in Workspace :
                /\ x # ShownBy(plugged, desk, orphaned, x[1])
                /\ w \in Drawn(desk, x)}
  PROVE  InvFor(X) /\ X \cap XWayland = {}
<1>1. Good(plugged, desk, orphaned, lost, Windows \ XWayland) /\ TypeOK
  BY DEF IInv, InvFor
<1>2. \A x \in Workspace : Drawn(desk, x) \subseteq Windows
  BY <1>1, TopsOf DEF Good, Drawn
<1>3. \A x \in Workspace :
        x # ShownBy(plugged, desk, orphaned, x[1]) => Drawn(desk, x) \subseteq X
  BY <1>2
<1>4. InvFor(X)
  BY <1>1, <1>3 DEF Good, InvFor
<1>5. X \cap XWayland = {}
  BY <1>1 DEF Good
<1>6. QED
  BY <1>4, <1>5

\* A workspace is shown, now or when its output comes back.
LEMMA ShownOnShownBy ==
  ASSUME Listing(desk, plugged), NEW ws \in Workspace
  PROVE  ShownOn(ws) <=> ws = ShownBy(plugged, desk, orphaned, ws[1])
<1>1. desk.of[ws] = IF ws[1] \in plugged THEN ws[1] ELSE None
  BY DEF Listing
<1>2. ws[1] \in Names /\ ws[1] # None /\ ws # None
  BY DesktopAssumption DEF Workspace
<1>3. QED
  BY <1>1, <1>2 DEF ShownOn, ShownBy

\* A window comes to be drawn on a workspace that is not shown in one way only: it is an
\* xdg window and its layout comes late, in set_position_size or Transaction::apply, which
\* enable the node whatever set_hidden has said.  set_workspace, move_to, the rules, and
\* adoption do not lead there, by any sequence of steps.
THEOREM HiddenUnlessShown == Spec => OnlyShownIsVisible
<1>1. ASSUME IInv, IInv', [Next]_vars, NEW w \in Windows, Astray(w)', ~Astray(w)
      PROVE  w \in (waiting \ waiting') \ XWayland
  <2>1. PICK X : X = {v \in Windows : \E x \in Workspace :
                        /\ x # ShownBy(plugged, desk, orphaned, x[1])
                        /\ v \in Drawn(desk, x)}
    OBVIOUS
  <2>2. PICK Y : Y = X \cup ((waiting \ waiting') \ XWayland)
    OBVIOUS
  <2>3. InvFor(X) /\ X \cap XWayland = {}
    BY <1>1, <2>1, Exceptions
  <2>4. InvFor(Y)'
    BY <1>1, <2>2, <2>3, NextKeeps
  <2>5. w \in Y
    <3>1. PICK x \in Workspace : (Holds(desk, x, w) /\ ~ShownOn(x) /\ Visible(w))'
      BY <1>1 DEF Astray
    <3>2. (x # ShownBy(plugged, desk, orphaned, x[1]))'
      <4>1. (desk.of[x] = IF x[1] \in plugged THEN x[1] ELSE None)'
        BY <2>4 DEF InvFor, Good, Listing
      <4>2. x[1] \in Names /\ x[1] # None /\ x # None
        BY DesktopAssumption DEF Workspace
      <4>3. QED
        BY <3>1, <4>1, <4>2 DEF ShownOn, ShownBy
    <3>3. w \in Drawn(desk', x)
      BY <3>1 DEF Holds, Visible, Drawn
    <3>4. Drawn(desk', x) \subseteq Y
      BY <2>4, <3>2 DEF InvFor, Good
    <3>5. QED
      BY <3>3, <3>4
  <2>6. w \notin X
    <3>1. SUFFICES ASSUME w \in X PROVE FALSE
      OBVIOUS
    <3>2. w \notin XWayland
      BY <2>3, <3>1
    <3>3. PICK x \in Workspace : /\ x # ShownBy(plugged, desk, orphaned, x[1])
                                 /\ w \in Drawn(desk, x)
      BY <2>1, <3>1
    <3>4. ~ShownOn(x)
      BY <2>3, <3>3, ShownOnShownBy DEF InvFor, Good
    <3>5. Astray(w)
      BY <3>2, <3>3, <3>4 DEF Astray, Holds, Visible, Drawn
    <3>6. QED
      BY <1>1, <3>5
  <2>7. QED
    BY <2>2, <2>5, <2>6
<1>2. IInv /\ IInv' /\ [Next]_vars =>
        [\A w \in Windows : Astray(w)' /\ ~Astray(w) =>
                              w \in (waiting \ waiting') \ XWayland]_vars
  BY <1>1
<1>3. QED
  BY <1>2, DesktopInvariant, PTL DEF OnlyShownIsVisible, Spec

\* No step but set_workspace changes which workspace an output shows, and that one shows
\* all the windows on it, those that followed included, but X11 windows that still wait
\* for their layout.
THEOREM SwitchingShowsAll == Spec => SwitchingShows
<1> DEFINE AllOn(o) == Active(desk', o) # Active(desk, o) =>
                         \A w \in Range(desk'.tops[Active(desk', o)]) :
                           Visible(w)' \/ w \in XWayland \cap waiting'
<1>1. ASSUME IInv, [Next]_vars, NEW o \in plugged \cap plugged' PROVE AllOn(o)
  <2>1. CASE \E q \in Names : Plug(q)
    BY <1>1, <2>1, PlugKeeps DEF IInv
  <2>2. CASE \E q \in Names : Unplug(q)
    BY <1>1, <2>2, UnplugKeeps DEF IInv
  <2>3. CASE \E w \in Windows : Mapping(w)
    BY <1>1, <2>3, MapKeeps DEF IInv
  <2>4. CASE \E w \in Windows : Unmap(w)
    BY <1>1, <2>4, UnmapKeeps DEF IInv
  <2>5. CASE (\E n \in 1 .. Count : Open(n)) \/ (\E w \in Windows : Activate(w))
    <3>1. PICK ws \in Workspace : Switched(desk, desk', ws, plugged)
      BY <1>1, <2>5, OpenKeeps DEF IInv
    <3>2. CASE o = ws[1]
      BY <3>1, <3>2 DEF Switched, Visible
    <3>3. CASE o # ws[1]
      BY <1>1, <3>1, <3>3 DEF Switched
    <3>4. QED
      BY <3>2, <3>3
  <2>6. CASE (\E n \in 1 .. Count : WindowTo(n)) \/ DragOver
    BY <1>1, <2>6, MoveKeeps DEF IInv
  <2>7. CASE Idle
    BY <1>1, <2>7, IdleKeeps DEF IInv
  <2>8. CASE \E w \in Windows : Reveal(w)
    BY <1>1, <2>8, RevealKeeps DEF IInv
  <2>9. QED
    BY <1>1, <2>1, <2>2, <2>3, <2>4, <2>5, <2>6, <2>7, <2>8, Steps
<1>2. IInv /\ [Next]_vars => [\A o \in plugged \cap plugged' : AllOn(o)]_vars
  BY <1>1
<1>3. QED
  BY <1>2, DesktopInvariant, PTL DEF SwitchingShows, Spec

\* An output that comes back shows what it showed when it went, although adopting its
\* workspaces puts each at the head of the list (adopt_workspaces).
THEOREM AdoptionShowsTheSame == Spec => ComesBackAsItWas
<1> DEFINE Same(o) == orphaned[o] # None => Active(desk', o) = <<o, orphaned[o].num>>
<1>1. ASSUME IInv, IInv', [Next]_vars, NEW o \in plugged' \ plugged PROVE Same(o)
  <2>1. CASE Plug(o)
    <3>1. o \in Names
      BY <1>1 DEF IInv, InvFor, TypeOK
    <3>2. QED
      BY <1>1, <2>1, <3>1, PlugKeeps DEF IInv
  <2>2. CASE ~Plug(o)
    <3>1. PICK q \in Names : Plug(q)
      BY <1>1 DEF Next, Unplug, MovePointer, Map, Reveal, MapByRule, Unmap, Activate,
                  BeginMove, Open, WindowTo, Pin, DragOver, EndMove, vars
    <3>2. o = q
      BY <1>1, <3>1 DEF Plug
    <3>3. QED
      BY <2>2, <3>1, <3>2
  <2>3. QED
    BY <2>1, <2>2
<1>2. IInv /\ IInv' /\ [Next]_vars => [\A o \in plugged' \ plugged : Same(o)]_vars
  BY <1>1
<1>3. QED
  BY <1>2, DesktopInvariant, PTL DEF ComesBackAsItWas, Spec
=============================================================================
