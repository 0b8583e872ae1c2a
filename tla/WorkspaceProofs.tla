-------------------------- MODULE WorkspaceProofs --------------------------
(***************************************************************************)
(* Proofs about Workspace, for any set of windows: no window has two       *)
(* leaves, or one after it has gone, unless it has floated, and a tree     *)
(* that has changed has its layout.                                        *)
(*                                                                         *)
(* Every operator that takes a world to a world is shown to keep each      *)
(* window good, and to change only the windows and the leaves it says.     *)
(***************************************************************************)
EXTENDS Workspace, TLAPS

\* What is known of every window.  A floating one may have one leaf (from being
\* maximized and restored), and so two once it is tiled again.
Good(top) ==
  /\ top.floating => top.floated /\ top.leaves <= 1
  /\ ~top.floated => top.leaves <= 1 /\ (~top.here => top.leaves = 0)
  /\ top.leaves = 0 => ~top.fresh
  /\ ~top.here => Blank(top)

Kept(w) == w \in World /\ \A tl \in Toplevels : Good(w.tops[tl])

Treeless(w) == \A tl \in Toplevels : w.tops[tl].leaves = 0

\* Without a tree there is no leaf.
Fine(w) == Kept(w) /\ (~w.auto => Treeless(w))

Inv == Fine(W)

\* What a call may do: keep every window good, and the tree's absence.
Lays(w1, w2) ==
  /\ Kept(w2)
  /\ w2.auto = w1.auto
  /\ \A tl \in Toplevels :
       /\ w2.tops[tl].here = w1.tops[tl].here
       /\ w2.tops[tl].floating = w1.tops[tl].floating
       /\ w2.tops[tl].floated = w1.tops[tl].floated
       /\ ~w1.auto => w2.tops[tl].leaves = w1.tops[tl].leaves

\* One that leaves the tree alone.
Marks(w1, w2) ==
  /\ Lays(w1, w2)
  /\ \A tl \in Toplevels : w2.tops[tl].leaves = w1.tops[tl].leaves

-----------------------------------------------------------------------------
(* One window *)

LEMMA TopType ==
  ASSUME NEW w \in World, NEW tl \in Toplevels
  PROVE  w.tops[tl] \in Toplevel
  BY DEF World

LEMMA PlacedGood ==
  ASSUME NEW top \in Toplevel, Good(top), NEW r \in BOOLEAN
  PROVE  /\ Placed(top, r) \in Toplevel /\ Good(Placed(top, r))
         /\ Placed(top, r).here = top.here /\ Placed(top, r).leaves = top.leaves
         /\ Placed(top, r).floating = top.floating
         /\ Placed(top, r).floated = top.floated
  BY DEF Toplevel, Good, Placed, Blank

LEMMA UnmaximizedGood ==
  ASSUME NEW top \in Toplevel, Good(top)
  PROVE  /\ Unmaximized(top) \in Toplevel /\ Good(Unmaximized(top))
         /\ Unmaximized(top).here = top.here
         /\ Unmaximized(top).leaves = top.leaves
         /\ Unmaximized(top).floating = top.floating
         /\ Unmaximized(top).floated = top.floated
  BY DEF Toplevel, Good, Unmaximized, Blank

LEMMA ComputedGood ==
  ASSUME NEW top \in Toplevel, Good(top)
  PROVE  /\ Computed(top) \in Toplevel /\ Good(Computed(top))
         /\ Computed(top).here = top.here /\ Computed(top).leaves = top.leaves
         /\ Computed(top).floating = top.floating
         /\ Computed(top).floated = top.floated
         /\ ~Computed(top).fresh
  BY DEF Toplevel, Good, Computed, Blank

\* What is left of Good for a window that has just begun to float.
Half(top) ==
  /\ top.here
  /\ top.floating => top.floated
  /\ ~top.floated => top.leaves <= 1
  /\ top.leaves = 0 => ~top.fresh

\* May get another leaf.
Open(top) == top.here /\ (top.leaves = 0 \/ (top.floated /\ ~top.floating /\ top.leaves <= 1))

\* All that happens to the leaves of a window changes two fields.
Rooted(top, n, f) == [top EXCEPT !.leaves = n, !.fresh = f]

LEMMA RootedType ==
  ASSUME NEW top \in Toplevel, NEW n \in 0 .. 2, NEW f \in BOOLEAN
  PROVE  /\ Rooted(top, n, f) \in Toplevel
         /\ Rooted(top, n, f).leaves = n
         /\ Rooted(top, n, f).fresh = f
         /\ Rooted(top, n, f).here = top.here
         /\ Rooted(top, n, f).floating = top.floating
         /\ Rooted(top, n, f).floated = top.floated
         /\ Blank(top) => Blank(Rooted(top, n, f))
<1> DEFINE r == Rooted(top, n, f)
<1>1. /\ r.leaves = n /\ r.fresh = f
      /\ r.here = top.here /\ r.floating = top.floating
      /\ r.floated = top.floated /\ r.current = top.current
      /\ r.asked = top.asked /\ r.fullscreen = top.fullscreen
      /\ r.sized = top.sized
  BY DEF Toplevel, Rooted
<1>2. r \in Toplevel
  BY DEF Toplevel, Rooted
<1>3. Blank(top) => Blank(r)
  <2> HIDE DEF r
  <2> QED
    BY <1>1 DEF Blank
<1>4. QED
  BY <1>1, <1>2, <1>3

LEMMA RootedGood ==
  ASSUME NEW top \in Toplevel, NEW n \in 0 .. 2, NEW f \in BOOLEAN,
         n = 0 => ~f, n > 0 => top.here,
         top.floating => top.floated /\ n <= 1,
         ~top.floated => n <= 1,
         top.here \/ Blank(top)
  PROVE  Good(Rooted(top, n, f))
  BY RootedType DEF Good, Toplevel

LEMMA GrownGood ==
  ASSUME NEW top \in Toplevel, Good(top), Open(top)
  PROVE  /\ Grown(top) \in Toplevel /\ Good(Grown(top))
         /\ Grown(top).here = top.here /\ Grown(top).leaves = top.leaves + 1
         /\ Grown(top).floating = top.floating
         /\ Grown(top).floated = top.floated
<1>1. top.leaves \in 0 .. 2 /\ top.leaves + 1 \in 0 .. 2
  BY DEF Open, Toplevel
<1>2. Grown(top) \in Toplevel
  BY <1>1 DEF Grown, Toplevel
<1>3. /\ Grown(top).here = top.here /\ Grown(top).leaves = top.leaves + 1
      /\ Grown(top).floating = top.floating
      /\ Grown(top).floated = top.floated
      /\ Grown(top).current = top.current /\ Grown(top).asked = top.asked
      /\ Grown(top).fullscreen = top.fullscreen
      /\ Grown(top).sized = top.sized
  BY DEF Grown, Toplevel
<1>4. Good(Grown(top))
  BY <1>1, <1>2, <1>3 DEF Good, Open, Blank, Toplevel
<1>5. QED
  BY <1>2, <1>3, <1>4

LEMMA RenewedGood ==
  ASSUME NEW top \in Toplevel, Good(top), top.leaves > 0
  PROVE  /\ Renewed(top) \in Toplevel /\ Good(Renewed(top))
         /\ Renewed(top).here = top.here /\ Renewed(top).leaves = top.leaves
         /\ Renewed(top).floating = top.floating
         /\ Renewed(top).floated = top.floated
<1>1. Renewed(top) \in Toplevel
  BY DEF Renewed, Toplevel
<1>2. /\ Renewed(top).here = top.here /\ Renewed(top).leaves = top.leaves
      /\ Renewed(top).floating = top.floating
      /\ Renewed(top).floated = top.floated
      /\ Renewed(top).current = top.current /\ Renewed(top).asked = top.asked
      /\ Renewed(top).fullscreen = top.fullscreen
      /\ Renewed(top).sized = top.sized
  BY DEF Renewed, Toplevel
<1>3. Good(Renewed(top))
  BY <1>1, <1>2 DEF Good, Blank, Toplevel
<1>4. QED
  BY <1>1, <1>2, <1>3

LEMMA LostLeafGood ==
  ASSUME NEW top \in Toplevel, Half(top)
  PROVE  /\ LostLeaf(top) \in Toplevel /\ Good(LostLeaf(top))
         /\ LostLeaf(top).here /\ LostLeaf(top).leaves <= 1
         /\ LostLeaf(top).floated = top.floated
         /\ LostLeaf(top).floating = top.floating
         /\ LostLeaf(top).leaves <= top.leaves
         /\ ~top.floated => LostLeaf(top).leaves = 0
<1> DEFINE n == IF top.leaves = 0 THEN 0 ELSE top.leaves - 1
           f == top.fresh /\ top.leaves > 1
<1>1. top.leaves \in 0 .. 2
  BY DEF Toplevel
<1>2. n \in 0 .. 2 /\ n <= 1 /\ f \in BOOLEAN /\ (n = 0 => ~f) /\ n <= top.leaves
  BY <1>1
<1>3. LostLeaf(top) = Rooted(top, n, f)
  BY DEF LostLeaf, Rooted
<1>4. ~top.floated => n = 0
  BY <1>1 DEF Half
<1> HIDE DEF n, f
<1>5. Good(Rooted(top, n, f))
  BY <1>2, RootedGood DEF Half
<1>6. QED
  BY <1>2, <1>3, <1>4, <1>5, RootedType DEF Half

LEMMA AnewGood ==
  ASSUME NEW top \in Toplevel, NEW in \in BOOLEAN,
         in => top.here, top.floating => top.floated,
         top.here \/ Good(top)
  PROVE  /\ Anew(top, in) \in Toplevel /\ Good(Anew(top, in))
         /\ Anew(top, in).here = top.here
         /\ Anew(top, in).leaves = IF in THEN 1 ELSE 0
         /\ Anew(top, in).floating = top.floating
         /\ Anew(top, in).floated = top.floated
<1> DEFINE n == IF in THEN 1 ELSE 0
<1>1. n \in 0 .. 2 /\ n <= 1 /\ (n = 0 <=> ~in)
  OBVIOUS
<1>2. Anew(top, in) = Rooted(top, n, in)
  BY DEF Anew, Rooted
<1> HIDE DEF n
<1>3. Good(Rooted(top, n, in))
  BY <1>1, RootedGood DEF Good
<1>4. Anew(top, in).leaves = n
  BY <1>1, <1>2, RootedType
<1>5. QED
  BY <1>1, <1>2, <1>3, <1>4, RootedType DEF n

LEMMA LeftGood ==
  ASSUME NEW top \in Toplevel, Good(top), ~top.floated => top.leaves = 0
  PROVE  /\ Left(top) \in Toplevel /\ Good(Left(top))
         /\ Left(top).leaves = top.leaves
<1> DEFINE r == Left(top)
<1>1. /\ r.leaves = top.leaves
      /\ r.fresh = top.fresh
      /\ r.here = FALSE
      /\ r.floating = FALSE
      /\ r.current = FALSE
      /\ r.asked = FALSE
      /\ r.fullscreen = FALSE
      /\ r.sized = TRUE
      /\ r.floated = (top.floated /\ top.leaves > 0)
  BY DEF Toplevel, Left, Out
<1>2. r \in Toplevel
  BY DEF Toplevel, Left, Half, Open, Out
<1>3. Good(r)
  <2> HIDE DEF r
  <2> QED
    BY <1>1, <1>2 DEF Good, Half, Open, Blank, Toplevel
<1>4. QED
  BY <1>1, <1>2, <1>3 DEF Good, Half, Open, Toplevel

-----------------------------------------------------------------------------
(* Calls that leave the tree alone *)

LEMMA LaysTrans ==
  ASSUME NEW w1, NEW w2, NEW w3, Lays(w1, w2), Lays(w2, w3)
  PROVE  Lays(w1, w3)
  BY DEF Lays

LEMMA MarksTrans ==
  ASSUME NEW w1, NEW w2, NEW w3, Marks(w1, w2), Marks(w2, w3)
  PROVE  Marks(w1, w3)
  BY LaysTrans DEF Marks

LEMMA MarksSelf ==
  ASSUME NEW w, Kept(w)
  PROVE  Marks(w, w)
  BY DEF Marks, Lays

\* Every window is replaced by one that is good and has the same leaves.
LEMMA TopsMark ==
  ASSUME NEW w, Kept(w), NEW w2 \in World, w2.auto = w.auto,
         \A tl \in Toplevels :
           /\ Good(w2.tops[tl])
           /\ w2.tops[tl].here = w.tops[tl].here
           /\ w2.tops[tl].floating = w.tops[tl].floating
           /\ w2.tops[tl].floated = w.tops[tl].floated
           /\ w2.tops[tl].leaves = w.tops[tl].leaves
  PROVE  Marks(w, w2)
  BY DEF Marks, Lays, Kept

\* One window is replaced.
With(w, tl, top) == [w EXCEPT !.tops[tl] = top]

LEMMA WithType ==
  ASSUME NEW w \in World, NEW tl \in Toplevels, NEW top \in Toplevel
  PROVE  /\ With(w, tl, top) \in World
         /\ With(w, tl, top).auto = w.auto
         /\ With(w, tl, top).tops[tl] = top
         /\ \A o \in Toplevels \ {tl} : With(w, tl, top).tops[o] = w.tops[o]
  BY DEF With, World

LEMMA WithMark ==
  ASSUME NEW w, Kept(w), NEW tl \in Toplevels, NEW top \in Toplevel,
         Good(top),
         top.here = w.tops[tl].here, top.floating = w.tops[tl].floating,
         top.floated = w.tops[tl].floated, top.leaves = w.tops[tl].leaves
  PROVE  Marks(w, With(w, tl, top))
<1> DEFINE w2 == With(w, tl, top)
<1>1. /\ w2 \in World /\ w2.auto = w.auto /\ w2.tops[tl] = top
      /\ \A o \in Toplevels \ {tl} : w2.tops[o] = w.tops[o]
  BY WithType DEF Kept
<1> HIDE DEF w2
<1>2. \A o \in Toplevels :
        /\ Good(w2.tops[o])
        /\ w2.tops[o].here = w.tops[o].here
        /\ w2.tops[o].floating = w.tops[o].floating
        /\ w2.tops[o].floated = w.tops[o].floated
        /\ w2.tops[o].leaves = w.tops[o].leaves
  BY <1>1 DEF Kept
<1>3. Marks(w, w2)
  BY <1>1, <1>2, TopsMark
<1>4. QED
  BY <1>3 DEF w2

LEMMA SetPositionMark ==
  ASSUME NEW w, Kept(w), NEW tl \in Toplevels
  PROVE  Marks(w, SetPosition(w, tl))
<1>1. SetPosition(w, tl) = With(w, tl, Placed(w.tops[tl], w.busy))
  BY DEF SetPosition, With
<1>2. w.tops[tl] \in Toplevel /\ Good(w.tops[tl]) /\ w.busy \in BOOLEAN
  BY DEF Kept, World
<1>3. QED
  BY <1>1, <1>2, PlacedGood, WithMark

LEMMA UnmaximizedMark ==
  ASSUME NEW w, Kept(w), NEW tl \in Toplevels
  PROVE  Marks(w, With(w, tl, Unmaximized(w.tops[tl])))
<1>1. w.tops[tl] \in Toplevel /\ Good(w.tops[tl])
  BY DEF Kept, World
<1>2. QED
  BY <1>1, UnmaximizedGood, WithMark

LEMMA CalculatedMark ==
  ASSUME NEW w, Kept(w)
  PROVE  Marks(w, Calculated(w))
<1>1. \A tl \in Toplevels : w.tops[tl] \in Toplevel /\ Good(w.tops[tl])
  BY DEF Kept, World
<1>2. \A tl \in Toplevels : Computed(w.tops[tl]) \in Toplevel
  BY <1>1, ComputedGood
<1>3. Calculated(w) \in World /\ Calculated(w).auto = w.auto
  BY <1>2 DEF Kept, World, Calculated
<1>4. \A tl \in Toplevels : Calculated(w).tops[tl] = Computed(w.tops[tl])
  BY DEF Kept, World, Calculated
<1>5. QED
  BY <1>1, <1>3, <1>4, ComputedGood, TopsMark

LEMMA BatchMark ==
  ASSUME NEW w, Kept(w), NEW moved
  PROVE  Marks(w, Batch(w, moved))
<1> DEFINE new(tl) == IF tl \in moved THEN Placed(w.tops[tl], TRUE) ELSE w.tops[tl]
<1>1. \A tl \in Toplevels : w.tops[tl] \in Toplevel /\ Good(w.tops[tl])
  BY DEF Kept, World
<1>2. \A tl \in Toplevels :
        /\ new(tl) \in Toplevel /\ Good(new(tl))
        /\ new(tl).here = w.tops[tl].here
        /\ new(tl).floating = w.tops[tl].floating
        /\ new(tl).floated = w.tops[tl].floated
        /\ new(tl).leaves = w.tops[tl].leaves
  BY <1>1, PlacedGood
<1> DEFINE some == moved # {}
           all == [tl \in Toplevels |-> new(tl)]
<1>3. Batch(w, moved) = [w EXCEPT !.busy = some, !.tops = all]
  BY DEF Batch
<1> HIDE DEF new
<1>4. all \in [Toplevels -> Toplevel] /\ \A tl \in Toplevels : all[tl] = new(tl)
  BY <1>2
<1>5. some \in BOOLEAN
  OBVIOUS
<1> HIDE DEF some, all
<1>6. /\ Batch(w, moved) \in World /\ Batch(w, moved).auto = w.auto
      /\ \A tl \in Toplevels : Batch(w, moved).tops[tl] = new(tl)
  <2>1. [w EXCEPT !.busy = some, !.tops = all] \in World
    BY <1>4, <1>5 DEF Kept, World
  <2>2. /\ [w EXCEPT !.busy = some, !.tops = all].auto = w.auto
        /\ [w EXCEPT !.busy = some, !.tops = all].tops = all
    BY DEF Kept, World
  <2>3. QED
    BY <1>3, <1>4, <2>1, <2>2
<1>7. QED
  BY <1>2, <1>6, TopsMark

\* Only what is no part of a window changes.
LEMMA FieldsMark ==
  ASSUME NEW w, Kept(w), NEW w2 \in World, w2.auto = w.auto, w2.tops = w.tops
  PROVE  Marks(w, w2)
  BY TopsMark DEF Kept

LEMMA ScheduleMark ==
  ASSUME NEW w, Kept(w), NEW what \in {"none", "layout", "layout or tile"}
  PROVE  Marks(w, Schedule(w, what))
<1>1. /\ Schedule(w, what) \in World /\ Schedule(w, what).auto = w.auto
      /\ Schedule(w, what).tops = w.tops
  BY DEF Kept, World, Schedule
<1>2. QED
  BY <1>1, FieldsMark

LEMMA CancelMark ==
  ASSUME NEW w, Kept(w)
  PROVE  Marks(w, Cancel(w))
  BY ScheduleMark DEF Cancel

LEMMA ActiveMark ==
  ASSUME NEW w, Kept(w), NEW next \in Toplevels \cup {None}
  PROVE  Marks(w, [w EXCEPT !.active = next])
<1> DEFINE w2 == [w EXCEPT !.active = next]
<1>1. w2 \in World /\ w2.auto = w.auto /\ w2.tops = w.tops
  BY DEF Kept, World
<1>2. QED
  BY <1>1, FieldsMark

LEMMA ApplyLayoutMark ==
  ASSUME NEW w, Kept(w)
  PROVE  Marks(w, ApplyLayout(w))
<1> DEFINE laid == [w EXCEPT !.dirty = FALSE]
<1>1. laid \in World /\ laid.auto = w.auto /\ laid.tops = w.tops
  BY DEF Kept, World
<1>2. Marks(w, laid)
  BY <1>1, FieldsMark
<1>3. ApplyLayout(w) = IF Leaved(w) = {} THEN laid
                       ELSE Batch(Calculated(laid), Leaved(w) \ Skipped(w))
  BY DEF ApplyLayout
<1> HIDE DEF laid
<1>4. Kept(laid) /\ Marks(laid, Calculated(laid))
  BY <1>2, CalculatedMark DEF Marks, Lays
<1>5. Kept(Calculated(laid))
  BY <1>4 DEF Marks, Lays
<1>6. Marks(laid, Batch(Calculated(laid), Leaved(w) \ Skipped(w)))
  BY <1>4, <1>5, BatchMark, MarksTrans
<1>7. QED
  BY <1>2, <1>3, <1>6, MarksTrans

-----------------------------------------------------------------------------
(* Calls that change the tree *)

\* Every window but tl is good, and tl has at least begun to float.
Parting(w, tl) ==
  /\ w \in World
  /\ \A o \in Toplevels \ {tl} : Good(w.tops[o])
  /\ Half(w.tops[tl])

\* One window is replaced, and the tree may have changed.
Redone(w, tl, top, changed) == [w EXCEPT !.dirty = changed, !.tops[tl] = top]

LEMMA RedoneLays ==
  ASSUME NEW w \in World, NEW tl \in Toplevels, NEW top \in Toplevel,
         NEW changed \in BOOLEAN, Good(top),
         \A o \in Toplevels \ {tl} : Good(w.tops[o]),
         top.here = w.tops[tl].here, top.floating = w.tops[tl].floating,
         top.floated = w.tops[tl].floated,
         w.auto \/ top.leaves = w.tops[tl].leaves
  PROVE  /\ Lays(w, Redone(w, tl, top, changed))
         /\ Redone(w, tl, top, changed).tops[tl] = top
         /\ \A o \in Toplevels \ {tl} :
              Redone(w, tl, top, changed).tops[o] = w.tops[o]
<1> DEFINE w2 == Redone(w, tl, top, changed)
<1>1. /\ w2 \in World /\ w2.auto = w.auto /\ w2.tops[tl] = top
      /\ \A o \in Toplevels \ {tl} : w2.tops[o] = w.tops[o]
  BY DEF Redone, World
<1> HIDE DEF w2
<1>2. Kept(w2)
  BY <1>1 DEF Kept
<1>3. Lays(w, w2)
  BY <1>1, <1>2 DEF Lays
<1>4. QED
  BY <1>1, <1>3 DEF w2

LEMMA WithLeafLays ==
  ASSUME NEW w, Kept(w), w.auto, NEW tl \in Toplevels, Open(w.tops[tl])
  PROVE  /\ Lays(w, WithLeaf(w, tl))
         /\ WithLeaf(w, tl).tops[tl].leaves = w.tops[tl].leaves + 1
         /\ \A o \in Toplevels \ {tl} : WithLeaf(w, tl).tops[o] = w.tops[o]
<1>1. WithLeaf(w, tl) = Redone(w, tl, Grown(w.tops[tl]), TRUE)
  BY DEF WithLeaf, Redone
<1>2. w \in World /\ w.tops[tl] \in Toplevel /\ Good(w.tops[tl])
  BY DEF Kept, World
<1> DEFINE top == Grown(w.tops[tl])
<1>3. /\ top \in Toplevel /\ Good(top) /\ top.here = w.tops[tl].here
      /\ top.leaves = w.tops[tl].leaves + 1
      /\ top.floating = w.tops[tl].floating
      /\ top.floated = w.tops[tl].floated
  BY <1>2, GrownGood
<1>4. \A o \in Toplevels \ {tl} : Good(w.tops[o])
  BY DEF Kept
<1> HIDE DEF top
<1>5. /\ Lays(w, Redone(w, tl, top, TRUE))
      /\ Redone(w, tl, top, TRUE).tops[tl] = top
      /\ \A o \in Toplevels \ {tl} : Redone(w, tl, top, TRUE).tops[o] = w.tops[o]
  <2>1. /\ top \in Toplevel /\ Good(top) /\ top.here = w.tops[tl].here
        /\ top.floating = w.tops[tl].floating /\ top.floated = w.tops[tl].floated
    BY <1>3
  <2>2. /\ w \in World /\ TRUE \in BOOLEAN
        /\ w.auto \/ top.leaves = w.tops[tl].leaves
    BY <1>2
  <2>3. QED
    BY <1>4, <2>1, <2>2, RedoneLays
<1>6. QED
  BY <1>1, <1>3, <1>5 DEF top

LEMMA InsertLays ==
  ASSUME NEW w, Kept(w), w.auto, NEW tl \in Toplevels, Open(w.tops[tl])
  PROVE  /\ Lays(w, Insert(w, tl))
         /\ Insert(w, tl).tops[tl].leaves = w.tops[tl].leaves + 1
<1> DEFINE w2 == WithLeaf(w, tl)
<1>1. Lays(w, w2) /\ Kept(w2) /\ w2.tops[tl].leaves = w.tops[tl].leaves + 1
  BY WithLeafLays DEF Lays
<1> HIDE DEF w2
<1>2. Marks(w2, Calculated(w2))
  BY <1>1, CalculatedMark
<1>3. QED
  BY <1>1, <1>2, LaysTrans DEF Insert, Marks, w2

\* The leaf that is split stays with its window.
LEMMA InsertsLays ==
  ASSUME NEW w, Kept(w), w.auto, NEW tl \in Toplevels, Open(w.tops[tl]),
         NEW w2 \in Inserts(w, tl)
  PROVE  /\ Lays(w, w2)
         /\ w2.tops[tl].leaves = w.tops[tl].leaves + 1
         /\ \A o \in Toplevels \ {tl} : w2.tops[o].leaves = w.tops[o].leaves
<1> DEFINE w1 == WithLeaf(w, tl)
<1>1. /\ Lays(w, w1) /\ Kept(w1)
      /\ w1.tops[tl].leaves = w.tops[tl].leaves + 1
      /\ \A o \in Toplevels \ {tl} : w1.tops[o] = w.tops[o]
  BY WithLeafLays DEF Lays
<1>2. CASE Leaved(w) = {}
  BY <1>1, <1>2 DEF Inserts
<1>3. CASE Leaved(w) # {}
  <2>1. PICK o \in Leaved(w) : w2 = [w1 EXCEPT !.tops[o] = Renewed(@)]
    BY <1>3 DEF Inserts
  <2>2. w2 = With(w1, o, Renewed(w1.tops[o]))
    BY <2>1 DEF With
  <2> HIDE DEF w1
  <2>3. o \in Toplevels /\ w.tops[o].leaves > 0 /\ w.tops[tl].leaves \in 0 .. 2
    BY <2>1 DEF Leaved, Kept, World, Toplevel
  <2>4. w1.tops[o] \in Toplevel /\ Good(w1.tops[o])
    BY <1>1, <2>3 DEF Kept, World
  <2>5. w1.tops[o].leaves > 0
    BY <1>1, <2>3
  <2>6. Marks(w1, w2)
    BY <1>1, <2>2, <2>3, <2>4, <2>5, RenewedGood, WithMark
  <2>7. QED
    BY <1>1, <2>6, LaysTrans DEF Marks
<1>4. QED
  BY <1>2, <1>3

LEMMA RemoveLays ==
  ASSUME NEW w, NEW tl \in Toplevels, Parting(w, tl),
         w.auto \/ w.tops[tl].leaves = 0
  PROVE  /\ Lays(w, Remove(w, tl))
         /\ ~w.tops[tl].floated => Remove(w, tl).tops[tl].leaves = 0
<1> DEFINE changed == w.dirty \/ tl \in Leaved(w)
<1>1. Remove(w, tl) = Redone(w, tl, LostLeaf(w.tops[tl]), changed)
  BY DEF Remove, Redone
<1>2. /\ w \in World /\ w.tops[tl] \in Toplevel /\ Half(w.tops[tl])
      /\ \A o \in Toplevels \ {tl} : Good(w.tops[o])
  BY DEF Parting, World
<1>3. changed \in BOOLEAN
  BY <1>2 DEF World
<1> HIDE DEF changed
<1> DEFINE top == LostLeaf(w.tops[tl])
<1>4. /\ top \in Toplevel /\ Good(top) /\ top.here = w.tops[tl].here
      /\ top.floating = w.tops[tl].floating
      /\ top.floated = w.tops[tl].floated
      /\ ~w.tops[tl].floated => top.leaves = 0
      /\ w.auto \/ top.leaves = w.tops[tl].leaves
  <2>1. w.tops[tl].leaves \in 0 .. 2 /\ top.leaves \in 0 .. 2
    BY <1>2, LostLeafGood DEF Toplevel
  <2>2. w.tops[tl].leaves = 0 => top.leaves = 0
    BY <1>2, <2>1, LostLeafGood
  <2>3. QED
    BY <1>2, <2>2, LostLeafGood DEF Half
<1> HIDE DEF top
<1>5. /\ Lays(w, Redone(w, tl, top, changed))
      /\ Redone(w, tl, top, changed).tops[tl] = top
  BY <1>2, <1>3, <1>4, RedoneLays
<1>6. QED
  BY <1>1, <1>4, <1>5 DEF top

\* A tree can be built anew.
Ready(w) ==
  /\ w \in World
  /\ w.auto
  /\ \A tl \in Toplevels : /\ w.tops[tl].floating => w.tops[tl].floated
                           /\ w.tops[tl].here \/ Good(w.tops[tl])

\* In a tree built anew a window has one leaf or none.
LEMMA AnewEach ==
  ASSUME NEW w, Ready(w), NEW S, S \subseteq Listed(w), NEW tl \in Toplevels
  PROVE  /\ Anew(w.tops[tl], tl \in S) \in Toplevel
         /\ Good(Anew(w.tops[tl], tl \in S))
         /\ Anew(w.tops[tl], tl \in S).here = w.tops[tl].here
         /\ Anew(w.tops[tl], tl \in S).floating = w.tops[tl].floating
         /\ Anew(w.tops[tl], tl \in S).floated = w.tops[tl].floated
         /\ tl \notin S => Anew(w.tops[tl], tl \in S).leaves = 0
<1> DEFINE in == tl \in S
<1>1. in \in BOOLEAN
  OBVIOUS
<1>2. w.tops[tl] \in Toplevel
  BY DEF Ready, World
<1>3. in => w.tops[tl].here
  BY DEF Listed
<1>4. /\ w.tops[tl].floating => w.tops[tl].floated
      /\ w.tops[tl].here \/ Good(w.tops[tl])
  BY DEF Ready
<1>5. tl \notin S => ~in
  OBVIOUS
<1> HIDE DEF in
<1>6. /\ Anew(w.tops[tl], in) \in Toplevel
      /\ Good(Anew(w.tops[tl], in))
      /\ Anew(w.tops[tl], in).here = w.tops[tl].here
      /\ Anew(w.tops[tl], in).floating = w.tops[tl].floating
      /\ Anew(w.tops[tl], in).floated = w.tops[tl].floated
      /\ tl \notin S => Anew(w.tops[tl], in).leaves = 0
  BY <1>1, <1>2, <1>3, <1>4, <1>5, AnewGood
<1>7. QED
  BY <1>6 DEF in

LEMMA AnewLays ==
  ASSUME NEW w, Ready(w), NEW w2 \in World, w2.auto = w.auto,
         NEW S, S \subseteq Listed(w),
         \A tl \in Toplevels : w2.tops[tl] = Anew(w.tops[tl], tl \in S)
  PROVE  /\ Lays(w, w2)
         /\ \A tl \in Toplevels \ S : w2.tops[tl].leaves = 0
<1>1. \A tl \in Toplevels :
        /\ Good(w2.tops[tl])
        /\ w2.tops[tl].here = w.tops[tl].here
        /\ w2.tops[tl].floating = w.tops[tl].floating
        /\ w2.tops[tl].floated = w.tops[tl].floated
        /\ tl \notin S => w2.tops[tl].leaves = 0
  BY AnewEach
<1>2. Kept(w2)
  BY <1>1 DEF Kept
<1>3. QED
  BY <1>1, <1>2 DEF Lays, Ready

LEMMA RebuildLays ==
  ASSUME NEW w, Ready(w), NEW S, S \subseteq Listed(w)
  PROVE  /\ Lays(w, Rebuild(w, S))
         /\ \A tl \in Toplevels \ S : Rebuild(w, S).tops[tl].leaves = 0
<1> DEFINE S2 == S \ Skipped(w)
           all == [tl \in Toplevels |-> Anew(w.tops[tl], tl \in S2)]
<1>1. Rebuild(w, S) = [w EXCEPT !.dirty = TRUE, !.tops = all]
  BY DEF Rebuild
<1>2. S2 \subseteq Listed(w) /\ S2 \subseteq S
  OBVIOUS
<1> HIDE DEF S2
<1>3. \A tl \in Toplevels : Anew(w.tops[tl], tl \in S2) \in Toplevel
  BY <1>2, AnewEach
<1>4. all \in [Toplevels -> Toplevel]
  BY <1>3
<1>5. \A tl \in Toplevels : all[tl] = Anew(w.tops[tl], tl \in S2)
  OBVIOUS
<1> HIDE DEF all
<1>6. /\ Rebuild(w, S) \in World /\ Rebuild(w, S).auto = w.auto
      /\ Rebuild(w, S).tops = all
  BY <1>1, <1>4 DEF Ready, World
<1>7. \A tl \in Toplevels : Rebuild(w, S).tops[tl] = Anew(w.tops[tl], tl \in S2)
  BY <1>5, <1>6
<1>8. /\ Lays(w, Rebuild(w, S))
      /\ \A tl \in Toplevels \ S2 : Rebuild(w, S).tops[tl].leaves = 0
  BY <1>2, <1>6, <1>7, AnewLays
<1>9. QED
  BY <1>2, <1>8

LEMMA KeptReady ==
  ASSUME NEW w, Kept(w), w.auto
  PROVE  Ready(w)
  BY DEF Kept, Ready, Good

LEMMA RespiralLays ==
  ASSUME NEW w, Kept(w), w.auto, NEW tl \in Toplevels, Open(w.tops[tl])
  PROVE  Lays(w, Respiral(w, tl))
<1> DEFINE more == Insert(w, tl)
           new(o) == IF o \in Skipped(w) THEN Anew(more.tops[o], FALSE)
                     ELSE more.tops[o]
           all == [o \in Toplevels |-> new(o)]
           w2 == [more EXCEPT !.tops = all]
<1>1. Lays(w, more) /\ Kept(more) /\ more.auto
  BY InsertLays DEF Lays
<1>2. Respiral(w, tl) = IF Leaved(w) = {} THEN more ELSE w2
  BY DEF Respiral
<1> HIDE DEF more
<1>3. \A o \in Toplevels :
        /\ new(o) \in Toplevel /\ Good(new(o))
        /\ new(o).here = more.tops[o].here
        /\ new(o).floating = more.tops[o].floating
        /\ new(o).floated = more.tops[o].floated
  <2>1. \A o \in Toplevels : more.tops[o] \in Toplevel /\ Good(more.tops[o])
    BY <1>1 DEF Kept, World
  <2>2. \A o \in Toplevels : more.tops[o].floating => more.tops[o].floated
    BY <2>1 DEF Good
  <2>3. QED
    BY <2>1, <2>2, AnewGood
<1> HIDE DEF new
<1>4. all \in [Toplevels -> Toplevel] /\ \A o \in Toplevels : all[o] = new(o)
  BY <1>3
<1> HIDE DEF all
<1>5. w2 \in World /\ w2.auto = more.auto /\ w2.tops = all
  BY <1>1, <1>4 DEF Kept, World
<1> HIDE DEF w2
<1>6. Kept(w2)
  BY <1>3, <1>4, <1>5 DEF Kept
<1>7. Lays(more, w2)
  BY <1>1, <1>3, <1>4, <1>5, <1>6 DEF Lays
<1>8. QED
  BY <1>1, <1>2, <1>7, LaysTrans

LEMMA JoinLays ==
  ASSUME NEW w, Kept(w), w.auto, NEW tl \in Toplevels, Open(w.tops[tl])
  PROVE  Lays(w, Join(w, tl))
<1>1. Ready(w) /\ Listed(w) \ Floating(w) \subseteq Listed(w)
  BY KeptReady
<1>2. QED
  BY <1>1, RebuildLays, RespiralLays, InsertLays DEF Join

\* A window that parts has no leaf left, unless it has floated.
LEMMA PartLays ==
  ASSUME NEW w, NEW tl \in Toplevels, Parting(w, tl), w.auto
  PROVE  /\ Lays(w, Part(w, tl))
         /\ ~w.tops[tl].floated => Part(w, tl).tops[tl].leaves = 0
<1>1. CASE method = "grid"
  <2> DEFINE S == Listed(w) \ (Floating(w) \cup {tl})
  <2>1. Ready(w)
    BY <1>1 DEF Parting, Ready, Half, Good
  <2>2. S \subseteq Listed(w) /\ tl \notin S /\ Part(w, tl) = Rebuild(w, S)
    BY <1>1 DEF Part
  <2> HIDE DEF S
  <2>3. QED
    BY <2>1, <2>2, RebuildLays
<1>2. CASE method # "grid"
  BY <1>2, RemoveLays DEF Part
<1>3. QED
  BY <1>1, <1>2

\* A window in the list of a kept world can part.
LEMMA KeptParting ==
  ASSUME NEW w, Kept(w), NEW tl \in Toplevels, w.tops[tl].here
  PROVE  Parting(w, tl)
  BY DEF Kept, Parting, Half, Good, Open

-----------------------------------------------------------------------------
(* The window states *)

LEMMA FullscreenMark ==
  ASSUME NEW w, Kept(w), NEW tl \in Toplevels, w.tops[tl].here
  PROVE  Marks(w, Fullscreen(w, tl))
<1> DEFINE top == [w.tops[tl] EXCEPT !.fullscreen = TRUE]
           w1 == With(w, tl, top)
<1>1. Fullscreen(w, tl) = SetPosition(w1, tl)
  BY DEF Fullscreen, With
<1>2. w.tops[tl] \in Toplevel /\ Good(w.tops[tl])
  BY DEF Kept, World
<1>3. /\ top \in Toplevel /\ top.here = w.tops[tl].here
      /\ top.floating = w.tops[tl].floating /\ top.fresh = w.tops[tl].fresh
      /\ top.floated = w.tops[tl].floated /\ top.leaves = w.tops[tl].leaves
  BY <1>2 DEF Toplevel
<1> HIDE DEF top
<1>4. Good(top)
  BY <1>2, <1>3 DEF Good
<1>5. Marks(w, w1)
  BY <1>3, <1>4, WithMark
<1> HIDE DEF w1
<1>6. Kept(w1)
  BY <1>5 DEF Marks, Lays
<1>7. Marks(w1, SetPosition(w1, tl))
  BY <1>6, SetPositionMark
<1>8. QED
  BY <1>1, <1>5, <1>7, MarksTrans

\* Back to its leaf, or to a new one.
LEMMA RejoinLays ==
  ASSUME NEW w, Kept(w), w.auto, NEW tl \in Toplevels, w.tops[tl].here
  PROVE  Lays(w, IF tl \in Leaved(w) THEN w ELSE Insert(w, tl))
<1>1. w.tops[tl] \in Toplevel
  BY DEF Kept, World
<1>2. tl \notin Leaved(w) => Open(w.tops[tl])
  BY <1>1 DEF Leaved, Open, Toplevel
<1>3. QED
  BY <1>2, InsertLays, MarksSelf DEF Marks

LEMMA UnfullscreenLays ==
  ASSUME NEW w, Kept(w), NEW tl \in Toplevels, w.tops[tl].here
  PROVE  Lays(w, Unfullscreen(w, tl))
<1> DEFINE top == [w.tops[tl] EXCEPT !.fullscreen = FALSE]
           w1 == With(w, tl, top)
           w2 == With(w1, tl, Unmaximized(w1.tops[tl]))
           w3 == IF tl \in Leaved(w2) THEN w2 ELSE Insert(w2, tl)
<1>1. Unfullscreen(w, tl) =
        IF w.auto THEN SetPosition(Calculated(w3), tl) ELSE SetPosition(w1, tl)
  BY DEF Unfullscreen, With
<1>2. w.tops[tl] \in Toplevel /\ Good(w.tops[tl])
  BY DEF Kept, World
<1>3. /\ top \in Toplevel /\ top.here = w.tops[tl].here
      /\ top.floating = w.tops[tl].floating /\ top.fresh = w.tops[tl].fresh
      /\ top.floated = w.tops[tl].floated /\ top.leaves = w.tops[tl].leaves
  BY <1>2 DEF Toplevel
<1> HIDE DEF top
<1>4. Good(top)
  BY <1>2, <1>3 DEF Good
<1>5. Marks(w, w1)
  BY <1>3, <1>4, WithMark
<1> HIDE DEF w1
<1>6. Kept(w1) /\ Marks(w1, w2)
  BY <1>5, UnmaximizedMark DEF Marks, Lays
<1> HIDE DEF w2
<1>7. Lays(w, w2)
  BY <1>5, <1>6, LaysTrans DEF Marks
<1>8. CASE w.auto
  <2>1. Kept(w2) /\ w2.auto /\ w2.tops[tl].here
    BY <1>7, <1>8 DEF Lays
  <2>2. Lays(w2, w3)
    BY <2>1, RejoinLays
  <2> HIDE DEF w3
  <2>3. Kept(w3) /\ Lays(w3, Calculated(w3))
    BY <2>2, CalculatedMark DEF Lays, Marks
  <2>4. Lays(Calculated(w3), SetPosition(Calculated(w3), tl))
    BY <2>3, SetPositionMark DEF Lays, Marks
  <2>5. Lays(w, SetPosition(Calculated(w3), tl))
    BY <1>7, <2>2, <2>3, <2>4, LaysTrans
  <2>6. QED
    BY <1>1, <1>8, <2>5
<1>9. CASE ~w.auto
  <2>1. Marks(w1, SetPosition(w1, tl))
    BY <1>6, SetPositionMark
  <2>2. Lays(w, SetPosition(w1, tl))
    BY <1>5, <2>1, LaysTrans DEF Marks
  <2>3. QED
    BY <1>1, <1>9, <2>2
<1>10. QED
  BY <1>8, <1>9, <1>2 DEF Kept, World

LEMMA SetMaximizedLays ==
  ASSUME NEW w, Kept(w), NEW tl \in Toplevels, w.tops[tl].here,
         NEW maximized \in BOOLEAN
  PROVE  Lays(w, SetMaximized(w, tl, maximized))
<1> DEFINE w1 == IF w.tops[tl].fullscreen THEN Unfullscreen(w, tl) ELSE w
           top == [w1.tops[tl] EXCEPT !.asked = maximized]
           w2 == With(w1, tl, top)
           placed == SetPosition(w2, tl)
           w3 == IF maximized THEN Remove(placed, tl)
                 ELSE IF tl \in Leaved(w2) THEN w2 ELSE Insert(w2, tl)
<1>1. SetMaximized(w, tl, maximized) =
        IF w.auto THEN ApplyLayout(Cancel(w3)) ELSE placed
  BY DEF SetMaximized, With
<1>2. Lays(w, w1)
  BY UnfullscreenLays, MarksSelf DEF Marks
<1> HIDE DEF w1
<1>3. Kept(w1) /\ w1.tops[tl] \in Toplevel /\ Good(w1.tops[tl])
  BY <1>2 DEF Lays, Kept, World
<1>4. w1.tops[tl].here
  BY <1>2 DEF Lays
<1>5. /\ top \in Toplevel /\ top.here = w1.tops[tl].here
      /\ top.floating = w1.tops[tl].floating /\ top.fresh = w1.tops[tl].fresh
      /\ top.floated = w1.tops[tl].floated /\ top.leaves = w1.tops[tl].leaves
  BY <1>3 DEF Toplevel
<1> HIDE DEF top
<1>6. Good(top)
  BY <1>3, <1>4, <1>5 DEF Good
<1>7. Marks(w1, w2)
  BY <1>3, <1>5, <1>6, WithMark
<1> HIDE DEF w2
<1>8. Lays(w, w2) /\ Kept(w2)
  BY <1>2, <1>7, LaysTrans DEF Marks, Lays
<1>9. Marks(w2, placed)
  BY <1>8, SetPositionMark
<1> HIDE DEF placed
<1>10. Lays(w, placed)
  BY <1>8, <1>9, LaysTrans DEF Marks
<1>11. CASE w.auto
  <2>1. Kept(w2) /\ w2.auto /\ w2.tops[tl].here
    BY <1>8, <1>11 DEF Lays
  <2>2. Kept(placed) /\ placed.auto /\ placed.tops[tl].here
    BY <1>10, <1>11 DEF Lays
  <2>3. Lays(placed, Remove(placed, tl))
    BY <2>2, KeptParting, RemoveLays
  <2>4. Lays(w2, IF tl \in Leaved(w2) THEN w2 ELSE Insert(w2, tl))
    BY <2>1, RejoinLays
  <2>5. Lays(w, w3)
    BY <1>8, <1>10, <2>3, <2>4, LaysTrans
  <2> HIDE DEF w3
  <2>6. Kept(w3) /\ Lays(w3, Cancel(w3))
    BY <2>5, CancelMark DEF Lays, Marks
  <2>7. Lays(Cancel(w3), ApplyLayout(Cancel(w3)))
    BY <2>6, ApplyLayoutMark DEF Lays, Marks
  <2>8. QED
    BY <1>1, <1>11, <2>5, <2>6, <2>7, LaysTrans
<1>12. CASE ~w.auto
  BY <1>1, <1>10, <1>12
<1>13. QED
  BY <1>11, <1>12

-----------------------------------------------------------------------------
(* The calls of a workspace *)

LEMMA AddToplevelLays ==
  ASSUME NEW w, Kept(w), NEW tl \in Toplevels, w.tops[tl].here,
         w.tops[tl].leaves = 0, NEW hidden \in BOOLEAN, NEW small \in BOOLEAN
  PROVE  Lays(w, AddToplevel(w, tl, hidden, small))
<1> DEFINE w1 == [w EXCEPT !.active = tl]
           new(o) == IF o \in Listed(w) \ {tl} THEN Unmaximized(w.tops[o])
                     ELSE w.tops[o]
           all == [o \in Toplevels |-> new(o)]
           w2 == [Cancel(w1) EXCEPT !.tops = all]
           joined == Join(w2, tl)
           placed == SetPosition(Calculated(joined), tl)
<1>1. AddToplevel(w, tl, hidden, small) =
        IF ~w.auto THEN w1
        ELSE IF w.tops[tl].floating
        THEN (IF hidden THEN SetPosition(w1, tl) ELSE w1)
        ELSE IF tl \in Skipped(w) \/ small THEN w1
        ELSE ApplyLayout(placed)
  BY DEF AddToplevel
<1>2. Marks(w, w1)
  BY ActiveMark
<1>3. \A o \in Toplevels :
        /\ new(o) \in Toplevel /\ Good(new(o))
        /\ new(o).here = w.tops[o].here
        /\ new(o).floating = w.tops[o].floating
        /\ new(o).floated = w.tops[o].floated
        /\ new(o).leaves = w.tops[o].leaves
  <2>1. \A o \in Toplevels : w.tops[o] \in Toplevel /\ Good(w.tops[o])
    BY DEF Kept, World
  <2>2. QED
    BY <2>1, UnmaximizedGood
<1> HIDE DEF new
<1>4. all \in [Toplevels -> Toplevel] /\ \A o \in Toplevels : all[o] = new(o)
  BY <1>3
<1> HIDE DEF all, w1
<1>5. Marks(w1, SetPosition(w1, tl))
  BY <1>2, SetPositionMark DEF Marks, Lays
<1>6. Marks(w, Cancel(w1)) /\ Kept(Cancel(w1))
  BY <1>2, CancelMark, MarksTrans DEF Marks, Lays
<1>7. w2 \in World /\ w2.auto = w.auto /\ w2.tops = all
  <2>1. Cancel(w1) \in World /\ Cancel(w1).auto = w.auto
    BY <1>6 DEF Kept, Marks, Lays
  <2>2. QED
    BY <1>4, <2>1 DEF World
<1> HIDE DEF w2
<1>8. Marks(w, w2)
  BY <1>3, <1>4, <1>7, TopsMark
<1>9. Lays(w, w1) /\ Lays(w, SetPosition(w1, tl)) /\ Lays(w, w2)
  BY <1>2, <1>5, <1>8, LaysTrans DEF Marks
<1>10. CASE w.auto /\ ~w.tops[tl].floating /\ ~(tl \in Skipped(w) \/ small)
  <2>1. Kept(w2) /\ w2.auto /\ Open(w2.tops[tl])
    BY <1>8, <1>10 DEF Marks, Lays, Open
  <2>2. Lays(w2, joined)
    BY <2>1, JoinLays
  <2> HIDE DEF joined
  <2>3. Kept(joined) /\ Marks(joined, Calculated(joined))
    BY <2>2, CalculatedMark DEF Lays
  <2>4. Marks(joined, placed)
    BY <2>3, SetPositionMark, MarksTrans DEF Marks, Lays
  <2> HIDE DEF placed
  <2>5. Lays(w, placed) /\ Kept(placed)
    BY <1>9, <2>2, <2>4, LaysTrans DEF Marks, Lays
  <2>6. Lays(w, ApplyLayout(placed))
    BY <2>5, ApplyLayoutMark, LaysTrans DEF Marks
  <2>7. QED
    BY <1>1, <1>10, <2>6
<1>11. CASE ~(w.auto /\ ~w.tops[tl].floating /\ ~(tl \in Skipped(w) \/ small))
  BY <1>1, <1>9, <1>11
<1>12. QED
  BY <1>10, <1>11

LEMMA LaysFine ==
  ASSUME NEW w, Fine(w), NEW w2, Lays(w, w2)
  PROVE  Fine(w2)
  BY DEF Fine, Lays, Treeless

LEMMA CloseLays ==
  ASSUME NEW w, Fine(w), NEW tl \in Toplevels, w.tops[tl].here,
         NEW next \in Toplevels \cup {None}
  PROVE  /\ Lays(w, Close(w, tl, next))
         /\ ~w.tops[tl].floated => Close(w, tl, next).tops[tl].leaves = 0
<1> DEFINE w1 == [w EXCEPT !.active = next]
           parted == Part(w1, tl)
<1>1. Close(w, tl, next) =
        IF w.auto THEN Schedule(parted, "layout or tile") ELSE w1
  BY DEF Close
<1>2. Marks(w, w1)
  BY ActiveMark DEF Fine
<1> HIDE DEF w1
<1>3. Kept(w1) /\ w1.tops[tl].here
  BY <1>2 DEF Marks, Lays
<1>4. CASE w.auto
  <2>1. w1.auto /\ w1.tops[tl].floated = w.tops[tl].floated
    BY <1>2, <1>4 DEF Marks, Lays
  <2>2. Parting(w1, tl)
    BY <1>3, KeptParting
  <2>3. /\ Lays(w1, parted)
        /\ ~w.tops[tl].floated => parted.tops[tl].leaves = 0
    BY <2>1, <2>2, PartLays
  <2> HIDE DEF parted
  <2>4. Kept(parted) /\ Marks(parted, Schedule(parted, "layout or tile"))
    BY <2>3, ScheduleMark DEF Lays
  <2>5. Lays(w, parted)
    BY <1>2, <2>3, LaysTrans DEF Marks
  <2>6. QED
    BY <1>1, <1>4, <2>3, <2>4, <2>5, LaysTrans DEF Marks
<1>5. CASE ~w.auto
  BY <1>1, <1>2, <1>5 DEF Marks, Fine, Treeless
<1>6. QED
  BY <1>4, <1>5

\* A window leaves the list.
LEMMA UnlistedFine ==
  ASSUME NEW w, Fine(w), NEW tl \in Toplevels,
         ~w.tops[tl].floated => w.tops[tl].leaves = 0
  PROVE  Fine(Unlisted(w, tl))
<1> DEFINE top == Left(w.tops[tl])
           w2 == With(w, tl, top)
<1>1. Unlisted(w, tl) = w2
  BY DEF Unlisted, With
<1>2. w \in World /\ w.tops[tl] \in Toplevel /\ Good(w.tops[tl])
  BY DEF Fine, Kept, World
<1>3. top \in Toplevel /\ Good(top) /\ top.leaves = w.tops[tl].leaves
  BY <1>2, LeftGood
<1> HIDE DEF top
<1>4. /\ w2 \in World /\ w2.auto = w.auto /\ w2.tops[tl] = top
      /\ \A o \in Toplevels \ {tl} : w2.tops[o] = w.tops[o]
  BY <1>2, <1>3, WithType
<1> HIDE DEF w2
<1>5. Kept(w2)
  BY <1>3, <1>4 DEF Fine, Kept
<1>6. \A o \in Toplevels : w2.tops[o].leaves = w.tops[o].leaves
  BY <1>3, <1>4
<1>7. QED
  BY <1>1, <1>4, <1>5, <1>6 DEF Fine, Treeless

LEMMA MoveToFine ==
  ASSUME NEW w, Fine(w), NEW tl \in Toplevels, w.tops[tl].here,
         NEW next \in Toplevels \cup {None}
  PROVE  Fine(MoveTo(w, tl, next))
<1> DEFINE w1 == [w EXCEPT !.active = next]
           parted == Part(w1, tl)
           w2 == IF w.auto THEN Schedule(parted, "layout") ELSE w1
<1>1. MoveTo(w, tl, next) = Unlisted(w2, tl)
  BY DEF MoveTo
<1>2. Marks(w, w1)
  BY ActiveMark DEF Fine
<1> HIDE DEF w1
<1>3. Kept(w1) /\ w1.tops[tl].here
  BY <1>2 DEF Marks, Lays
<1>4. Lays(w, w2) /\ (~w2.tops[tl].floated => w2.tops[tl].leaves = 0)
  <2>1. CASE w.auto
    <3>1. w1.auto /\ Parting(w1, tl)
      BY <1>2, <1>3, <2>1, KeptParting DEF Marks, Lays
    <3>2. /\ Lays(w1, parted)
          /\ ~w1.tops[tl].floated => parted.tops[tl].leaves = 0
      BY <3>1, PartLays
    <3> HIDE DEF parted
    <3>3. Kept(parted) /\ Marks(parted, Schedule(parted, "layout"))
      BY <3>2, ScheduleMark DEF Lays
    <3>4. Lays(w, parted)
      BY <1>2, <3>2, LaysTrans DEF Marks
    <3>5. Lays(w, w2) /\ Marks(parted, w2)
      BY <2>1, <3>3, <3>4, LaysTrans DEF Marks
    <3> HIDE DEF w2
    <3>6. QED
      BY <3>2, <3>5 DEF Marks, Lays
  <2>2. CASE ~w.auto
    BY <1>2, <2>2 DEF Marks, Fine, Treeless
  <2>3. QED
    BY <2>1, <2>2
<1> HIDE DEF w2
<1>5. QED
  BY <1>1, <1>4, LaysFine, UnlistedFine

LEMMA BoxedGood ==
  ASSUME NEW top \in Toplevel, Good(top), top.here, top.leaves > 0,
         NEW fresh \in BOOLEAN
  PROVE  /\ Boxed(top, fresh) \in Toplevel /\ Good(Boxed(top, fresh))
         /\ Boxed(top, fresh).here = top.here
         /\ Boxed(top, fresh).leaves = top.leaves
         /\ Boxed(top, fresh).floating = top.floating
         /\ Boxed(top, fresh).floated = top.floated
<1>1. Boxed(top, fresh) \in Toplevel
  BY DEF Boxed, Toplevel
<1>2. /\ Boxed(top, fresh).here = top.here
      /\ Boxed(top, fresh).leaves = top.leaves
      /\ Boxed(top, fresh).floating = top.floating
      /\ Boxed(top, fresh).floated = top.floated
  BY DEF Boxed, Toplevel
<1>3. Good(Boxed(top, fresh))
  BY <1>2 DEF Good
<1>4. QED
  BY <1>1, <1>2, <1>3

LEMMA ExchangeLays ==
  ASSUME NEW w, Kept(w), NEW a \in Toplevels, NEW b \in Toplevels \ {a},
         w.tops[a].here, w.tops[b].here,
         w.tops[a].leaves > 0, w.tops[b].leaves > 0
  PROVE  Lays(w, Exchange(w, a, b))
<1> DEFINE topA == Boxed(w.tops[a], w.tops[b].fresh)
           topB == Boxed(w.tops[b], w.tops[a].fresh)
           w1 == With(w, a, topA)
<1>1. Exchange(w, a, b) = With(w1, b, topB)
  BY DEF Exchange, With
<1>2. /\ w \in World /\ w.tops[a] \in Toplevel /\ w.tops[b] \in Toplevel
      /\ Good(w.tops[a]) /\ Good(w.tops[b])
  BY DEF Kept, World
<1>3. w.tops[a].fresh \in BOOLEAN /\ w.tops[b].fresh \in BOOLEAN
  BY <1>2 DEF Toplevel
<1>4. /\ topA \in Toplevel /\ Good(topA) /\ topA.here = w.tops[a].here
      /\ topA.leaves = w.tops[a].leaves /\ topA.floating = w.tops[a].floating
      /\ topA.floated = w.tops[a].floated
  BY <1>2, <1>3, BoxedGood
<1>5. /\ topB \in Toplevel /\ Good(topB) /\ topB.here = w.tops[b].here
      /\ topB.leaves = w.tops[b].leaves /\ topB.floating = w.tops[b].floating
      /\ topB.floated = w.tops[b].floated
  BY <1>2, <1>3, BoxedGood
<1> HIDE DEF topA, topB
<1>6. Marks(w, w1) /\ w1.tops[b] = w.tops[b]
  <2>1. Marks(w, w1)
    BY <1>4, WithMark
  <2>2. w1.tops[b] = w.tops[b]
    BY <1>2, <1>4, WithType
  <2>3. QED
    BY <2>1, <2>2
<1> HIDE DEF w1
<1>7. Kept(w1)
  BY <1>6 DEF Marks, Lays
<1>8. Marks(w1, With(w1, b, topB))
  BY <1>5, <1>6, <1>7, WithMark
<1>9. QED
  BY <1>1, <1>6, <1>8, LaysTrans DEF Marks

LEMMA EnsureLays ==
  ASSUME NEW w, Kept(w), w.auto, NEW tl \in Toplevels, w.tops[tl].here,
         NEW w2 \in Ensure(w, tl)
  PROVE  /\ Lays(w, w2)
         /\ w2.tops[tl].leaves > 0
         /\ \A o \in Toplevels : w.tops[o].leaves > 0 => w2.tops[o].leaves > 0
<1>1. CASE tl \in Leaved(w)
  <2>1. w2 = w
    BY <1>1 DEF Ensure
  <2>2. QED
    BY <1>1, <2>1, MarksSelf DEF Leaved, Marks
<1>2. CASE tl \notin Leaved(w)
  <2>1. w.tops[tl].leaves = 0
    <3>1. w.tops[tl] \in Toplevel
      BY DEF Kept, World
    <3>2. QED
      BY <1>2, <3>1 DEF Leaved, Toplevel
  <2>2. Open(w.tops[tl]) /\ w2 \in Inserts(w, tl)
    BY <1>2, <2>1 DEF Open, Ensure
  <2>3. QED
    BY <2>1, <2>2, InsertsLays
<1>3. QED
  BY <1>1, <1>2

LEMMA SwapsLays ==
  ASSUME NEW w, Kept(w), NEW a \in Toplevels, NEW b \in Toplevels \ {a},
         w.tops[a].here, w.tops[b].here, NEW w2 \in Swaps(w, a, b)
  PROVE  Lays(w, w2)
<1> DEFINE c == Cancel(w)
           wa == With(c, a, Unmaximized(c.tops[a]))
           wb == With(wa, b, Unmaximized(wa.tops[b]))
           w1 == [wb EXCEPT !.busy = TRUE]
<1>1. w2 \in IF ~w.auto THEN {Batch(w1, {a, b})}
            ELSE {Exchange(w4, a, b) :
                    w4 \in UNION {Ensure(w3, b) : w3 \in Ensure(w1, a)}}
  BY DEF Swaps, With
<1>2. Marks(w, c) /\ Kept(c)
  BY CancelMark DEF Marks, Lays
<1> HIDE DEF c
<1>3. Marks(c, wa) /\ Kept(wa)
  BY <1>2, UnmaximizedMark DEF Marks, Lays
<1> HIDE DEF wa
<1>4. Marks(wa, wb) /\ Kept(wb)
  BY <1>3, UnmaximizedMark DEF Marks, Lays
<1> HIDE DEF wb
<1>5. w1 \in World /\ w1.auto = wb.auto /\ w1.tops = wb.tops
  BY <1>4 DEF Kept, World
<1> HIDE DEF w1
<1>6. Marks(wb, w1)
  BY <1>4, <1>5, FieldsMark
<1>7. Marks(w, w1)
  BY <1>2, <1>3, <1>4, <1>6, MarksTrans
<1>8. /\ Lays(w, w1) /\ Kept(w1) /\ w1.auto = w.auto
      /\ w1.tops[a].here /\ w1.tops[b].here
  BY <1>7 DEF Marks, Lays
<1>9. CASE ~w.auto
  BY <1>1, <1>8, <1>9, BatchMark, LaysTrans DEF Marks
<1>10. CASE w.auto
  <2>1. PICK w3 \in Ensure(w1, a) :
         \E w4 \in Ensure(w3, b) : w2 = Exchange(w4, a, b)
    BY <1>1, <1>10
  <2> PICK w4 \in Ensure(w3, b) : w2 = Exchange(w4, a, b)
    BY <2>1
  <2>2. Lays(w1, w3) /\ w3.tops[a].leaves > 0
    BY <1>8, <1>10, EnsureLays
  <2>3. Kept(w3) /\ w3.auto /\ w3.tops[a].here /\ w3.tops[b].here
    BY <1>8, <1>10, <2>2 DEF Lays
  <2>4. Lays(w3, w4) /\ w4.tops[b].leaves > 0 /\ w4.tops[a].leaves > 0
    BY <2>2, <2>3, EnsureLays
  <2>5. Kept(w4) /\ w4.tops[a].here /\ w4.tops[b].here
    BY <2>3, <2>4 DEF Lays
  <2>6. Lays(w4, w2)
    BY <2>4, <2>5, ExchangeLays
  <2>7. QED
    BY <1>8, <2>2, <2>4, <2>6, LaysTrans
<1>11. QED
  BY <1>9, <1>10

LEMMA TileAllLays ==
  ASSUME NEW w, Kept(w), NEW sans
  PROVE  Lays(w, TileAll(w, sans))
  BY BatchMark, MarksSelf DEF TileAll, Marks

-----------------------------------------------------------------------------
(* The handlers *)

LEMMA StepInv ==
  ASSUME NEW w, Fine(w), Step(w)
  PROVE  Inv'
<1>1. /\ W'.tops = w.tops /\ W'.active = w.active /\ W'.auto = w.auto
      /\ W'.pending = w.pending /\ W'.dirty = w.dirty /\ W'.busy = w.busy
  BY DEF Step, W
<1>2. W' \in World
  BY <1>1 DEF Fine, Kept, World, Step, W
<1>3. \A tl \in Toplevels : W'.tops[tl] = w.tops[tl]
  BY <1>1
<1> HIDE DEF W
<1>4. Kept(W')
  BY <1>2, <1>3 DEF Fine, Kept
<1>5. Fine(W')
  BY <1>1, <1>3, <1>4 DEF Fine, Treeless
<1>6. QED
  BY <1>5 DEF Inv, Fine, Kept, Treeless, Good, Blank

LEMMA StepLays ==
  ASSUME NEW w, Inv, Lays(W, w), Step(w)
  PROVE  Inv'
  BY LaysFine, StepInv DEF Inv

LEMMA ModesType ==
  ASSUME NEW mode \in Modes
  PROVE  mode.max \in BOOLEAN /\ mode.full \in BOOLEAN
<1>1. \A x, y \in BOOLEAN :
        [max |-> x, full |-> y].max \in BOOLEAN
        /\ [max |-> x, full |-> y].full \in BOOLEAN
  OBVIOUS
<1>2. \E x, y \in BOOLEAN : mode = [max |-> x, full |-> y]
  BY DEF Modes
<1>3. QED
  BY <1>1, <1>2

\* A window that joins the list.
LEMMA ArrivingFine ==
  ASSUME Inv, NEW tl \in Outside, NEW floating \in BOOLEAN, NEW mode \in Modes
  PROVE  LET w == Arriving(tl, floating, mode)
         IN /\ Fine(w) /\ w.auto = auto
            /\ w.tops[tl].here /\ w.tops[tl].leaves = 0
<1> DEFINE top == [Out EXCEPT !.here = TRUE, !.floating = floating,
                     !.floated = floating, !.current = mode.max,
                     !.asked = mode.max, !.fullscreen = mode.full]
           w == With(W, tl, top)
<1>1. Arriving(tl, floating, mode) = w
  BY DEF Arriving, With
<1>2. mode.max \in BOOLEAN /\ mode.full \in BOOLEAN
  BY ModesType
<1>3. Out \in Toplevel /\ Out.leaves = 0 /\ ~Out.fresh
  BY DEF Out, Toplevel
<1>4. top \in Toplevel
  BY <1>2, <1>3 DEF Toplevel
<1>5. /\ top.here /\ top.leaves = 0 /\ ~top.fresh
      /\ top.floating = floating /\ top.floated = floating
  BY <1>3 DEF Toplevel
<1> HIDE DEF top
<1>6. Good(top)
  BY <1>5 DEF Good
<1>7. tl \in Toplevels /\ Fine(W) /\ W \in World /\ W.auto = auto
  BY DEF Outside, Inv, Fine, Kept, W
<1> HIDE DEF W
<1>8. /\ w \in World /\ w.auto = auto /\ w.tops[tl] = top
      /\ \A o \in Toplevels \ {tl} : w.tops[o] = W.tops[o]
  BY <1>4, <1>7, WithType
<1> HIDE DEF w
<1>9. Kept(w)
  BY <1>6, <1>7, <1>8 DEF Fine, Kept
<1>10. Fine(w)
  BY <1>5, <1>7, <1>8, <1>9 DEF Fine, Treeless
<1>11. QED
  BY <1>1, <1>5, <1>8, <1>10

LEMMA MapInv ==
  ASSUME Inv, NEW tl \in Toplevels, Map(tl)
  PROVE  Inv'
<1>1. PICK floating \in BOOLEAN, small \in BOOLEAN, mode \in Modes :
        Step(AddToplevel(IF auto THEN Arriving(tl, floating, mode)
                         ELSE SetPosition(Arriving(tl, floating, mode), tl),
                         tl, auto, small))
  BY DEF Map
<1> DEFINE w == Arriving(tl, floating, mode)
           w1 == IF auto THEN w ELSE SetPosition(w, tl)
           w2 == AddToplevel(w1, tl, auto, small)
<1>2. tl \in Outside /\ auto \in BOOLEAN
  BY DEF Map, Inv, Fine, Kept, World, W
<1>3. Fine(w) /\ w.tops[tl].here /\ w.tops[tl].leaves = 0
  BY <1>2, ArrivingFine
<1>4. Step(w2)
  BY <1>1
<1> HIDE DEF w
<1>5. Marks(w, w1)
  BY <1>3, SetPositionMark, MarksSelf DEF Fine
<1> HIDE DEF w1
<1>6. Kept(w1) /\ w1.tops[tl].here /\ w1.tops[tl].leaves = 0
  BY <1>3, <1>5 DEF Marks, Lays
<1>7. Lays(w1, w2)
  BY <1>2, <1>6, AddToplevelLays
<1> HIDE DEF w2
<1>8. Fine(w2)
  BY <1>3, <1>5, <1>7, LaysFine, LaysTrans DEF Marks
<1>9. QED
  BY <1>4, <1>8, StepInv

LEMMA MoveInInv ==
  ASSUME Inv, NEW tl \in Toplevels, MoveIn(tl)
  PROVE  Inv'
<1>1. PICK floating \in BOOLEAN, small \in BOOLEAN, mode \in Modes :
        Step(AddToplevel(Arriving(tl, floating, mode), tl, FALSE, small))
  BY DEF MoveIn
<1> DEFINE w == Arriving(tl, floating, mode)
           w2 == AddToplevel(w, tl, FALSE, small)
<1>2. tl \in Outside
  BY DEF MoveIn
<1>3. Fine(w) /\ w.tops[tl].here /\ w.tops[tl].leaves = 0
  BY <1>2, ArrivingFine
<1>4. Step(w2)
  BY <1>1
<1> HIDE DEF w
<1>5. Lays(w, w2)
  BY <1>3, AddToplevelLays DEF Fine
<1> HIDE DEF w2
<1>6. QED
  BY <1>3, <1>4, <1>5, LaysFine, StepInv

\* While a rule is applied the workspace may pretend not to tile.
LEMMA MapByRuleInv ==
  ASSUME Inv, NEW tl \in Toplevels, MapByRule(tl)
  PROVE  Inv'
<1> DEFINE added(floating, small, mode, skip) ==
             AddToplevel(
               [SetPosition(Arriving(tl, floating, mode), tl)
                  EXCEPT !.auto = @ /\ ~skip], tl, FALSE, small)
           moved(w, placed) == IF placed THEN SetPosition(w, tl) ELSE w
<1>1. PICK floating \in BOOLEAN, small \in BOOLEAN, placed \in BOOLEAN,
           state \in Modes, mode \in Modes :
        LET w4 == moved(
              [added(floating, small, mode, floating \/ state.max \/ state.full)
                 EXCEPT !.auto = auto], placed)
        IN Step(IF state.max THEN SetMaximized(w4, tl, TRUE)
                ELSE IF state.full THEN Fullscreen(w4, tl) ELSE w4)
  BY DEF MapByRule
<1> DEFINE skip == floating \/ state.max \/ state.full
           w == Arriving(tl, floating, mode)
           w1 == SetPosition(w, tl)
           w2 == [w1 EXCEPT !.auto = @ /\ ~skip]
           w3 == AddToplevel(w2, tl, FALSE, small)
           w4 == [w3 EXCEPT !.auto = auto]
           w5 == moved(w4, placed)
           w6 == IF state.max THEN SetMaximized(w5, tl, TRUE)
                 ELSE IF state.full THEN Fullscreen(w5, tl) ELSE w5
<1>2. Step(w6)
  BY <1>1
<1>3. tl \in Outside /\ auto \in BOOLEAN
  BY DEF MapByRule, Inv, Fine, Kept, World, W
<1>4. Fine(w) /\ w.auto = auto /\ w.tops[tl].here /\ w.tops[tl].leaves = 0
  BY <1>3, ArrivingFine
<1> HIDE DEF w
<1>5. Marks(w, w1)
  BY <1>4, SetPositionMark DEF Fine
<1> HIDE DEF w1
<1>6. /\ Kept(w1) /\ Fine(w1) /\ w1.auto = auto
      /\ w1.tops[tl].here /\ w1.tops[tl].leaves = 0
  BY <1>4, <1>5, LaysFine DEF Marks, Lays
<1>7. w2 \in World /\ w2.tops = w1.tops /\ (w2.auto => auto)
  BY <1>6 DEF Kept, World
<1> HIDE DEF w2
<1>8. Kept(w2) /\ w2.tops[tl].here /\ w2.tops[tl].leaves = 0
  BY <1>6, <1>7 DEF Kept
<1>9. Lays(w2, w3)
  BY <1>8, AddToplevelLays
<1> HIDE DEF w3
<1>10. w4 \in World /\ w4.tops = w3.tops /\ w4.auto = auto
  BY <1>3, <1>9 DEF Lays, Kept, World
<1> HIDE DEF w4
<1>11. Kept(w4) /\ w4.tops[tl].here
  BY <1>8, <1>9, <1>10 DEF Lays, Kept
<1>12. Fine(w4)
  <2>1. ASSUME ~auto PROVE Treeless(w4)
    <3>1. ~w2.auto /\ Treeless(w2)
      BY <1>6, <1>7, <2>1 DEF Fine, Treeless
    <3>2. QED
      BY <1>9, <1>10, <3>1 DEF Lays, Treeless
  <2>2. QED
    BY <1>10, <1>11, <2>1 DEF Fine
<1>13. Lays(w4, w5) /\ Kept(w5) /\ w5.tops[tl].here
  <2>1. Lays(w4, w5)
    BY <1>11, SetPositionMark, MarksSelf DEF Marks
  <2> HIDE DEF w5
  <2>2. QED
    BY <1>11, <2>1 DEF Lays
<1> HIDE DEF w5
<1>14. Lays(w5, w6)
  BY <1>13, SetMaximizedLays, FullscreenMark, MarksSelf DEF Marks
<1> HIDE DEF w6
<1>15. QED
  BY <1>2, <1>12, <1>13, <1>14, LaysTrans, LaysFine, StepInv

LEMMA SuccessorsType ==
  ASSUME Inv, NEW tl \in Toplevels, NEW next \in Successors(W, tl)
  PROVE  next \in Toplevels \cup {None}
<1>1. W.active \in Toplevels \cup {None}
  BY DEF Inv, Fine, Kept, World
<1> HIDE DEF W
<1>2. Topmosts(W, tl) \subseteq Toplevels
  BY DEF Topmosts, Listed
<1>3. QED
  BY <1>1, <1>2 DEF Successors

LEMMA UnmapInv ==
  ASSUME Inv, NEW tl \in Toplevels, Unmap(tl)
  PROVE  Inv'
<1>1. PICK next \in Successors(W, tl) : Step(Unlisted(Close(W, tl, next), tl))
  BY DEF Unmap
<1>2. Fine(W) /\ W.tops[tl].here
  BY DEF Unmap, Here, Listed, Inv
<1>3. next \in Toplevels \cup {None}
  BY SuccessorsType
<1> DEFINE w == Close(W, tl, next)
<1>4. Lays(W, w) /\ (~W.tops[tl].floated => w.tops[tl].leaves = 0)
  BY <1>2, <1>3, CloseLays
<1>5. Step(Unlisted(w, tl))
  BY <1>1
<1> HIDE DEF w
<1>6. Fine(w) /\ (~w.tops[tl].floated => w.tops[tl].leaves = 0)
  BY <1>2, <1>4, LaysFine DEF Lays
<1>7. QED
  BY <1>5, <1>6, UnlistedFine, StepInv

LEMMA CloseActiveInv ==
  ASSUME Inv, CloseActive
  PROVE  Inv'
<1>1. PICK next \in Successors(W, active) : Step(Close(W, active, next))
  BY DEF CloseActive
<1>2. Fine(W) /\ active \in Toplevels /\ W.tops[active].here
  BY DEF CloseActive, Here, Listed, Inv
<1>3. next \in Toplevels \cup {None}
  BY <1>2, SuccessorsType
<1>4. QED
  BY <1>1, <1>2, <1>3, CloseLays, StepLays

LEMMA MoveOutInv ==
  ASSUME Inv, NEW tl \in Toplevels, MoveOut(tl)
  PROVE  Inv'
<1>1. active \in Toplevels \cup {None} /\ Here \subseteq Toplevels
  BY DEF Inv, Fine, Kept, World, W, Here, Listed
<1>2. PICK next \in Toplevels \cup {None} : Step(MoveTo(W, tl, next))
  BY <1>1 DEF MoveOut
<1>3. Fine(W) /\ W.tops[tl].here
  BY DEF MoveOut, Here, Listed, Inv
<1>4. QED
  BY <1>2, <1>3, MoveToFine, StepInv

LEMMA StateInv ==
  ASSUME Inv, NEW tl \in Toplevels, tl \in Here,
         \/ Focus(tl) \/ ToggleFullscreen(tl) \/ Acknowledge(tl) \/ Position(tl)
         \/ \E maximized \in BOOLEAN : Maximize(tl, maximized)
  PROVE  Inv'
<1>1. Fine(W) /\ Kept(W) /\ W.tops[tl].here /\ tops = W.tops
  BY DEF Here, Listed, Inv, Fine, W
<1>2. CASE Focus(tl)
  BY <1>1, <1>2, ActiveMark, StepLays DEF Focus, Marks
<1>3. CASE ToggleFullscreen(tl)
  BY <1>1, <1>3, UnfullscreenLays, FullscreenMark, StepLays
  DEF ToggleFullscreen, Marks
<1>4. CASE Acknowledge(tl)
  <2> DEFINE top == [W.tops[tl] EXCEPT !.current = tops[tl].asked]
             w == With(W, tl, top)
  <2>1. Step(w)
    BY <1>4 DEF Acknowledge, With
  <2> HIDE DEF W
  <2>2. W.tops[tl] \in Toplevel /\ Good(W.tops[tl])
    BY <1>1 DEF Kept, World
  <2>3. tops[tl].asked \in BOOLEAN
    BY <1>1, <2>2 DEF Toplevel
  <2>4. /\ top \in Toplevel /\ top.here = W.tops[tl].here
        /\ top.floating = W.tops[tl].floating /\ top.fresh = W.tops[tl].fresh
        /\ top.floated = W.tops[tl].floated /\ top.leaves = W.tops[tl].leaves
    BY <2>2, <2>3 DEF Toplevel
  <2> HIDE DEF top
  <2>5. Good(top)
    BY <1>1, <2>2, <2>4 DEF Good
  <2>6. Lays(W, w)
    BY <1>1, <2>4, <2>5, WithMark DEF Marks
  <2> HIDE DEF w
  <2>7. QED
    BY <2>1, <2>6, StepLays
<1>5. CASE Position(tl)
  BY <1>1, <1>5, SetPositionMark, StepLays DEF Position, Marks
<1>6. CASE \E maximized \in BOOLEAN : Maximize(tl, maximized)
  BY <1>1, <1>6, SetMaximizedLays, StepLays DEF Maximize
<1>7. QED
  BY <1>2, <1>3, <1>4, <1>5, <1>6

LEMMA SwapInv ==
  ASSUME Inv, NEW a \in Toplevels, NEW b \in Toplevels, Swap(a, b)
  PROVE  Inv'
<1>1. PICK w \in Swaps(W, a, b) : Step(w)
  BY DEF Swap
<1>2. Kept(W) /\ a # b /\ W.tops[a].here /\ W.tops[b].here
  BY DEF Swap, Here, Listed, Inv, Fine
<1>3. QED
  BY <1>1, <1>2, SwapsLays, StepLays

\* A tiled window that has begun to float can part from the tree, one that has
\* ceased to can join it.
LEMMA FloatedWorld ==
  ASSUME Inv, active \in Here
  PROVE  LET w1 == With(W, active, Floated(W.tops[active]))
         IN /\ w1 \in World /\ w1.auto = auto
            /\ \A o \in Toplevels : w1.tops[o].here = W.tops[o].here
            /\ ~auto => Fine(w1)
            /\ ~W.tops[active].floating => Parting(w1, active)
            /\ W.tops[active].floating => Kept(w1) /\ Open(w1.tops[active])
<1> DEFINE tl == active
           top == Floated(W.tops[tl])
           w1 == With(W, tl, top)
<1>1. /\ tl \in Toplevels /\ Fine(W) /\ Kept(W) /\ W \in World
      /\ W.auto = auto /\ W.tops[tl].here
  BY DEF Here, Listed, Inv, Fine, Kept, World, W
<1> HIDE DEF W
<1>2. W.tops[tl] \in Toplevel /\ Good(W.tops[tl])
  BY <1>1 DEF Kept, World
<1>3. /\ top \in Toplevel /\ top.here = W.tops[tl].here
      /\ top.floating = ~W.tops[tl].floating /\ top.fresh = W.tops[tl].fresh
      /\ top.floated = TRUE /\ top.leaves = W.tops[tl].leaves
  BY <1>2 DEF Floated, Toplevel
<1> HIDE DEF top, tl
<1>4. /\ w1 \in World /\ w1.auto = auto /\ w1.tops[tl] = top
      /\ \A o \in Toplevels \ {tl} : w1.tops[o] = W.tops[o]
  BY <1>1, <1>3, WithType
<1> HIDE DEF w1
<1>5. \A o \in Toplevels \ {tl} : Good(w1.tops[o])
  BY <1>1, <1>4 DEF Kept
<1>6. \A o \in Toplevels : w1.tops[o].here = W.tops[o].here
  BY <1>3, <1>4
<1>7. ASSUME ~auto PROVE Fine(w1)
  <2>1. \A o \in Toplevels : W.tops[o].leaves = 0
    BY <1>1, <1>7 DEF Fine, Treeless
  <2>2. Good(top)
    BY <1>1, <1>2, <1>3, <2>1 DEF Good
  <2>3. Kept(w1)
    BY <1>4, <1>5, <2>2 DEF Kept
  <2>4. QED
    BY <1>1, <1>3, <1>4, <2>1, <2>3 DEF Fine, Treeless
<1>8. ASSUME ~W.tops[tl].floating PROVE Parting(w1, tl)
  <2>1. Half(top)
    BY <1>1, <1>2, <1>3 DEF Half, Good
  <2>2. QED
    BY <1>4, <1>5, <2>1 DEF Parting
<1>9. ASSUME W.tops[tl].floating PROVE Kept(w1) /\ Open(w1.tops[tl])
  <2>1. Good(top) /\ Open(top)
    BY <1>1, <1>2, <1>3, <1>9 DEF Good, Open, Toplevel
  <2>2. QED
    BY <1>4, <1>5, <2>1 DEF Kept
<1>10. QED
  BY <1>4, <1>6, <1>7, <1>8, <1>9 DEF w1, top, tl

\* A tiled window that floats parts from the tree, a floating one joins it.
LEMMA ToggleFloatingInv ==
  ASSUME Inv, ToggleFloating
  PROVE  Inv'
<1> DEFINE tl == active
           w1 == With(W, tl, Floated(W.tops[tl]))
           parted == Part(w1, tl)
           later == Schedule(parted, "layout")
           joined == Join(w1, tl)
           laid == Schedule(Calculated(joined), "layout")
           w2 == IF ~auto THEN w1
                 ELSE IF ~tops[tl].floating THEN SetPosition(later, tl)
                 ELSE IF tl \in Leaved(laid) THEN SetPosition(laid, tl)
                 ELSE laid
<1>1. Step(w2)
  BY DEF ToggleFloating, With
<1>2. tl \in Toplevels /\ tl \in Here /\ tops = W.tops /\ auto \in BOOLEAN
  BY DEF ToggleFloating, Here, Listed, Inv, Fine, Kept, World, W
<1>3. /\ w1.auto = auto
      /\ ~auto => Fine(w1)
      /\ ~W.tops[tl].floating => Parting(w1, tl)
      /\ W.tops[tl].floating => Kept(w1) /\ Open(w1.tops[tl])
  BY <1>2, FloatedWorld
<1> HIDE DEF W, w1, tl
<1>4. CASE ~auto
  BY <1>1, <1>3, <1>4, StepInv
<1>5. CASE auto /\ ~W.tops[tl].floating
  <2>1. Kept(parted) /\ parted.auto
    BY <1>2, <1>3, <1>5, PartLays DEF Lays
  <2> HIDE DEF parted
  <2>2. Kept(later) /\ later.auto
    BY <2>1, ScheduleMark DEF Marks, Lays
  <2> HIDE DEF later
  <2>3. Kept(SetPosition(later, tl)) /\ SetPosition(later, tl).auto
    BY <1>2, <2>2, SetPositionMark DEF Marks, Lays
  <2>4. Step(SetPosition(later, tl))
    BY <1>1, <1>2, <1>5
  <2>5. QED
    BY <2>3, <2>4, StepInv DEF Fine
<1>6. CASE auto /\ W.tops[tl].floating
  <2>1. Kept(joined) /\ joined.auto
    BY <1>2, <1>3, <1>6, JoinLays DEF Lays
  <2> HIDE DEF joined
  <2>2. Kept(Calculated(joined)) /\ Calculated(joined).auto
    BY <2>1, CalculatedMark DEF Marks, Lays
  <2>3. Kept(laid) /\ laid.auto
    BY <2>2, ScheduleMark DEF Marks, Lays
  <2> HIDE DEF laid
  <2>4. Kept(SetPosition(laid, tl)) /\ SetPosition(laid, tl).auto
    BY <1>2, <2>3, SetPositionMark DEF Marks, Lays
  <2>5. Step(SetPosition(laid, tl)) \/ Step(laid)
    BY <1>1, <1>2, <1>6
  <2>6. QED
    BY <2>3, <2>4, <2>5, StepInv DEF Fine
<1>7. QED
  BY <1>2, <1>4, <1>5, <1>6

LEMMA ToggleAutoTileInv ==
  ASSUME Inv, ToggleAutoTile
  PROVE  Inv'
<1>1. /\ Fine(W) /\ Kept(W) /\ W \in World /\ tops = W.tops
      /\ auto \in BOOLEAN /\ Here = Listed(W)
  BY DEF Inv, Fine, Kept, World, W, Here
<1>2. CASE auto
  <2> DEFINE all == [tl \in Toplevels |-> Anew(tops[tl], FALSE)]
             w == [W EXCEPT !.auto = FALSE, !.dirty = FALSE, !.tops = all]
  <2>1. Step(w)
    BY <1>2 DEF ToggleAutoTile
  <2> HIDE DEF W
  <2>2. \A tl \in Toplevels :
          /\ Anew(tops[tl], FALSE) \in Toplevel /\ Good(Anew(tops[tl], FALSE))
          /\ Anew(tops[tl], FALSE).leaves = 0
    <3>1. \A tl \in Toplevels : W.tops[tl] \in Toplevel /\ Good(W.tops[tl])
      BY <1>1 DEF Kept, World
    <3>2. \A tl \in Toplevels : W.tops[tl].floating => W.tops[tl].floated
      BY <3>1 DEF Good
    <3>3. QED
      BY <1>1, <3>1, <3>2, AnewGood
  <2>3. /\ all \in [Toplevels -> Toplevel]
        /\ \A tl \in Toplevels : Good(all[tl]) /\ all[tl].leaves = 0
    BY <2>2
  <2> HIDE DEF all
  <2>4. w \in World /\ w.tops = all
    BY <1>1, <2>3 DEF World
  <2> HIDE DEF w
  <2>5. Fine(w)
    BY <2>3, <2>4 DEF Fine, Kept, Treeless
  <2>6. QED
    BY <2>1, <2>5, StepInv
<1>3. CASE ~auto
  <2> DEFINE w1 == [W EXCEPT !.auto = TRUE]
             S == Here \ Floating(W)
             w2 == Rebuild(w1, S)
             w3 == Schedule(w2, "layout")
  <2>1. Step(w3)
    BY <1>3 DEF ToggleAutoTile
  <2> HIDE DEF W
  <2>2. w1 \in World /\ w1.auto /\ w1.tops = W.tops
    BY <1>1 DEF World
  <2> HIDE DEF w1
  <2>3. Kept(w1) /\ S \subseteq Listed(w1)
    BY <1>1, <2>2 DEF Kept, Listed
  <2> HIDE DEF S
  <2>4. Kept(w2) /\ w2.auto
    BY <2>2, <2>3, KeptReady, RebuildLays DEF Lays
  <2> HIDE DEF w2
  <2>5. Fine(w3)
    BY <2>4, ScheduleMark DEF Marks, Lays, Fine
  <2>6. QED
    BY <2>1, <2>5, StepInv
<1>4. QED
  BY <1>1, <1>2, <1>3

LEMMA LayoutInv ==
  ASSUME Inv, Tile \/ IdleLayout \/ AreaChange \/ Transact
  PROVE  Inv'
<1>1. Fine(W) /\ Kept(W) /\ W \in World /\ busy \in BOOLEAN /\ W.busy = busy
  BY DEF Inv, Fine, Kept, World, W
<1>2. CASE Tile
  BY <1>1, <1>2, TileAllLays, StepLays DEF Tile
<1>3. CASE IdleLayout
  <2>1. Lays(W, Cancel(W)) /\ Kept(Cancel(W))
    BY <1>1, CancelMark DEF Marks, Lays
  <2>2. /\ Lays(W, ApplyLayout(Cancel(W)))
        /\ Lays(W, TileAll(Cancel(W), {}))
    BY <2>1, ApplyLayoutMark, TileAllLays, LaysTrans DEF Marks
  <2>3. QED
    BY <1>3, <2>1, <2>2, StepLays DEF IdleLayout
<1>4. CASE AreaChange
  BY <1>1, <1>4, ApplyLayoutMark, StepLays DEF AreaChange, Marks
<1>5. CASE Transact
  <2> DEFINE w == [W EXCEPT !.busy = ~busy]
  <2>1. Step(w)
    BY <1>1, <1>5 DEF Transact
  <2> HIDE DEF W
  <2>2. w \in World /\ w.auto = W.auto /\ w.tops = W.tops
    BY <1>1 DEF World
  <2> HIDE DEF w
  <2>3. QED
    BY <1>1, <2>1, <2>2, FieldsMark, StepLays DEF Marks
<1>6. QED
  BY <1>2, <1>3, <1>4, <1>5

-----------------------------------------------------------------------------
(* The invariant *)

LEMMA InitInv ==
  ASSUME Init
  PROVE  Inv
<1>1. Out \in Toplevel /\ Good(Out) /\ Out.leaves = 0
  BY DEF Out, Toplevel, Good, Blank
<1>2. \A tl \in Toplevels : W.tops[tl] = Out
  BY DEF Init, W
<1>3. W \in World
  BY <1>1 DEF Init, W, World
<1> HIDE DEF W
<1>4. QED
  BY <1>1, <1>2, <1>3 DEF Inv, Fine, Kept, Treeless

LEMMA NextInv ==
  ASSUME Inv, [Next]_vars
  PROVE  Inv'
<1>1. ASSUME NEW tl \in Toplevels, Map(tl) PROVE Inv'
  BY <1>1, MapInv
<1>2. ASSUME NEW tl \in Toplevels, MapByRule(tl) PROVE Inv'
  BY <1>2, MapByRuleInv
<1>3. ASSUME NEW tl \in Toplevels, MoveIn(tl) PROVE Inv'
  BY <1>3, MoveInInv
<1>4. ASSUME NEW tl \in Toplevels, Unmap(tl) PROVE Inv'
  BY <1>4, UnmapInv
<1>5. ASSUME NEW tl \in Toplevels, MoveOut(tl) PROVE Inv'
  BY <1>5, MoveOutInv
<1>6. ASSUME NEW tl \in Toplevels,
             \/ Focus(tl) \/ ToggleFullscreen(tl) \/ Acknowledge(tl)
             \/ Position(tl)
             \/ \E maximized \in BOOLEAN : Maximize(tl, maximized)
      PROVE  Inv'
  <2>1. tl \in Here
    BY <1>6 DEF Focus, ToggleFullscreen, Acknowledge, Position, Maximize
  <2>2. QED
    BY <1>6, <2>1, StateInv
<1>7. ASSUME NEW a \in Toplevels, NEW b \in Toplevels, Swap(a, b) PROVE Inv'
  BY <1>7, SwapInv
<1>8. CASE CloseActive
  BY <1>8, CloseActiveInv
<1>9. CASE ToggleFloating
  BY <1>9, ToggleFloatingInv
<1>10. CASE ToggleAutoTile
  BY <1>10, ToggleAutoTileInv
<1>11. CASE Tile \/ IdleLayout \/ AreaChange \/ Transact
  BY <1>11, LayoutInv
<1>12. CASE UNCHANGED vars
  BY <1>12
  DEF vars, Inv, Fine, Kept, World, W, Treeless, Good, Blank
<1>13. QED
  BY <1>1, <1>2, <1>3, <1>4, <1>5, <1>6, <1>7, <1>8, <1>9, <1>10, <1>11, <1>12
  DEF Next

LEMMA InvHolds == Spec => []Inv
  BY InitInv, NextInv, PTL DEF Spec

\* However often windows are mapped, closed, moved, swapped, maximized and made
\* fullscreen, one that has never floated has at most one leaf, and none once it
\* has left: Workspace.cpp checks for a leaf wherever it inserts one, and takes
\* one out wherever a window goes.
THEOREM AtMostOneLeaf == Spec => []OneLeaf
<1>1. Inv => OneLeaf
  BY DEF Inv, Fine, Kept, Good, OneLeaf, W
<1>2. QED
  BY <1>1, InvHolds, PTL

\* The types, and what is left of a window that has gone.
THEOREM WorkspaceTypes == Spec => []TypeOK
<1>1. Inv => TypeOK
  BY DEF Inv, Fine, Kept, Treeless, Good, TypeOK, Leaved, W
<1>2. QED
  BY <1>1, InvHolds, PTL

-----------------------------------------------------------------------------
(* What a step leaves behind: a layout for each tree that has changed, and *)
(* an active toplevel that is in the list.  Above, the windows and their   *)
(* leaves were followed through each operator; here it is the rest of the  *)
(* world, the active toplevel and the layout that is pending or owed.      *)

\* A world as far as its fields, whatever their values.
Shaped(w) ==
  {"tops", "active", "auto", "pending", "dirty", "busy"} \subseteq DOMAIN w

\* A call that changes the windows and their leaves alone.
Tops(w1, w2) ==
  /\ Shaped(w2)
  /\ w2.active = w1.active /\ w2.auto = w1.auto /\ w2.pending = w1.pending

\* One that leaves the tree as it was, or lays it out.
Still(w1, w2) == Tops(w1, w2) /\ (w2.dirty => w1.dirty)

\* One that leaves no layout owed that was not.
Pays(w1, w2) ==
  /\ Shaped(w2)
  /\ w2.auto = w1.auto
  /\ w2.dirty /\ w2.pending = "none" => w1.dirty /\ w1.pending = "none"
  /\ w2.dirty /\ ~w1.auto => w1.dirty

-----------------------------------------------------------------------------
(* The operators *)

LEMMA WorldShaped ==
  ASSUME NEW w \in World
  PROVE  Shaped(w)
  BY DEF World, Shaped

LEMMA WithStill ==
  ASSUME NEW w, Shaped(w), NEW tl, NEW top
  PROVE  Still(w, With(w, tl, top))
  BY DEF Shaped, With, Still, Tops

LEMMA PositionStill ==
  ASSUME NEW w, Shaped(w), NEW tl
  PROVE  Still(w, SetPosition(w, tl))
<1>1. SetPosition(w, tl) = With(w, tl, Placed(w.tops[tl], w.busy))
  BY DEF SetPosition, With
<1>2. QED
  BY <1>1, WithStill

LEMMA CalculatedStill ==
  ASSUME NEW w, Shaped(w)
  PROVE  Still(w, Calculated(w)) /\ Calculated(w).dirty = w.dirty
  BY DEF Shaped, Calculated, Still, Tops

LEMMA BatchStill ==
  ASSUME NEW w, Shaped(w), NEW moved
  PROVE  Still(w, Batch(w, moved)) /\ Batch(w, moved).dirty = w.dirty
  BY DEF Shaped, Batch, Still, Tops

\* A layout that is applied is no longer owed.
LEMMA ApplyLayoutStill ==
  ASSUME NEW w, Shaped(w)
  PROVE  Still(w, ApplyLayout(w)) /\ ~ApplyLayout(w).dirty
<1> DEFINE laid == [w EXCEPT !.dirty = FALSE]
<1>1. Tops(w, laid) /\ ~laid.dirty
  BY DEF Shaped, Tops
<1>2. ApplyLayout(w) = IF Leaved(w) = {} THEN laid
                       ELSE Batch(Calculated(laid), Leaved(w) \ Skipped(w))
  BY DEF ApplyLayout
<1> HIDE DEF laid
<1>3. Still(laid, Calculated(laid)) /\ ~Calculated(laid).dirty
  BY <1>1, CalculatedStill DEF Tops
<1>4. LET b == Batch(Calculated(laid), Leaved(w) \ Skipped(w))
      IN Still(Calculated(laid), b) /\ ~b.dirty
  BY <1>3, BatchStill DEF Still, Tops
<1>5. QED
  BY <1>1, <1>2, <1>3, <1>4 DEF Still, Tops

LEMMA ScheduleFields ==
  ASSUME NEW w, Shaped(w), NEW what
  PROVE  /\ Shaped(Schedule(w, what))
         /\ Schedule(w, what).active = w.active
         /\ Schedule(w, what).auto = w.auto
         /\ Schedule(w, what).pending = what
         /\ Schedule(w, what).dirty = w.dirty
         /\ Schedule(w, what).tops = w.tops
  BY DEF Shaped, Schedule

LEMMA InsertTops ==
  ASSUME NEW w, Shaped(w), NEW tl
  PROVE  Tops(w, Insert(w, tl))
<1>1. Tops(w, WithLeaf(w, tl))
  BY DEF Shaped, WithLeaf, Tops
<1>2. QED
  BY <1>1, CalculatedStill DEF Insert, Still, Tops

LEMMA RemoveTops ==
  ASSUME NEW w, Shaped(w), NEW tl
  PROVE  Tops(w, Remove(w, tl))
  BY DEF Shaped, Remove, Tops

LEMMA RebuildTops ==
  ASSUME NEW w, Shaped(w), NEW S
  PROVE  Tops(w, Rebuild(w, S))
  BY DEF Shaped, Rebuild, Tops

LEMMA JoinTops ==
  ASSUME NEW w, Shaped(w), NEW tl
  PROVE  Tops(w, Join(w, tl))
<1>1. Tops(w, Respiral(w, tl))
  <2> DEFINE more == Insert(w, tl)
             all == [o \in Toplevels |->
                       IF o \in Skipped(w) THEN Anew(more.tops[o], FALSE)
                       ELSE more.tops[o]]
  <2>1. Tops(w, more)
    BY InsertTops
  <2>2. Respiral(w, tl) = IF Leaved(w) = {} THEN more ELSE [more EXCEPT !.tops = all]
    BY DEF Respiral
  <2> HIDE DEF more, all
  <2>3. Tops(w, [more EXCEPT !.tops = all])
    BY <2>1 DEF Shaped, Tops
  <2>4. QED
    BY <2>1, <2>2, <2>3
<1>2. QED
  BY <1>1, InsertTops, RebuildTops DEF Join

LEMMA PartTops ==
  ASSUME NEW w, Shaped(w), NEW tl
  PROVE  Tops(w, Part(w, tl))
  BY RemoveTops, RebuildTops DEF Part

LEMMA StillPays ==
  ASSUME NEW w1, NEW w2, Still(w1, w2)
  PROVE  Pays(w1, w2)
  BY DEF Still, Tops, Pays

LEMMA PaysTrans ==
  ASSUME NEW w1, NEW w2, NEW w3, Pays(w1, w2), Pays(w2, w3)
  PROVE  Pays(w1, w3)
  BY DEF Pays

\* A tree that is about to be laid out may have changed.
LEMMA ScheduledPays ==
  ASSUME NEW w1, w1.auto, NEW w2, Tops(w1, w2),
         NEW what \in {"layout", "layout or tile"}
  PROVE  /\ Pays(w1, Schedule(w2, what))
         /\ Schedule(w2, what).active = w1.active
<1>1. what # "none"
  OBVIOUS
<1>2. QED
  BY <1>1, ScheduleFields DEF Tops, Pays

-----------------------------------------------------------------------------
(* The window states *)

LEMMA FullscreenStill ==
  ASSUME NEW w, Shaped(w), NEW tl
  PROVE  Still(w, Fullscreen(w, tl))
<1> DEFINE w1 == With(w, tl, [w.tops[tl] EXCEPT !.fullscreen = TRUE])
<1>1. Fullscreen(w, tl) = SetPosition(w1, tl)
  BY DEF Fullscreen, With
<1>2. Still(w, w1)
  BY WithStill
<1> HIDE DEF w1
<1>3. Still(w1, SetPosition(w1, tl))
  BY <1>2, PositionStill DEF Still, Tops
<1>4. QED
  BY <1>1, <1>2, <1>3 DEF Still, Tops

\* The end of fullscreen may insert a leaf, and lays nothing out.
LEMMA UnfullscreenTops ==
  ASSUME NEW w, Shaped(w), NEW tl
  PROVE  /\ Tops(w, Unfullscreen(w, tl))
         /\ ~w.auto => Still(w, Unfullscreen(w, tl))
<1> DEFINE w1 == With(w, tl, [w.tops[tl] EXCEPT !.fullscreen = FALSE])
           w2 == With(w1, tl, Unmaximized(w1.tops[tl]))
           w3 == IF tl \in Leaved(w2) THEN w2 ELSE Insert(w2, tl)
           w4 == Calculated(w3)
<1>1. Unfullscreen(w, tl) = IF w.auto THEN SetPosition(w4, tl)
                            ELSE SetPosition(w1, tl)
  BY DEF Unfullscreen, With
<1>2. Still(w, w1)
  BY WithStill
<1> HIDE DEF w1
<1>3. Still(w, SetPosition(w1, tl))
  BY <1>2, PositionStill DEF Still, Tops
<1>4. Still(w1, w2)
  BY <1>2, WithStill DEF Still, Tops
<1> HIDE DEF w2
<1>5. Tops(w2, w3)
  BY <1>4, InsertTops DEF Still, Tops
<1> HIDE DEF w3
<1>6. Still(w3, w4)
  BY <1>5, CalculatedStill DEF Tops
<1> HIDE DEF w4
<1>7. Still(w4, SetPosition(w4, tl))
  BY <1>6, PositionStill DEF Still, Tops
<1>8. QED
  BY <1>1, <1>2, <1>3, <1>4, <1>5, <1>6, <1>7 DEF Still, Tops

\* Maximizing lays the others out.
LEMMA SetMaximizedPays ==
  ASSUME NEW w, Shaped(w), NEW tl, NEW maximized
  PROVE  /\ Pays(w, SetMaximized(w, tl, maximized))
         /\ SetMaximized(w, tl, maximized).active = w.active
<1> DEFINE w1 == IF w.tops[tl].fullscreen THEN Unfullscreen(w, tl) ELSE w
           w2 == With(w1, tl, [w1.tops[tl] EXCEPT !.asked = maximized])
           placed == SetPosition(w2, tl)
           w3 == IF maximized THEN Remove(placed, tl)
                 ELSE IF tl \in Leaved(w2) THEN w2 ELSE Insert(w2, tl)
           w4 == Cancel(w3)
<1>1. SetMaximized(w, tl, maximized) =
        IF w.auto THEN ApplyLayout(w4) ELSE placed
  BY DEF SetMaximized, With
<1>2. Tops(w, w1) /\ (~w.auto => Still(w, w1))
  BY UnfullscreenTops DEF Still, Tops
<1> HIDE DEF w1
<1>3. Still(w1, w2)
  BY <1>2, WithStill DEF Tops
<1> HIDE DEF w2
<1>4. Still(w2, placed)
  BY <1>3, PositionStill DEF Still, Tops
<1> HIDE DEF placed
<1>5. Tops(w2, w3)
  BY <1>3, <1>4, InsertTops, RemoveTops DEF Still, Tops
<1> HIDE DEF w3
<1>6. Shaped(w4) /\ w4.active = w3.active /\ w4.auto = w3.auto
  BY <1>5, ScheduleFields DEF Cancel, Tops
<1> HIDE DEF w4
<1>7. Still(w4, ApplyLayout(w4)) /\ ~ApplyLayout(w4).dirty
  BY <1>6, ApplyLayoutStill
<1>8. QED
  BY <1>1, <1>2, <1>3, <1>4, <1>5, <1>6, <1>7 DEF Still, Tops, Pays

-----------------------------------------------------------------------------
(* Workspace *)

LEMMA ActiveFields ==
  ASSUME NEW w, Shaped(w), NEW next
  PROVE  /\ Shaped([w EXCEPT !.active = next])
         /\ [w EXCEPT !.active = next].active = next
         /\ [w EXCEPT !.active = next].auto = w.auto
         /\ [w EXCEPT !.active = next].pending = w.pending
         /\ [w EXCEPT !.active = next].dirty = w.dirty
         /\ [w EXCEPT !.active = next].tops = w.tops
  BY DEF Shaped

\* A new window is the active one, and if it is tiled all are laid out.
LEMMA AddToplevelPays ==
  ASSUME NEW w, Shaped(w), NEW tl, NEW hidden, NEW small
  PROVE  /\ Pays(w, AddToplevel(w, tl, hidden, small))
         /\ AddToplevel(w, tl, hidden, small).active = tl
<1> DEFINE w1 == [w EXCEPT !.active = tl]
           all == [o \in Toplevels |-> IF o \in Listed(w) \ {tl}
                                       THEN Unmaximized(w.tops[o]) ELSE w.tops[o]]
           c == Cancel(w1)
           w2 == [c EXCEPT !.tops = all]
           w3 == Join(w2, tl)
           w4 == Calculated(w3)
           w5 == SetPosition(w4, tl)
           placed == SetPosition(w1, tl)
           added == AddToplevel(w, tl, hidden, small)
<1>1. added \in {w1, placed, ApplyLayout(w5)}
  BY DEF AddToplevel
<1>2. Pays(w, w1) /\ w1.active = tl /\ w1.auto = w.auto
  BY ActiveFields DEF Pays
<1> HIDE DEF w1, added, all
<1>3. Still(w1, placed)
  BY <1>2, PositionStill DEF Pays
<1>4. Shaped(c) /\ c.active = tl /\ c.auto = w.auto
  BY <1>2, ScheduleFields DEF Cancel, Pays
<1> HIDE DEF c
<1>5. Shaped(w2) /\ w2.active = tl /\ w2.auto = w.auto
  BY <1>4 DEF Shaped
<1> HIDE DEF w2
<1>6. Tops(w2, w3)
  BY <1>5, JoinTops
<1> HIDE DEF w3
<1>7. Still(w3, w4)
  BY <1>6, CalculatedStill DEF Tops
<1> HIDE DEF w4
<1>8. Still(w4, w5)
  BY <1>7, PositionStill DEF Still, Tops
<1> HIDE DEF w5
<1>9. Still(w5, ApplyLayout(w5)) /\ ~ApplyLayout(w5).dirty
  BY <1>8, ApplyLayoutStill DEF Still, Tops
<1>10. CASE added = w1
  BY <1>2, <1>10 DEF added
<1>11. CASE added = placed
  <2> HIDE DEF placed
  <2>1. Pays(w, placed) /\ placed.active = tl
    BY <1>2, <1>3, StillPays, PaysTrans DEF Still, Tops
  <2>2. QED
    BY <1>11, <2>1 DEF added
<1>12. CASE added = ApplyLayout(w5)
  <2>1. Pays(w, ApplyLayout(w5)) /\ ApplyLayout(w5).active = tl
    BY <1>5, <1>6, <1>7, <1>8, <1>9 DEF Pays, Still, Tops
  <2>2. QED
    BY <1>12, <2>1 DEF added
<1>13. QED
  BY <1>1, <1>10, <1>11, <1>12

LEMMA ClosePays ==
  ASSUME NEW w, Shaped(w), NEW tl, NEW next
  PROVE  /\ Pays(w, Close(w, tl, next))
         /\ Close(w, tl, next).active = next
<1> DEFINE w1 == [w EXCEPT !.active = next]
           parted == Part(w1, tl)
           later == Schedule(parted, "layout or tile")
<1>1. Close(w, tl, next) = IF w.auto THEN later ELSE w1
  BY DEF Close
<1>2. Pays(w, w1) /\ w1.active = next /\ w1.auto = w.auto
  BY ActiveFields DEF Pays
<1> HIDE DEF w1
<1>3. Tops(w1, parted)
  BY <1>2, PartTops DEF Pays
<1> HIDE DEF parted
<1>4. w.auto => Pays(w1, later) /\ later.active = next
  BY <1>2, <1>3, ScheduledPays
<1> HIDE DEF later
<1>5. QED
  BY <1>1, <1>2, <1>4, PaysTrans

LEMMA UnlistedStill ==
  ASSUME NEW w, Shaped(w), NEW tl
  PROVE  Still(w, Unlisted(w, tl))
<1>1. Unlisted(w, tl) = With(w, tl, Left(w.tops[tl]))
  BY DEF Unlisted, With
<1>2. QED
  BY <1>1, WithStill

LEMMA MoveToPays ==
  ASSUME NEW w, Shaped(w), NEW tl, NEW next
  PROVE  /\ Pays(w, MoveTo(w, tl, next))
         /\ MoveTo(w, tl, next).active = next
<1> DEFINE w1 == [w EXCEPT !.active = next]
           parted == Part(w1, tl)
           w2 == IF w.auto THEN Schedule(parted, "layout") ELSE w1
<1>1. MoveTo(w, tl, next) = Unlisted(w2, tl)
  BY DEF MoveTo
<1>2. Pays(w, w1) /\ w1.active = next /\ w1.auto = w.auto
  BY ActiveFields DEF Pays
<1> HIDE DEF w1
<1>3. Tops(w1, parted)
  BY <1>2, PartTops DEF Pays
<1> HIDE DEF parted
<1>4. w.auto => /\ Pays(w1, Schedule(parted, "layout"))
                /\ Schedule(parted, "layout").active = next
  BY <1>2, <1>3, ScheduledPays
<1>5. Pays(w, w2) /\ w2.active = next
  BY <1>2, <1>4, PaysTrans
<1> HIDE DEF w2
<1>6. Still(w2, Unlisted(w2, tl))
  BY <1>5, UnlistedStill DEF Pays
<1>7. QED
  BY <1>1, <1>5, <1>6, StillPays, PaysTrans DEF Still, Tops

LEMMA TileAllStill ==
  ASSUME NEW w, Shaped(w), NEW sans
  PROVE  Still(w, TileAll(w, sans))
  BY BatchStill DEF TileAll, Still, Tops

\* A swap inserts the leaves that are missing, where there is a tree.
LEMMA SwapsFields ==
  ASSUME NEW w, Shaped(w), NEW a \in Toplevels, NEW b \in Toplevels \ {a},
         NEW w2 \in Swaps(w, a, b)
  PROVE  /\ Shaped(w2) /\ w2.active = w.active /\ w2.auto = w.auto
         /\ w2.dirty /\ ~w.auto => w.dirty
<1> DEFINE c == Cancel(w)
           wa == With(c, a, Unmaximized(c.tops[a]))
           wb == With(wa, b, Unmaximized(wa.tops[b]))
           w1 == [wb EXCEPT !.busy = TRUE]
<1>1. w2 \in IF ~w.auto THEN {Batch(w1, {a, b})}
            ELSE {Exchange(w4, a, b) :
                    w4 \in UNION {Ensure(w3, b) : w3 \in Ensure(w1, a)}}
  BY DEF Swaps, With
<1> DEFINE Same(v) == Shaped(v) /\ v.active = w.active /\ v.auto = w.auto
<1>2. Same(c) /\ c.dirty = w.dirty
  BY ScheduleFields DEF Cancel
<1> HIDE DEF c
<1>3. Still(c, wa)
  BY <1>2, WithStill
<1> HIDE DEF wa
<1>4. Still(wa, wb)
  BY <1>3, WithStill DEF Still, Tops
<1> HIDE DEF wb
<1>5. Same(w1) /\ w1.dirty = wb.dirty
  BY <1>2, <1>3, <1>4 DEF Still, Tops, Shaped
<1> HIDE DEF w1
<1>6. Still(w1, Batch(w1, {a, b}))
  BY <1>5, BatchStill
<1>7. ASSUME NEW v, Same(v), NEW tl, NEW u \in Ensure(v, tl)
      PROVE  Same(u)
  <2>1. Same(WithLeaf(v, tl))
    BY <1>7 DEF WithLeaf, Shaped
  <2>2. ASSUME NEW o
        PROVE  Same([WithLeaf(v, tl) EXCEPT !.tops[o] = Renewed(@)])
    BY <2>1 DEF Shaped
  <2>3. u \in {v, WithLeaf(v, tl)}
          \/ \E o : u = [WithLeaf(v, tl) EXCEPT !.tops[o] = Renewed(@)]
    BY <1>7 DEF Ensure, Inserts
  <2>4. QED
    BY <1>7, <2>1, <2>2, <2>3
<1>8. ASSUME NEW v, Same(v)
      PROVE  Same(Exchange(v, a, b))
  BY <1>8 DEF Exchange, Shaped
<1>9. CASE w.auto
  <2>1. PICK u \in Ensure(w1, a) : \E v \in Ensure(u, b) : w2 = Exchange(v, a, b)
    BY <1>1, <1>9
  <2>2. Same(u)
    BY <1>5, <1>7
  <2>3. PICK v \in Ensure(u, b) : w2 = Exchange(v, a, b)
    BY <2>1
  <2>4. Same(v)
    BY <1>7, <2>2
  <2>5. QED
    BY <1>8, <1>9, <2>3, <2>4
<1>10. CASE ~w.auto
  BY <1>1, <1>2, <1>3, <1>4, <1>5, <1>6, <1>10 DEF Still, Tops
<1>11. QED
  BY <1>9, <1>10

-----------------------------------------------------------------------------
(* The list *)

\* A call that leaves the list, and who is fullscreen, alone.
Roster(w1, w2) ==
  /\ DOMAIN w2.tops = Toplevels
  /\ \A o \in Toplevels :
       /\ w2.tops[o].here = w1.tops[o].here
       /\ w2.tops[o].fullscreen = w1.tops[o].fullscreen

LEMMA PartRoster ==
  ASSUME NEW w \in World, NEW tl \in Toplevels
  PROVE  Roster(w, Part(w, tl))
<1>1. w.tops \in [Toplevels -> Toplevel] /\ Shaped(w)
  BY WorldShaped DEF World
<1>2. ASSUME NEW S
      PROVE  Roster(w, Rebuild(w, S))
  <2> DEFINE all == [o \in Toplevels |-> Anew(w.tops[o], o \in S \ Skipped(w))]
  <2>1. Rebuild(w, S).tops = all
    BY <1>1 DEF Rebuild, Shaped
  <2>2. \A o \in Toplevels : all[o] = Anew(w.tops[o], o \in S \ Skipped(w))
    OBVIOUS
  <2>3. \A o \in Toplevels : \A in :
        /\ Anew(w.tops[o], in).here = w.tops[o].here
        /\ Anew(w.tops[o], in).fullscreen = w.tops[o].fullscreen
    BY <1>1 DEF Anew, Toplevel
  <2>4. QED
    BY <2>1, <2>2, <2>3 DEF Roster
<1>3. Roster(w, Remove(w, tl))
  <2>1. Remove(w, tl).tops = [w.tops EXCEPT ![tl] = LostLeaf(w.tops[tl])]
    BY <1>1 DEF Remove, Shaped
  <2>2. /\ LostLeaf(w.tops[tl]).here = w.tops[tl].here
        /\ LostLeaf(w.tops[tl]).fullscreen = w.tops[tl].fullscreen
    BY <1>1 DEF LostLeaf, Toplevel
  <2>3. QED
    BY <1>1, <2>1, <2>2 DEF Roster
<1>4. QED
  BY <1>2, <1>3 DEF Part

\* What closing or moving a window does before it is unlisted.
LEMMA LeavingRoster ==
  ASSUME NEW w \in World, NEW tl \in Toplevels,
         NEW next \in Toplevels \cup {None}, NEW what
  PROVE  LET w1 == [w EXCEPT !.active = next]
         IN Roster(w, w1) /\ Roster(w, Schedule(Part(w1, tl), what))
<1> DEFINE w1 == [w EXCEPT !.active = next]
<1>1. w1 \in World /\ w1.tops = w.tops /\ DOMAIN w.tops = Toplevels
  BY DEF World
<1> HIDE DEF w1
<1>2. Roster(w, w1)
  BY <1>1 DEF Roster
<1>3. Roster(w1, Part(w1, tl)) /\ Shaped(Part(w1, tl))
  BY <1>1, PartRoster, PartTops, WorldShaped DEF Tops
<1>4. Schedule(Part(w1, tl), what).tops = Part(w1, tl).tops
  BY <1>3, ScheduleFields
<1>5. Roster(w, Schedule(Part(w1, tl), what))
  BY <1>1, <1>3, <1>4 DEF Roster
<1>6. QED
  BY <1>2, <1>5 DEF w1

LEMMA UnlistedRoster ==
  ASSUME NEW w, NEW v, Shaped(v), Roster(w, v), NEW tl \in Toplevels
  PROVE  /\ Listed(Unlisted(v, tl)) = Listed(w) \ {tl}
         /\ \A o \in Listed(w) \ {tl} :
              Unlisted(v, tl).tops[o].fullscreen = w.tops[o].fullscreen
<1>1. Unlisted(v, tl).tops = [v.tops EXCEPT ![tl] = Left(v.tops[tl])]
  BY DEF Unlisted, Shaped
<1>2. ~Left(v.tops[tl]).here
  BY DEF Left, Out
<1>3. QED
  BY <1>1, <1>2 DEF Roster, Listed

\* A call that keeps the active toplevel listed, and no layout from being owed.
Settles(w1, w2) ==
  (w1.active \in Listed(w1) \cup {None}) =>
    \/ w2.active \in Listed(w2) \cup {None}
    \/ Listed(w2) # {} /\ \A tl \in Listed(w2) : w2.tops[tl].fullscreen

LEMMA LaysListed ==
  ASSUME NEW w1, NEW w2, Lays(w1, w2)
  PROVE  Listed(w2) = Listed(w1)
  BY DEF Lays, Listed

LEMMA SameSettles ==
  ASSUME NEW w1, NEW w2, Lays(w1, w2), w2.active = w1.active
  PROVE  Settles(w1, w2)
  BY LaysListed DEF Settles

LEMMA MadeActiveSettles ==
  ASSUME NEW w1, NEW w2, w2.active \in Listed(w2)
  PROVE  Settles(w1, w2)
  BY DEF Settles

-----------------------------------------------------------------------------
(* The handlers *)

\* Without a tree nothing is owed.
Clean == Inv /\ (~auto => ~dirty)

Paid == dirty' /\ pending' = "none" => dirty /\ pending = "none"

StaysListed ==
  (active \in Here \cup {None}) =>
    \/ active' \in Here' \cup {None}
    \/ Here' # {} /\ \A tl \in Here' : tops'[tl].fullscreen

LEMMA StepSettles ==
  ASSUME NEW w, Step(w), Settles(W, w)
  PROVE  StaysListed
<1>1. /\ W.active = active /\ Listed(W) = Here /\ W'.tops = w.tops
      /\ active' = w.active /\ tops' = w.tops
  BY DEF Step, W, Here
<1>2. Here' = Listed(w)
  BY <1>1 DEF Here, Listed
<1>3. QED
  BY <1>1, <1>2 DEF Settles, StaysListed

LEMMA StepPays ==
  ASSUME Clean, NEW w, Step(w), Pays(W, w)
  PROVE  Paid /\ (~auto' => ~dirty')
<1>1. /\ W.auto = auto /\ W.dirty = dirty /\ W.pending = pending
      /\ auto' = w.auto /\ dirty' = w.dirty /\ pending' = w.pending
  BY DEF Step, W
<1>2. QED
  BY <1>1 DEF Clean, Pays, Paid

LEMMA WShaped ==
  ASSUME Inv
  PROVE  /\ Fine(W) /\ Kept(W) /\ W \in World /\ Shaped(W)
         /\ W.active = active /\ W.auto = auto /\ W.tops = tops
         /\ W.pending = pending /\ W.dirty = dirty
         /\ Listed(W) = Here /\ auto \in BOOLEAN
  BY WorldShaped DEF Inv, Fine, Kept, W, Here, World

\* A window that arrives changes neither the layout nor who is active.
LEMMA ArrivingStill ==
  ASSUME Inv, NEW tl, NEW floating, NEW mode
  PROVE  Still(W, Arriving(tl, floating, mode))
<1> DEFINE top == [Out EXCEPT !.here = TRUE, !.floating = floating,
                     !.floated = floating, !.current = mode.max,
                     !.asked = mode.max, !.fullscreen = mode.full]
<1>1. Arriving(tl, floating, mode) = With(W, tl, top)
  BY DEF Arriving, With
<1> HIDE DEF top
<1>2. QED
  BY <1>1, WShaped, WithStill

LEMMA AddedSettles ==
  ASSUME Inv, NEW w, Kept(w), NEW tl \in Toplevels, w.tops[tl].here,
         w.tops[tl].leaves = 0, NEW hidden \in BOOLEAN, NEW small \in BOOLEAN
  PROVE  LET w2 == AddToplevel(w, tl, hidden, small)
         IN Lays(w, w2) /\ Pays(w, w2) /\ w2.active = tl /\ tl \in Listed(w2)
<1> DEFINE w2 == AddToplevel(w, tl, hidden, small)
<1>1. Lays(w, w2) /\ Pays(w, w2) /\ w2.active = tl
  BY AddToplevelLays, AddToplevelPays, WorldShaped DEF Kept
<1> HIDE DEF w2
<1>2. tl \in Listed(w2)
  BY <1>1 DEF Lays, Listed
<1>3. QED
  BY <1>1, <1>2 DEF w2

Settled == StaysListed /\ Paid /\ (~auto' => ~dirty')

\* A handler that pays what it owes and keeps the active toplevel listed.
LEMMA StepSettled ==
  ASSUME Clean, NEW w, Step(w), Settles(W, w), Pays(W, w)
  PROVE  Settled
  BY StepSettles, StepPays DEF Settled

LEMMA StepSame ==
  ASSUME Clean, NEW w, Step(w), Lays(W, w), Pays(W, w), w.active = active
  PROVE  Settled
  BY StepSettled, SameSettles, WShaped DEF Clean

LEMMA MapSettled ==
  ASSUME Clean, NEW tl \in Toplevels, Map(tl) \/ MoveIn(tl)
  PROVE  Settled
<1>1. PICK floating \in BOOLEAN, small \in BOOLEAN, hidden \in BOOLEAN,
           mode \in Modes, placed \in BOOLEAN :
        Step(AddToplevel(IF placed THEN SetPosition(Arriving(tl, floating, mode), tl)
                         ELSE Arriving(tl, floating, mode), tl, hidden, small))
  <2>1. auto \in BOOLEAN
    BY WShaped DEF Clean
  <2>2. CASE Map(tl)
    BY <2>1, <2>2 DEF Map
  <2>3. CASE MoveIn(tl)
    BY <2>3 DEF MoveIn
  <2>4. QED
    BY <2>2, <2>3
<1> DEFINE w == Arriving(tl, floating, mode)
           w1 == IF placed THEN SetPosition(w, tl) ELSE w
           w2 == AddToplevel(w1, tl, hidden, small)
<1>2. Step(w2) /\ tl \in Outside /\ Inv
  BY <1>1 DEF Map, MoveIn, Clean
<1>3. /\ Kept(w) /\ w.tops[tl].here /\ w.tops[tl].leaves = 0
      /\ Still(W, w)
  BY <1>2, ArrivingFine, ArrivingStill DEF Fine
<1> HIDE DEF w
<1>4. Marks(w, w1) /\ Still(w, w1)
  BY <1>3, SetPositionMark, MarksSelf, PositionStill DEF Still, Tops
<1> HIDE DEF w1
<1>5. Kept(w1) /\ w1.tops[tl].here /\ w1.tops[tl].leaves = 0
  BY <1>3, <1>4 DEF Marks, Lays
<1>6. Pays(w1, w2) /\ w2.active = tl /\ tl \in Listed(w2)
  BY <1>2, <1>5, AddedSettles
<1> HIDE DEF w2
<1>7. Pays(W, w2)
  BY <1>3, <1>4, <1>6, StillPays, PaysTrans
<1>8. QED
  BY <1>2, <1>6, <1>7, MadeActiveSettles, StepSettled

\* The rule's temporary loss of the tree is made good before it applies its own.
LEMMA MapByRuleSettled ==
  ASSUME Clean, NEW tl \in Toplevels, MapByRule(tl)
  PROVE  Settled
<1> DEFINE added(floating, small, mode, skip) ==
             AddToplevel(
               [SetPosition(Arriving(tl, floating, mode), tl)
                  EXCEPT !.auto = @ /\ ~skip], tl, FALSE, small)
           moved(w, placed) == IF placed THEN SetPosition(w, tl) ELSE w
<1>1. PICK floating \in BOOLEAN, small \in BOOLEAN, placed \in BOOLEAN,
           state \in Modes, mode \in Modes :
        LET w4 == moved(
              [added(floating, small, mode, floating \/ state.max \/ state.full)
                 EXCEPT !.auto = auto], placed)
        IN Step(IF state.max THEN SetMaximized(w4, tl, TRUE)
                ELSE IF state.full THEN Fullscreen(w4, tl) ELSE w4)
  BY DEF MapByRule
<1> DEFINE skip == floating \/ state.max \/ state.full
           w == Arriving(tl, floating, mode)
           w1 == SetPosition(w, tl)
           w2 == [w1 EXCEPT !.auto = @ /\ ~skip]
           w3 == AddToplevel(w2, tl, FALSE, small)
           w4 == [w3 EXCEPT !.auto = auto]
           w5 == moved(w4, placed)
           w6 == IF state.max THEN SetMaximized(w5, tl, TRUE)
                 ELSE IF state.full THEN Fullscreen(w5, tl) ELSE w5
<1>2. Step(w6)
  BY <1>1
<1>3. tl \in Outside /\ auto \in BOOLEAN /\ Inv /\ W.auto = auto
  BY WShaped DEF MapByRule, Clean
<1>4. Kept(w) /\ w.tops[tl].here /\ w.tops[tl].leaves = 0 /\ Still(W, w)
  BY <1>3, ArrivingFine, ArrivingStill DEF Fine
<1> HIDE DEF w
<1>5. Marks(w, w1) /\ Still(w, w1)
  BY <1>4, SetPositionMark, PositionStill DEF Still, Tops
<1> HIDE DEF w1
<1>6. /\ Kept(w1) /\ w1.auto = auto /\ Still(W, w1)
      /\ w1.tops[tl].here /\ w1.tops[tl].leaves = 0
  BY <1>3, <1>4, <1>5 DEF Marks, Lays, Still, Tops
<1>7. /\ w2 \in World /\ w2.tops = w1.tops /\ (w2.auto => auto)
      /\ w2.dirty = w1.dirty /\ w2.pending = w1.pending
  BY <1>6 DEF Kept, World
<1> HIDE DEF w2
<1>8. Kept(w2) /\ w2.tops[tl].here /\ w2.tops[tl].leaves = 0
  BY <1>6, <1>7 DEF Kept
<1>9. Lays(w2, w3) /\ Pays(w2, w3) /\ w3.active = tl /\ tl \in Listed(w3)
  <2>1. Inv /\ FALSE \in BOOLEAN
    BY <1>3
  <2>2. QED
    BY <1>8, <2>1, AddedSettles
<1> HIDE DEF w3
<1>10. /\ w4 \in World /\ w4.tops = w3.tops /\ w4.auto = auto /\ w4.active = tl
       /\ w4.dirty = w3.dirty /\ w4.pending = w3.pending
  BY <1>3, <1>9 DEF Lays, Kept, World
<1> HIDE DEF w4
<1>11. Kept(w4) /\ w4.tops[tl].here /\ Shaped(w4)
  BY <1>9, <1>10, WorldShaped DEF Lays, Kept, Listed
<1>12. Pays(W, w4)
  BY <1>3, <1>6, <1>7, <1>9, <1>10, <1>11 DEF Pays, Still, Tops
<1>13. Lays(w4, w5) /\ Still(w4, w5)
  BY <1>11, SetPositionMark, MarksSelf, PositionStill DEF Marks, Still, Tops
<1> HIDE DEF w5
<1>14. Kept(w5) /\ w5.tops[tl].here /\ Shaped(w5) /\ w5.active = tl
  BY <1>10, <1>11, <1>13 DEF Lays, Still, Tops
<1>15. Lays(w5, w6)
  BY <1>14, SetMaximizedLays, FullscreenMark, MarksSelf DEF Marks
<1>16. Pays(w5, w6) /\ w6.active = tl
  <2>1. Still(w5, Fullscreen(w5, tl))
    BY <1>14, FullscreenStill
  <2>2. /\ Pays(w5, SetMaximized(w5, tl, TRUE))
        /\ SetMaximized(w5, tl, TRUE).active = tl
    BY <1>14, SetMaximizedPays
  <2>3. Pays(w5, Fullscreen(w5, tl)) /\ Fullscreen(w5, tl).active = tl
    BY <1>14, <2>1, StillPays DEF Still, Tops
  <2>4. Pays(w5, w5)
    BY <1>14 DEF Pays
  <2>5. QED
    BY <1>14, <2>2, <2>3, <2>4
<1> HIDE DEF w6
<1>17. Pays(W, w6)
  BY <1>12, <1>13, <1>16, StillPays, PaysTrans
<1>18. w6.active \in Listed(w6)
  BY <1>14, <1>15, <1>16 DEF Lays, Listed
<1>19. QED
  BY <1>2, <1>17, <1>18, MadeActiveSettles, StepSettled

\* Who is made active when a window closes is listed, or is the window itself
\* where the others are fullscreen.
LEMMA SuccessorListed ==
  ASSUME Inv, NEW tl \in Here, NEW next \in Successors(W, tl),
         active \in Here \cup {None}
  PROVE  \/ next \in (Here \ {tl}) \cup {None}
         \/ /\ next = tl /\ Here \ {tl} # {}
            /\ \A o \in Here \ {tl} : tops[o].fullscreen
<1>1. W.active = active /\ W.tops = tops /\ Listed(W) = Here
  BY WShaped
<1> HIDE DEF W
<1>2. CASE tl # active
  BY <1>1, <1>2 DEF Successors
<1>3. CASE tl = active /\ Here = {tl}
  BY <1>1, <1>3 DEF Successors
<1>4. CASE tl = active /\ Here # {tl}
  BY <1>1, <1>4 DEF Successors, Topmosts
<1>5. QED
  BY <1>2, <1>3, <1>4

LEMMA UnmapSettled ==
  ASSUME Clean, NEW tl \in Toplevels, Unmap(tl)
  PROVE  Settled
<1>1. PICK next \in Successors(W, tl) : Step(Unlisted(Close(W, tl, next), tl))
  BY DEF Unmap
<1> DEFINE v == Close(W, tl, next)
           w == Unlisted(v, tl)
<1>2. Inv /\ W \in World /\ Shaped(W) /\ tl \in Here /\ Listed(W) = Here
      /\ W.active = active /\ W.tops = tops
  BY WShaped DEF Clean, Unmap
<1>3. next \in Toplevels \cup {None}
  BY <1>2, SuccessorsType
<1>4. Pays(W, v) /\ v.active = next
  BY <1>2, ClosePays
<1>5. Roster(W, v)
  BY <1>2, <1>3, LeavingRoster DEF Close
<1>6. Step(w)
  BY <1>1
<1> HIDE DEF v, W
<1>7. Still(v, w)
  BY <1>4, UnlistedStill DEF Pays
<1>8. /\ Listed(w) = Here \ {tl}
      /\ \A o \in Here \ {tl} : w.tops[o].fullscreen = tops[o].fullscreen
  BY <1>2, <1>4, <1>5, UnlistedRoster DEF Pays
<1> HIDE DEF w
<1>9. Pays(W, w) /\ w.active = next
  BY <1>4, <1>7, StillPays, PaysTrans DEF Still, Tops
<1>10. Settles(W, w)
  BY <1>2, <1>8, <1>9, SuccessorListed DEF Settles
<1>11. QED
  BY <1>6, <1>9, <1>10, StepSettled

LEMMA CloseActiveSettled ==
  ASSUME Clean, CloseActive
  PROVE  Settled
<1>1. PICK next \in Successors(W, active) : Step(Close(W, active, next))
  BY DEF CloseActive
<1> DEFINE w == Close(W, active, next)
<1>2. /\ Inv /\ Fine(W) /\ Shaped(W) /\ active \in Here /\ Listed(W) = Here
      /\ active \in Toplevels /\ W.tops[active].here /\ W.active = active
  BY WShaped DEF Clean, CloseActive, Here, Listed
<1>3. next \in Toplevels \cup {None}
  BY <1>2, SuccessorsType
<1>4. Lays(W, w) /\ Pays(W, w) /\ w.active = next
  BY <1>2, <1>3, CloseLays, ClosePays
<1>5. next \in Here \cup {None}
  BY <1>2, SuccessorListed
<1>6. Step(w)
  BY <1>1
<1> HIDE DEF w, W
<1>7. Settles(W, w)
  BY <1>2, <1>4, <1>5, LaysListed DEF Settles
<1>8. QED
  BY <1>4, <1>6, <1>7, StepSettled

LEMMA MoveOutSettled ==
  ASSUME Clean, NEW tl \in Toplevels, MoveOut(tl)
  PROVE  Settled
<1>1. PICK next \in IF tl # active THEN {active}
                    ELSE IF Here = {tl} THEN {None} ELSE Here \ {tl} :
        Step(MoveTo(W, tl, next))
  BY DEF MoveOut
<1> DEFINE w1 == [W EXCEPT !.active = next]
           v == IF W.auto THEN Schedule(Part(w1, tl), "layout") ELSE w1
           w == MoveTo(W, tl, next)
<1>2. Inv /\ W \in World /\ Shaped(W) /\ tl \in Here /\ Listed(W) = Here
      /\ W.active = active /\ active \in Toplevels \cup {None}
      /\ Here \subseteq Toplevels
  BY WShaped DEF Clean, MoveOut, World, Here, Listed
<1>3. next \in Toplevels \cup {None}
  BY <1>1, <1>2
<1>4. Pays(W, w) /\ w.active = next
  BY <1>2, MoveToPays
<1>5. w = Unlisted(v, tl)
  BY DEF MoveTo
<1>6. Roster(W, v)
  BY <1>2, <1>3, LeavingRoster
<1>7. Shaped(v)
  <2>1. Shaped(w1)
    BY <1>2, ActiveFields
  <2> HIDE DEF w1
  <2>2. Shaped(Part(w1, tl))
    BY <2>1, PartTops DEF Tops
  <2>3. Shaped(Schedule(Part(w1, tl), "layout"))
    BY <2>2, ScheduleFields
  <2>4. QED
    BY <2>1, <2>3
<1>8. Step(w)
  BY <1>1
<1> HIDE DEF v, w, W
<1>9. Listed(w) = Here \ {tl}
  BY <1>2, <1>5, <1>6, <1>7, UnlistedRoster
<1>10. active \in Here \cup {None} => next \in (Here \ {tl}) \cup {None}
  BY <1>1
<1>11. Settles(W, w)
  BY <1>2, <1>4, <1>9, <1>10 DEF Settles
<1>12. QED
  BY <1>4, <1>8, <1>11, StepSettled

LEMMA StateSettled ==
  ASSUME Clean, NEW tl \in Toplevels, tl \in Here,
         \/ Focus(tl) \/ Acknowledge(tl) \/ Position(tl)
         \/ \E maximized \in BOOLEAN : Maximize(tl, maximized)
  PROVE  Settled
<1>1. /\ Inv /\ Kept(W) /\ W \in World /\ Shaped(W) /\ W.tops[tl].here
      /\ W.active = active /\ W.tops = tops /\ Listed(W) = Here
  BY WShaped DEF Clean, Here, Listed
<1>2. CASE Focus(tl)
  <2> DEFINE w == [W EXCEPT !.active = tl]
  <2>1. Step(w)
    BY <1>2 DEF Focus
  <2>2. Pays(W, w) /\ w.active = tl /\ w.tops = W.tops
    BY <1>1, ActiveFields DEF Pays
  <2> HIDE DEF w, W
  <2>3. w.active \in Listed(w)
    BY <1>1, <2>2 DEF Listed
  <2>4. QED
    BY <2>1, <2>2, <2>3, MadeActiveSettles, StepSettled
<1>3. CASE Acknowledge(tl)
  <2> DEFINE top == [W.tops[tl] EXCEPT !.current = tops[tl].asked]
             w == With(W, tl, top)
  <2>1. Step(w)
    BY <1>3 DEF Acknowledge, With
  <2>2. Still(W, w)
    BY <1>1, WithStill
  <2>3. Pays(W, w) /\ w.active = active
    BY <1>1, <2>2, StillPays DEF Still, Tops
  <2>4. Listed(w) = Listed(W)
    <3> HIDE DEF W
    <3>1. W.tops \in [Toplevels -> Toplevel]
      BY <1>1 DEF World
    <3>2. top.here = W.tops[tl].here
      BY <3>1 DEF Toplevel
    <3> HIDE DEF top
    <3>3. w.tops = [W.tops EXCEPT ![tl] = top]
      BY <1>1 DEF With, Shaped
    <3>4. QED
      BY <3>1, <3>2, <3>3 DEF Listed
  <2> HIDE DEF w, W
  <2>5. Settles(W, w)
    BY <1>1, <2>3, <2>4 DEF Settles
  <2>6. QED
    BY <2>1, <2>3, <2>5, StepSettled
<1>4. CASE Position(tl)
  <2>1. Still(W, SetPosition(W, tl)) /\ Lays(W, SetPosition(W, tl))
    BY <1>1, PositionStill, SetPositionMark DEF Marks
  <2>2. Pays(W, SetPosition(W, tl)) /\ SetPosition(W, tl).active = active
    BY <1>1, <2>1, StillPays DEF Still, Tops
  <2>3. Step(SetPosition(W, tl))
    BY <1>4 DEF Position
  <2>4. QED
    BY <2>1, <2>2, <2>3, StepSame
<1>5. CASE \E maximized \in BOOLEAN : Maximize(tl, maximized)
  <2>1. PICK maximized \in BOOLEAN : Step(SetMaximized(W, tl, maximized))
    BY <1>5 DEF Maximize
  <2>2. /\ Lays(W, SetMaximized(W, tl, maximized))
        /\ Pays(W, SetMaximized(W, tl, maximized))
        /\ SetMaximized(W, tl, maximized).active = active
    BY <1>1, SetMaximizedLays, SetMaximizedPays
  <2>3. QED
    BY <2>1, <2>2, StepSame
<1>6. QED
  BY <1>2, <1>3, <1>4, <1>5

\* The two handlers that leave a layout owed where there is a tree.
LEMMA ToggleFullscreenSettled ==
  ASSUME Clean, NEW tl \in Toplevels, ToggleFullscreen(tl)
  PROVE  StaysListed /\ (~auto' => ~dirty')
<1> DEFINE w == IF tops[tl].fullscreen THEN Unfullscreen(W, tl) ELSE Fullscreen(W, tl)
<1>1. /\ Inv /\ Kept(W) /\ Shaped(W) /\ W.tops[tl].here
      /\ W.active = active /\ W.auto = auto /\ W.dirty = dirty
  BY WShaped DEF Clean, ToggleFullscreen, Here, Listed
<1>2. Lays(W, w)
  BY <1>1, UnfullscreenLays, FullscreenMark DEF Marks
<1>3. Tops(W, w) /\ (~W.auto => Still(W, w))
  BY <1>1, UnfullscreenTops, FullscreenStill DEF Still
<1>4. Step(w)
  BY DEF ToggleFullscreen
<1> HIDE DEF w, W
<1>5. StaysListed
  BY <1>1, <1>2, <1>3, <1>4, SameSettles, StepSettles DEF Tops
<1>6. ~auto' => ~dirty'
  BY <1>1, <1>3, <1>4 DEF Step, Still, Tops, Clean
<1>7. QED
  BY <1>5, <1>6

LEMMA SwapSettled ==
  ASSUME Clean, NEW a \in Toplevels, NEW b \in Toplevels, Swap(a, b)
  PROVE  StaysListed /\ (~auto' => ~dirty')
<1>1. PICK w \in Swaps(W, a, b) : Step(w)
  BY DEF Swap
<1>2. /\ Inv /\ Kept(W) /\ Shaped(W) /\ a # b /\ W.tops[a].here /\ W.tops[b].here
      /\ W.active = active /\ W.auto = auto /\ W.dirty = dirty
  BY WShaped DEF Clean, Swap, Here, Listed
<1>3. /\ Lays(W, w) /\ w.active = W.active /\ w.auto = W.auto
      /\ w.dirty /\ ~W.auto => W.dirty
  BY <1>2, SwapsLays, SwapsFields
<1> HIDE DEF W
<1>4. StaysListed
  BY <1>1, <1>3, SameSettles, StepSettles
<1>5. ~auto' => ~dirty'
  BY <1>1, <1>2, <1>3 DEF Step, Clean
<1>6. QED
  BY <1>4, <1>5

LEMMA ToggleFloatingSettled ==
  ASSUME Clean, ToggleFloating
  PROVE  Settled
<1> DEFINE tl == active
           w1 == With(W, tl, Floated(W.tops[tl]))
           parted == Part(w1, tl)
           later == Schedule(parted, "layout")
           placed == SetPosition(later, tl)
           joined == Join(w1, tl)
           done == Calculated(joined)
           laid == Schedule(done, "layout")
           set == SetPosition(laid, tl)
           w2 == IF ~auto THEN w1
                 ELSE IF ~tops[tl].floating THEN placed
                 ELSE IF tl \in Leaved(laid) THEN set ELSE laid
<1>1. Step(w2)
  BY DEF ToggleFloating, With
<1>2. /\ Inv /\ Shaped(W) /\ W.active = active /\ W.auto = auto /\ W.tops = tops
      /\ Listed(W) = Here /\ active \in Here /\ active \in Toplevels
  BY WShaped DEF Clean, ToggleFloating, Here, Listed
<1>3. Still(W, w1)
  BY <1>2, WithStill
<1>4. /\ \A o \in Toplevels : w1.tops[o].here = W.tops[o].here
      /\ ~W.tops[tl].floating => Parting(w1, tl)
      /\ W.tops[tl].floating => Kept(w1) /\ Open(w1.tops[tl])
  BY <1>2, FloatedWorld
<1> HIDE DEF w1, W
<1>5. Listed(w1) = Here /\ Pays(W, w1) /\ w1.active = active /\ w1.auto = auto
      /\ Shaped(w1)
  BY <1>2, <1>3, <1>4, StillPays DEF Listed, Still, Tops
<1>6. CASE ~auto
  <2>1. w2 = w1
    BY <1>6
  <2>2. w2.active \in Listed(w2)
    BY <1>2, <1>5, <2>1
  <2>3. QED
    BY <1>1, <1>5, <2>1, <2>2, MadeActiveSettles, StepSettled
<1>7. CASE auto /\ ~tops[tl].floating
  <2>1. Tops(w1, parted)
    BY <1>5, PartTops
  <2>2. Lays(w1, parted)
    BY <1>2, <1>4, <1>5, <1>7, PartLays
  <2> HIDE DEF parted
  <2>3. Pays(w1, later) /\ later.active = active
    BY <1>5, <1>7, <2>1, ScheduledPays
  <2>4. Lays(w1, later)
    <3>1. Kept(parted) /\ "layout" \in {"none", "layout", "layout or tile"}
      BY <2>2 DEF Lays
    <3>2. Lays(parted, later)
      BY <3>1, ScheduleMark DEF Marks
    <3> HIDE DEF later
    <3>3. QED
      BY <2>2, <3>2, LaysTrans
  <2> HIDE DEF later
  <2>5. Still(later, placed) /\ Lays(later, placed)
    BY <1>2, <2>3, <2>4, PositionStill, SetPositionMark DEF Pays, Marks, Lays
  <2> HIDE DEF placed
  <2>6. Pays(W, placed) /\ placed.active = active
    BY <1>5, <2>3, <2>5, StillPays, PaysTrans DEF Still, Tops
  <2>7. placed.active \in Listed(placed)
    BY <1>2, <1>5, <2>4, <2>5, <2>6, LaysListed
  <2>8. Step(placed)
    BY <1>1, <1>7
  <2>9. QED
    BY <2>6, <2>7, <2>8, MadeActiveSettles, StepSettled
<1>8. CASE auto /\ tops[tl].floating
  <2>1. Tops(w1, joined)
    BY <1>5, JoinTops
  <2>2. Lays(w1, joined) /\ Kept(joined)
    BY <1>2, <1>4, <1>5, <1>8, JoinLays DEF Lays
  <2> HIDE DEF joined
  <2>3. Tops(w1, done)
    BY <2>1, CalculatedStill DEF Still, Tops
  <2>4. Lays(w1, done) /\ Kept(done)
    BY <2>2, CalculatedMark, LaysTrans DEF Marks, Lays
  <2> HIDE DEF done
  <2>5. Pays(w1, laid) /\ laid.active = active
    BY <1>5, <1>8, <2>3, ScheduledPays
  <2>6. Lays(w1, laid) /\ Kept(laid)
    <3>1. "layout" \in {"none", "layout", "layout or tile"}
      OBVIOUS
    <3>2. Lays(done, laid)
      BY <2>4, <3>1, ScheduleMark DEF Marks
    <3> HIDE DEF laid
    <3>3. Lays(w1, laid)
      BY <2>4, <3>2, LaysTrans
    <3>4. QED
      BY <3>3 DEF Lays
  <2> HIDE DEF laid
  <2>7. Still(laid, set) /\ Lays(laid, set)
    BY <1>2, <2>5, <2>6, PositionStill, SetPositionMark DEF Pays, Marks
  <2> HIDE DEF set
  <2>8. ASSUME NEW w \in {laid, set}
        PROVE  Pays(W, w) /\ w.active = active /\ w.active \in Listed(w)
    <3>1. Pays(w1, w) /\ w.active = active
      BY <2>5, <2>7, StillPays, PaysTrans DEF Still, Tops
    <3>2. Listed(w) = Here
      BY <1>5, <2>6, <2>7, LaysListed
    <3>3. QED
      BY <1>2, <1>5, <3>1, <3>2, PaysTrans
  <2>9. w2 \in {laid, set}
    BY <1>8
  <2> HIDE DEF w2
  <2>10. QED
    BY <1>1, <2>8, <2>9, MadeActiveSettles, StepSettled
<1>9. QED
  BY <1>6, <1>7, <1>8

LEMMA ToggleAutoTileSettled ==
  ASSUME Clean, ToggleAutoTile
  PROVE  Settled
<1>1. /\ Inv /\ Shaped(W) /\ W.active = active /\ W.auto = auto /\ W.tops = tops
      /\ Listed(W) = Here /\ W \in World
  BY WShaped DEF Clean
<1>2. \A o \in Toplevels : \A in : Anew(tops[o], in).here = tops[o].here
  <2>1. tops \in [Toplevels -> Toplevel]
    BY <1>1 DEF World
  <2>2. QED
    BY <2>1 DEF Anew, Toplevel
<1>3. CASE auto
  <2> DEFINE all == [tl \in Toplevels |-> Anew(tops[tl], FALSE)]
             w == [W EXCEPT !.auto = FALSE, !.dirty = FALSE, !.tops = all]
  <2>1. Step(w)
    BY <1>3 DEF ToggleAutoTile
  <2>2. \A o \in Toplevels : all[o].here = tops[o].here
    BY <1>2
  <2> HIDE DEF all, W
  <2>3. ~w.dirty /\ w.active = active /\ w.tops = all
    BY <1>1 DEF Shaped
  <2> HIDE DEF w
  <2>4. Settles(W, w)
    BY <1>1, <2>2, <2>3 DEF Settles, Listed
  <2>5. Paid /\ (~auto' => ~dirty')
    BY <2>1, <2>3 DEF Step, Paid
  <2>6. QED
    BY <2>1, <2>4, <2>5, StepSettles DEF Settled
<1>4. CASE ~auto
  <2> DEFINE w1 == [W EXCEPT !.auto = TRUE]
             S == Here \ Floating(W)
             w2 == Rebuild(w1, S)
             w3 == Schedule(w2, "layout")
  <2>1. Step(w3)
    BY <1>4 DEF ToggleAutoTile
  <2> HIDE DEF W, S
  <2>2. Shaped(w1) /\ w1.active = active /\ w1.auto /\ w1.tops = tops
    BY <1>1 DEF Shaped
  <2> HIDE DEF w1
  <2>3. Tops(w1, w2)
    BY <2>2, RebuildTops
  <2>4. w2.tops = [o \in Toplevels |-> Anew(tops[o], o \in S \ Skipped(w1))]
    BY <2>2 DEF Rebuild, Shaped
  <2> HIDE DEF w2
  <2>5. /\ w3.active = active /\ w3.auto /\ w3.pending = "layout"
        /\ w3.tops = w2.tops
    BY <2>2, <2>3, ScheduleFields DEF Tops
  <2> HIDE DEF w3
  <2>6. \A o \in Toplevels : w3.tops[o].here = tops[o].here
    BY <1>2, <2>4, <2>5
  <2>7. Settles(W, w3)
    BY <1>1, <2>5, <2>6 DEF Settles, Listed
  <2>8. Paid /\ (~auto' => ~dirty')
    BY <2>1, <2>5 DEF Step, Paid
  <2>9. QED
    BY <2>1, <2>7, <2>8, StepSettles DEF Settled
<1>5. QED
  BY <1>3, <1>4

\* The idle callback gives up a layout only where it does one, or no tree owes it.
LEMMA LayoutSettled ==
  ASSUME Clean, Tile \/ IdleLayout \/ AreaChange \/ Transact
  PROVE  Settled
<1>1. /\ Inv /\ Kept(W) /\ Shaped(W) /\ W \in World
      /\ W.active = active /\ W.auto = auto /\ W.dirty = dirty
  BY WShaped DEF Clean
<1>2. CASE Tile
  <2>1. PICK sans : Step(TileAll(W, sans))
    BY <1>2 DEF Tile
  <2>2. Lays(W, TileAll(W, sans)) /\ Still(W, TileAll(W, sans))
    BY <1>1, TileAllLays, TileAllStill
  <2>3. QED
    BY <1>1, <2>1, <2>2, StillPays, StepSame DEF Still, Tops
<1>3. CASE IdleLayout
  <2> DEFINE c == Cancel(W)
             w == IF auto THEN ApplyLayout(c)
                  ELSE IF pending = "layout or tile" THEN TileAll(c, {}) ELSE c
  <2>1. Step(w)
    BY <1>3 DEF IdleLayout
  <2>2. Lays(W, c) /\ Kept(c)
    BY <1>1, CancelMark DEF Marks, Lays
  <2>3. Shaped(c) /\ c.active = active /\ c.auto = auto /\ c.dirty = dirty
    BY <1>1, ScheduleFields DEF Cancel
  <2> HIDE DEF c, W
  <2>4. /\ Still(c, ApplyLayout(c)) /\ Lays(c, ApplyLayout(c))
        /\ ~ApplyLayout(c).dirty
    BY <2>2, <2>3, ApplyLayoutStill, ApplyLayoutMark DEF Marks
  <2>5. Still(c, TileAll(c, {})) /\ Lays(c, TileAll(c, {}))
    BY <2>2, <2>3, TileAllStill, TileAllLays
  <2>6. Lays(W, w)
    BY <2>2, <2>4, <2>5, LaysTrans
  <2>7. ~w.dirty /\ Shaped(w) /\ w.active = active /\ w.auto = auto
    BY <2>3, <2>4, <2>5 DEF Still, Tops, Clean
  <2> HIDE DEF w
  <2>8. Pays(W, w)
    BY <1>1, <2>7 DEF Pays
  <2>9. QED
    BY <2>1, <2>6, <2>7, <2>8, StepSame
<1>4. CASE AreaChange
  <2>1. Lays(W, ApplyLayout(W)) /\ Still(W, ApplyLayout(W))
    BY <1>1, ApplyLayoutMark, ApplyLayoutStill DEF Marks
  <2>2. Step(ApplyLayout(W))
    BY <1>4 DEF AreaChange
  <2>3. QED
    BY <1>1, <2>1, <2>2, StillPays, StepSame DEF Still, Tops
<1>5. CASE Transact
  <2> DEFINE w == [W EXCEPT !.busy = ~W.busy]
  <2>1. Step(w)
    BY <1>5 DEF Transact
  <2> HIDE DEF W
  <2>2. /\ Still(W, w) /\ w.tops = W.tops
    BY <1>1 DEF Shaped, Still, Tops
  <2> HIDE DEF w
  <2>3. Settles(W, w)
    BY <1>1, <2>2 DEF Settles, Listed, Still, Tops
  <2>4. QED
    BY <2>1, <2>2, <2>3, StillPays, StepSettled
<1>6. QED
  BY <1>2, <1>3, <1>4, <1>5

-----------------------------------------------------------------------------
(* The theorems *)

LEMMA NextSettled ==
  ASSUME Clean, [Next]_vars
  PROVE  /\ StaysListed /\ (~auto' => ~dirty')
         /\ \/ Paid
            \/ \E a, b \in Toplevels : Swap(a, b)
            \/ \E tl \in Toplevels : ToggleFullscreen(tl)
<1>1. ASSUME NEW tl \in Toplevels, Map(tl) \/ MoveIn(tl) PROVE Settled
  BY <1>1, MapSettled
<1>2. ASSUME NEW tl \in Toplevels, MapByRule(tl) PROVE Settled
  BY <1>2, MapByRuleSettled
<1>3. ASSUME NEW tl \in Toplevels, Unmap(tl) PROVE Settled
  BY <1>3, UnmapSettled
<1>4. ASSUME NEW tl \in Toplevels, MoveOut(tl) PROVE Settled
  BY <1>4, MoveOutSettled
<1>5. ASSUME NEW tl \in Toplevels,
             \/ Focus(tl) \/ Acknowledge(tl) \/ Position(tl)
             \/ \E maximized \in BOOLEAN : Maximize(tl, maximized)
      PROVE  Settled
  <2>1. tl \in Here
    BY <1>5 DEF Focus, Acknowledge, Position, Maximize
  <2>2. QED
    BY <1>5, <2>1, StateSettled
<1>6. ASSUME NEW tl \in Toplevels, ToggleFullscreen(tl)
      PROVE  StaysListed /\ (~auto' => ~dirty')
  BY <1>6, ToggleFullscreenSettled
<1>7. ASSUME NEW a \in Toplevels, NEW b \in Toplevels, Swap(a, b)
      PROVE  StaysListed /\ (~auto' => ~dirty')
  BY <1>7, SwapSettled
<1>8. CASE CloseActive
  BY <1>8, CloseActiveSettled DEF Settled
<1>9. CASE ToggleFloating
  BY <1>9, ToggleFloatingSettled DEF Settled
<1>10. CASE ToggleAutoTile
  BY <1>10, ToggleAutoTileSettled DEF Settled
<1>11. CASE Tile \/ IdleLayout \/ AreaChange \/ Transact
  BY <1>11, LayoutSettled DEF Settled
<1>12. CASE UNCHANGED vars
  BY <1>12 DEF vars, StaysListed, Paid, Here, Listed, W, Clean
<1>13. QED
  BY <1>1, <1>2, <1>3, <1>4, <1>5, <1>6, <1>7, <1>8, <1>9, <1>10, <1>11, <1>12
  DEF Next, Settled

LEMMA CleanHolds == Spec => []Clean
<1>1. Init => Clean
  BY InitInv DEF Init, Clean
<1>2. Clean /\ [Next]_vars => Clean'
  BY NextInv, NextSettled DEF Clean
<1>3. QED
  BY <1>1, <1>2, PTL DEF Spec

\* The active toplevel stays in the workspace's list, whatever handler runs, until
\* an active window closes above fullscreen ones only: close() looks for the
\* topmost window among the ordinary ones, and finds none.
THEOREM ActiveStays == Spec => ActiveIsListed
<1>1. Clean /\ [Next]_vars => [(active \in Here \cup {None}) =>
        \/ active' \in Here' \cup {None}
        \/ Here' # {} /\ \A tl \in Here' : tops'[tl].fullscreen]_vars
  BY NextSettled DEF StaysListed
<1>2. QED
  BY <1>1, CleanHolds, PTL DEF Spec, ActiveIsListed

\* Every handler that changes the tree applies the layout or leaves the idle
\* callback pending, but for a swap, which cancels it, and the end of fullscreen.
THEOREM LayoutFollows == Spec => LayoutIsOwed
<1>1. Clean /\ [Next]_vars => [dirty' /\ pending' = "none" =>
        \/ dirty /\ pending = "none"
        \/ \E a, b \in Toplevels : Swap(a, b)
        \/ \E tl \in Toplevels : ToggleFullscreen(tl)]_vars
  BY NextSettled DEF Paid
<1>2. QED
  BY <1>1, CleanHolds, PTL DEF Spec, LayoutIsOwed
=============================================================================
