--------------------------- MODULE BSPTreeProofs ---------------------------
(***************************************************************************)
(* The tiling tree is a tree: what every call leaves behind has its nodes  *)
(* under their parents, two children under each container and a window of  *)
(* its own in each leaf; the boxes of the leaves partition the area; and   *)
(* read from left to right it is the list of TilingOrder.                  *)
(***************************************************************************)
EXTENDS BSPTree, ListProofs, FiniteSetTheorems

Side == {1, 2}
Pos == Seq(Side)

-----------------------------------------------------------------------------
(* Positions *)

\* The position of a child, and the way back from it.
LEMMA ChildPos ==
  ASSUME NEW p \in Pos, NEW c \in Side
  PROVE  /\ p \o <<c>> \in Pos
         /\ Len(p \o <<c>>) = Len(p) + 1
         /\ p \o <<c>> # Root
         /\ Parent(p \o <<c>>) = p
         /\ Ext!Last(p \o <<c>>) = c
<1> DEFINE q == p \o <<c>>
<1>1. <<c>> \in Seq(Side) /\ Len(<<c>>) = 1 /\ <<c>>[1] = c
  OBVIOUS
<1>2. /\ q \in Seq(Side)
      /\ Len(q) = Len(p) + 1
      /\ \A i \in 1 .. Len(p) + 1 : q[i] = IF i <= Len(p) THEN p[i] ELSE <<c>>[i - Len(p)]
  BY <1>1, ConcatProperties DEF Pos
<1>3. Len(p) \in Nat
  BY DEF Pos
<1>4. q[Len(p) + 1] = c
  BY <1>1, <1>2, <1>3
<1> HIDE DEF q
<1>5. q # << >>
  BY <1>2, <1>3
<1>6. SubSeq(q, 1, Len(p)) = p
  <2>1. SubSeq(q, 1, Len(p)) \in Seq(Side) /\ Len(SubSeq(q, 1, Len(p))) = Len(p)
    BY <1>2, <1>3
  <2>2. \A i \in 1 .. Len(p) : SubSeq(q, 1, Len(p))[i] = p[i]
    BY <1>2, <1>3
  <2>3. QED
    BY <2>1, <2>2, SeqEqual DEF Pos
<1>7. Parent(q) = p /\ Ext!Last(q) = c
  BY <1>2, <1>3, <1>4, <1>6 DEF Parent, Ext!Front, Ext!Last
<1>8. QED
  BY <1>2, <1>5, <1>7 DEF q, Pos, Root

\* Every position but the root's is that of a child of its parent.
LEMMA ParentPos ==
  ASSUME NEW q \in Pos, q # Root
  PROVE  /\ Parent(q) \in Pos
         /\ Ext!Last(q) \in Side
         /\ Len(q) = Len(Parent(q)) + 1
         /\ q = Parent(q) \o <<Ext!Last(q)>>
<1> DEFINE n == Len(q)
           p == SubSeq(q, 1, n - 1)
<1>1. n \in Nat /\ n # 0 /\ q \in Seq(Side)
  BY DEF Pos, Root
<1>2. q[n] \in Side
  BY <1>1
<1>3. p \in Seq(Side) /\ Len(p) = n - 1 /\ \A i \in 1 .. n - 1 : p[i] = q[i]
  <2>1. \A i \in 1 .. n - 1 : q[i] \in Side
    BY <1>1
  <2>2. /\ p \in Seq(Side)
        /\ Len(p) = IF 1 <= n - 1 THEN (n - 1) - 1 + 1 ELSE 0
        /\ \A i \in 1 .. (n - 1) - 1 + 1 : p[i] = q[1 + i - 1]
    <3> HIDE DEF n
    <3>1. 1 \in Int /\ n - 1 \in Int
      BY <1>1
    <3>2. QED
      BY <2>1, <3>1, SubSeqProperties
  <2> HIDE DEF p, n
  <2>3. QED
    BY <1>1, <2>2
<1>4. Parent(q) = p /\ Ext!Last(q) = q[n]
  BY DEF Parent, Ext!Front, Ext!Last
<1>5. p \o <<q[n]>> = q
  <2> HIDE DEF p, n
  <2> DEFINE r == p \o <<q[n]>>
  <2>1. <<q[n]>> \in Seq(Side) /\ Len(<<q[n]>>) = 1 /\ <<q[n]>>[1] = q[n]
    BY <1>2
  <2>2. /\ r \in Seq(Side) /\ Len(r) = n
        /\ \A i \in 1 .. n : r[i] = IF i <= n - 1 THEN p[i] ELSE q[n]
    <3>1. /\ r \in Seq(Side) /\ Len(r) = Len(p) + 1
          /\ \A i \in 1 .. Len(p) + 1 :
               r[i] = IF i <= Len(p) THEN p[i] ELSE <<q[n]>>[i - Len(p)]
      BY <1>3, <2>1, ConcatProperties
    <3>2. ASSUME NEW i \in 1 .. n, ~(i <= n - 1) PROVE i - Len(p) = 1
      BY <1>1, <1>3, <3>2
    <3> HIDE DEF r
    <3>3. QED
      BY <1>1, <1>3, <2>1, <3>1, <3>2
  <2> HIDE DEF r
  <2>3. \A i \in 1 .. n : r[i] = q[i]
    BY <1>1, <1>3, <2>2
  <2>4. r = q
    BY <1>1, <2>2, <2>3, SeqEqual DEF n
  <2>5. QED
    BY <2>4 DEF r
<1>6. Len(q) = Len(p) + 1
  BY <1>1, <1>3
<1> HIDE DEF p, n
<1>7. /\ Parent(q) \in Pos
      /\ Ext!Last(q) \in Side
      /\ Len(q) = Len(Parent(q)) + 1
  BY <1>2, <1>3, <1>4, <1>6 DEF Pos
<1>8. q = Parent(q) \o <<Ext!Last(q)>>
  BY <1>4, <1>5
<1>9. QED
  BY <1>7, <1>8

\* A child has one parent and one side.
LEMMA SameChild ==
  ASSUME NEW p \in Pos, NEW q \in Pos, NEW c \in Side, NEW d \in Side,
         p \o <<c>> = q \o <<d>>
  PROVE  p = q /\ c = d
<1>1. Parent(p \o <<c>>) = p /\ Ext!Last(p \o <<c>>) = c
  BY ChildPos
<1>2. Parent(q \o <<d>>) = q /\ Ext!Last(q \o <<d>>) = d
  BY ChildPos
<1>3. QED
  BY <1>1, <1>2

\* What is left of a sequence after n elements.
LEMMA SuffixOf ==
  ASSUME NEW S, NEW q \in Seq(S), NEW n \in 0 .. Len(q)
  PROVE  /\ SubSeq(q, n + 1, Len(q)) \in Seq(S)
         /\ Len(SubSeq(q, n + 1, Len(q))) = Len(q) - n
         /\ \A i \in 1 .. Len(q) - n : SubSeq(q, n + 1, Len(q))[i] = q[n + i]
<1> DEFINE m == Len(q)
           x == SubSeq(q, n + 1, m)
<1>1. m \in Nat /\ n \in Nat /\ n <= m
  OBVIOUS
<1>2. \A i \in n + 1 .. m : q[i] \in S
  OBVIOUS
<1>3. /\ x \in Seq(S)
      /\ Len(x) = IF n + 1 <= m THEN m - (n + 1) + 1 ELSE 0
      /\ \A i \in 1 .. m - (n + 1) + 1 : x[i] = q[(n + 1) + i - 1]
  <2> HIDE DEF m
  <2>1. n + 1 \in Int /\ m \in Int
    BY <1>1
  <2>2. QED
    BY <1>2, <2>1, SubSeqProperties
<1>4. Len(x) = m - n
  BY <1>1, <1>3
<1>5. ASSUME NEW i \in 1 .. m - n PROVE x[i] = q[n + i]
  <2> HIDE DEF m, x
  <2>1. i \in 1 .. m - (n + 1) + 1 /\ (n + 1) + i - 1 = n + i
    BY <1>1
  <2>2. x[i] = q[(n + 1) + i - 1]
    BY <1>3, <2>1
  <2>3. QED
    BY <2>1, <2>2
<1>6. QED
  BY <1>3, <1>4, <1>5

\* What is below p extends p.
LEMMA PrefixPos ==
  ASSUME NEW p \in Pos, NEW q \in Pos
  PROVE  /\ Ext!IsPrefix(p, q) => Down(p, q) \in Pos /\ q = p \o Down(p, q)
         /\ \A x \in Pos : q = p \o x => Ext!IsPrefix(p, q) /\ Down(p, q) = x
<1>1. /\ p \in Seq(Side) /\ q \in Seq(Side) /\ Len(p) \in Nat /\ Len(q) \in Nat
      /\ DOMAIN p = 1 .. Len(p) /\ DOMAIN q = 1 .. Len(q)
  BY DEF Pos
<1>2. ASSUME Ext!IsPrefix(p, q)
      PROVE  Down(p, q) \in Pos /\ q = p \o Down(p, q)
  <2> DEFINE x == SubSeq(q, Len(p) + 1, Len(q))
             r == p \o x
  <2>1. Len(p) <= Len(q) /\ SubSeq(p, 1, Len(p)) = SubSeq(q, 1, Len(p))
    BY <1>2 DEF Ext!IsPrefix
  <2>2. \A i \in 1 .. Len(p) : p[i] = q[i]
    <3>1. \A i \in 1 .. Len(p) : SubSeq(p, 1, Len(p))[i] = p[i] /\ SubSeq(q, 1, Len(p))[i] = q[i]
      BY <1>1, <2>1
    <3>2. QED
      BY <2>1, <3>1
  <2>3. /\ x \in Seq(Side) /\ Len(x) = Len(q) - Len(p)
        /\ \A i \in 1 .. Len(q) - Len(p) : x[i] = q[Len(p) + i]
    <3>1. Len(p) \in 0 .. Len(q)
      BY <1>1, <2>1
    <3>2. QED
      BY <1>1, <3>1, SuffixOf
  <2> HIDE DEF x
  <2>4. /\ r \in Seq(Side) /\ Len(r) = Len(p) + Len(x)
        /\ \A i \in 1 .. Len(p) + Len(x) : r[i] = IF i <= Len(p) THEN p[i] ELSE x[i - Len(p)]
    BY <1>1, <2>3, ConcatProperties
  <2> HIDE DEF r
  <2>5. ASSUME NEW i \in 1 .. Len(q) PROVE r[i] = q[i]
    <3>1. CASE i <= Len(p)
      BY <1>1, <2>2, <2>3, <2>4, <3>1
    <3>2. CASE ~(i <= Len(p))
      <4>1. i - Len(p) \in 1 .. Len(q) - Len(p) /\ Len(p) + (i - Len(p)) = i
        BY <1>1, <3>2
      <4>2. QED
        BY <1>1, <2>3, <2>4, <3>2, <4>1
    <3>3. QED
      BY <3>1, <3>2
  <2>6. r = q
    <3>1. Len(r) = Len(q)
      BY <1>1, <2>3, <2>4
    <3>2. QED
      BY <1>1, <2>4, <2>5, <3>1, SeqEqual
  <2>7. QED
    BY <2>3, <2>6 DEF Pos, Down, r, x
<1>3. ASSUME NEW x \in Pos, q = p \o x
      PROVE  Ext!IsPrefix(p, q) /\ Down(p, q) = x
  <2>1. x \in Seq(Side) /\ Len(x) \in Nat
    BY DEF Pos
  <2>2. /\ Len(q) = Len(p) + Len(x)
        /\ \A i \in 1 .. Len(p) + Len(x) : q[i] = IF i <= Len(p) THEN p[i] ELSE x[i - Len(p)]
    BY <1>1, <1>3, <2>1, ConcatProperties
  <2>3. SubSeq(p, 1, Len(p)) = SubSeq(q, 1, Len(p))
    <3> DEFINE a == SubSeq(p, 1, Len(p))
               b == SubSeq(q, 1, Len(p))
    <3>1. /\ a \in Seq(Side) /\ b \in Seq(Side) /\ Len(a) = Len(p) /\ Len(b) = Len(p)
          /\ \A i \in 1 .. Len(p) : a[i] = p[i] /\ b[i] = q[i]
      BY <1>1, <2>1, <2>2
    <3> HIDE DEF a, b
    <3>2. \A i \in 1 .. Len(p) : a[i] = b[i]
      BY <1>1, <2>1, <2>2, <3>1
    <3>3. a = b
      BY <3>1, <3>2, SeqEqual
    <3>4. QED
      BY <3>3 DEF a, b
  <2>4. Down(p, q) = x
    <3> DEFINE y == SubSeq(q, Len(p) + 1, Len(q))
    <3>1. /\ y \in Seq(Side) /\ Len(y) = Len(x)
          /\ \A i \in 1 .. Len(x) : y[i] = q[Len(p) + i]
      <4>1. Len(p) \in 0 .. Len(q) /\ Len(q) - Len(p) = Len(x)
        BY <1>1, <2>1, <2>2
      <4>2. /\ y \in Seq(Side) /\ Len(y) = Len(q) - Len(p)
            /\ \A i \in 1 .. Len(q) - Len(p) : y[i] = q[Len(p) + i]
        <5> HIDE DEF y
        <5>1. QED
          BY <1>1, <4>1, SuffixOf DEF y
      <4> HIDE DEF y
      <4>3. QED
        BY <4>1, <4>2
    <3> HIDE DEF y
    <3>2. ASSUME NEW i \in 1 .. Len(x) PROVE y[i] = x[i]
      <4>1. Len(p) + i \in 1 .. Len(p) + Len(x) /\ ~(Len(p) + i <= Len(p)) /\ Len(p) + i - Len(p) = i
        BY <1>1, <2>1
      <4>2. q[Len(p) + i] = x[Len(p) + i - Len(p)]
        BY <2>2, <4>1
      <4>3. QED
        BY <3>1, <4>1, <4>2
    <3>3. y = x
      BY <2>1, <3>1, <3>2, SeqEqual
    <3>4. QED
      BY <3>3 DEF y, Down
  <2>5. QED
    BY <1>1, <2>1, <2>2, <2>3, <2>4 DEF Ext!IsPrefix
<1>4. QED
  BY <1>2, <1>3

-----------------------------------------------------------------------------
(* What a tree is *)

GoodNode == {n \in Node : 0 < n.ratio[1] /\ n.ratio[1] < n.ratio[2]}

\* Every node but the root is a child of a container.
Rooted(T) ==
  \A p \in DOMAIN T :
    p = Root \/ \E q \in DOMAIN T, c \in Side : ~IsLeaf(T, q) /\ p = q \o <<c>>

\* A container has a first child at least.
Based(T) == \A p \in DOMAIN T : ~IsLeaf(T, p) => p \o <<1>> \in DOMAIN T

Bounded(T) == \E n \in Nat : \A p \in DOMAIN T : Len(p) <= n

\* No window is in two leaves.
Distinct(T) ==
  \A p, q \in DOMAIN T :
    /\ IsLeaf(T, p) /\ IsLeaf(T, q)
    /\ T[p].toplevel # None
    /\ T[p].toplevel = T[q].toplevel
    => p = q

Shape(T) ==
  /\ DOMAIN T \subseteq Pos
  /\ T \in [DOMAIN T -> GoodNode]
  /\ Rooted(T)
  /\ Based(T)
  /\ Bounded(T)
  /\ Distinct(T)

\* No container lacks a child and no leaf a window.
Whole(T) ==
  \A p \in DOMAIN T :
    IF IsLeaf(T, p) THEN T[p].toplevel # None ELSE p \o <<2>> \in DOMAIN T

\* Everything is below the root.
LEMMA BelowRoot ==
  ASSUME NEW T, DOMAIN T \subseteq Pos
  PROVE  /\ Below(T, Root) = DOMAIN T
         /\ Leaves(T, Root) = {p \in DOMAIN T : IsLeaf(T, p) /\ T[p].toplevel # None}
<1>1. ASSUME NEW p \in DOMAIN T PROVE Ext!IsPrefix(Root, p)
  <2>1. p \in Seq(Side) /\ Len(p) \in Nat
    BY DEF Pos
  <2>2. Len(Root) = 0
    BY DEF Root
  <2>3. SubSeq(Root, 1, 0) = << >> /\ SubSeq(p, 1, 0) = << >>
    BY SubSeqEmpty
  <2>4. QED
    BY <2>1, <2>2, <2>3 DEF Ext!IsPrefix
<1>2. Below(T, Root) = DOMAIN T
  BY <1>1 DEF Below
<1>3. QED
  BY <1>2 DEF Leaves

\* The windows of a tree are those of its leaves.
LEMMA TiledIs ==
  ASSUME NEW T, DOMAIN T \subseteq Pos, NEW tl
  PROVE  /\ tl \in Tiled(T) <=>
              \E p \in DOMAIN T : IsLeaf(T, p) /\ T[p].toplevel = tl /\ tl # None
         /\ Holding(T, tl) =
              {p \in DOMAIN T : IsLeaf(T, p) /\ T[p].toplevel = tl /\ tl # None}
         /\ tl \in Tiled(T) <=> Holding(T, tl) # {}
<1>1. Leaves(T, Root) = {p \in DOMAIN T : IsLeaf(T, p) /\ T[p].toplevel # None}
  BY BelowRoot
<1>2. QED
  BY <1>1 DEF Tiled, Holding

\* The leaf of a window.
LEMMA NodeOfIs ==
  ASSUME NEW T, Shape(T), NEW tl \in Tiled(T)
  PROVE  /\ NodeOf(T, tl) \in DOMAIN T
         /\ IsLeaf(T, NodeOf(T, tl))
         /\ T[NodeOf(T, tl)].toplevel = tl
         /\ tl # None
<1>1. DOMAIN T \subseteq Pos /\ Distinct(T)
  BY DEF Shape
<1>2. PICK p \in DOMAIN T : IsLeaf(T, p) /\ T[p].toplevel = tl /\ tl # None
  BY <1>1, TiledIs
<1>3. Holding(T, tl) = {p}
  BY <1>1, <1>2, TiledIs DEF Distinct
<1>4. NodeOf(T, tl) \in Holding(T, tl)
  BY <1>3 DEF NodeOf
<1>5. QED
  BY <1>2, <1>3, <1>4

\* Windows are toplevels.
LEMMA TiledType ==
  ASSUME NEW T, Shape(T)
  PROVE  Tiled(T) \subseteq Toplevels
<1>1. ASSUME NEW tl \in Tiled(T) PROVE tl \in Toplevels
  <2>1. PICK p \in DOMAIN T : T[p].toplevel = tl /\ tl # None
    BY TiledIs DEF Shape
  <2>2. T[p] \in Node
    BY <2>1 DEF Shape, GoodNode
  <2>3. QED
    BY <2>1, <2>2 DEF Node
<1>2. QED
  BY <1>1

\* The tree without a root.
LEMMA NoTreeGood == Shape(NoTree) /\ Whole(NoTree) /\ Tiled(NoTree) = {}
<1>1. DOMAIN NoTree = {}
  BY DEF NoTree
<1>2. Shape(NoTree)
  <2>1. NoTree \in [{} -> GoodNode]
    BY DEF NoTree
  <2>2. Bounded(NoTree)
    <3>1. 0 \in Nat
      OBVIOUS
    <3>2. QED
      BY <1>1, <3>1 DEF Bounded
  <2>3. QED
    BY <1>1, <2>1, <2>2 DEF Shape, Rooted, Based, Distinct
<1>3. Tiled(NoTree) = {}
  BY <1>1 DEF Tiled, Leaves, Below
<1>4. QED
  BY <1>1, <1>2, <1>3 DEF Whole

\* Any other has one.
LEMMA HasRoot ==
  ASSUME NEW T, Shape(T), T # NoTree
  PROVE  Root \in DOMAIN T
<1>1. DOMAIN T \subseteq Pos /\ T \in [DOMAIN T -> GoodNode] /\ Rooted(T)
  BY DEF Shape
<1>2. DOMAIN T # {}
  <2>1. SUFFICES ASSUME DOMAIN T = {} PROVE FALSE
    OBVIOUS
  <2>2. T \in [{} -> GoodNode]
    BY <1>1, <2>1
  <2>3. T = << >>
    BY <2>2
  <2>4. QED
    BY <2>3 DEF NoTree
<1> DEFINE lengths == {Len(p) : p \in DOMAIN T}
<1>3. PICK m \in lengths : \A k \in lengths : m <= k
  <2>1. lengths \subseteq Nat /\ lengths # {}
    <3>1. \A p \in DOMAIN T : Len(p) \in Nat
      BY <1>1 DEF Pos
    <3>2. QED
      BY <1>2, <3>1
  <2> HIDE DEF lengths
  <2>2. QED
    BY <2>1, Least
<1>4. PICK p \in DOMAIN T : Len(p) = m
  BY <1>3
<1>5. CASE p # Root
  <2>1. PICK q \in DOMAIN T, c \in Side : p = q \o <<c>>
    BY <1>1, <1>4, <1>5 DEF Rooted
  <2>2. Len(p) = Len(q) + 1 /\ Len(q) \in Nat
    BY <1>1, <2>1, ChildPos DEF Pos
  <2>3. m <= Len(q)
    BY <1>3
  <2>4. QED
    BY <1>4, <2>2, <2>3
<1>6. QED
  BY <1>4, <1>5

\* A leaf has no children.
LEMMA LeafEnds ==
  ASSUME NEW T, Shape(T), NEW p \in DOMAIN T, NEW c \in Side, p \o <<c>> \in DOMAIN T
  PROVE  ~IsLeaf(T, p)
<1>1. p \in Pos /\ DOMAIN T \subseteq Pos
  BY DEF Shape
<1>2. p \o <<c>> # Root
  BY <1>1, ChildPos
<1>3. PICK q \in DOMAIN T, d \in Side : ~IsLeaf(T, q) /\ p \o <<c>> = q \o <<d>>
  BY <1>2 DEF Shape, Rooted
<1>4. p = q
  BY <1>1, <1>3, SameChild
<1>5. QED
  BY <1>3, <1>4

\* The parent of a node is a container.
LEMMA ParentIs ==
  ASSUME NEW T, Shape(T), NEW p \in DOMAIN T, p # Root
  PROVE  /\ Parent(p) \in DOMAIN T
         /\ ~IsLeaf(T, Parent(p))
         /\ Ext!Last(p) \in Side
         /\ p = Parent(p) \o <<Ext!Last(p)>>
<1>1. PICK q \in DOMAIN T, c \in Side : ~IsLeaf(T, q) /\ p = q \o <<c>>
  BY DEF Shape, Rooted
<1>2. q \in Pos
  BY DEF Shape
<1>3. Parent(p) = q /\ Ext!Last(p) = c
  BY <1>1, <1>2, ChildPos
<1>4. QED
  BY <1>1, <1>3

\* Induction from the leaves to the root, the property given by the set of the
\* positions that have it.
LEMMA TreeInduction ==
  ASSUME NEW T, Shape(T), NEW S,
         \A p \in DOMAIN T :
           (\A c \in Side : p \o <<c>> \in DOMAIN T => p \o <<c>> \in S) => p \in S
  PROVE  DOMAIN T \subseteq S
<1>1. DOMAIN T \subseteq Pos /\ Bounded(T)
  BY DEF Shape
<1>2. PICK n \in Nat : \A p \in DOMAIN T : Len(p) <= n
  BY <1>1 DEF Bounded
<1>3. SUFFICES ASSUME NEW o \in DOMAIN T, o \notin S PROVE FALSE
  OBVIOUS
<1> DEFINE Out == {p \in DOMAIN T : p \notin S}
           heights == {n - Len(p) : p \in Out}
<1>4. \A p \in DOMAIN T : Len(p) \in Nat /\ n - Len(p) \in Nat
  BY <1>1, <1>2 DEF Pos
<1>5. PICK m \in heights : \A k \in heights : m <= k
  <2>1. heights \subseteq Nat /\ heights # {}
    <3>1. \A h \in heights : h \in Nat
      BY <1>4
    <3>2. n - Len(o) \in heights
      BY <1>3
    <3>3. QED
      BY <3>1, <3>2
  <2> HIDE DEF heights
  <2>2. QED
    BY <2>1, Least
<1>6. PICK p \in Out : m = n - Len(p)
  BY <1>5
<1>7. ASSUME NEW c \in Side, p \o <<c>> \in DOMAIN T, p \o <<c>> \notin S
      PROVE  FALSE
  <2>1. Len(p \o <<c>>) = Len(p) + 1
    BY <1>1, <1>6, ChildPos
  <2>2. n - Len(p \o <<c>>) \in heights
    BY <1>7
  <2>3. m <= n - Len(p \o <<c>>)
    BY <1>5, <2>2
  <2>4. QED
    BY <1>4, <1>6, <2>1, <2>3
<1>8. QED
  BY <1>6, <1>7

-----------------------------------------------------------------------------
(* Trees of one node, and a leaf that is split *)

\* The nodes the methods make.
LEMMA NewNodes ==
  /\ \A tl \in Toplevels \cup {None} :
       /\ Leaf(tl) \in GoodNode
       /\ Leaf(tl).split = "none"
       /\ Leaf(tl).toplevel = tl
  /\ \A split \in {"horizontal", "vertical"}, r \in Int \X Int,
        g \in [x : Int, y : Int, width : Int, height : Int] :
       0 < r[1] /\ r[1] < r[2] =>
         /\ [Container(split, r) EXCEPT !.geometry = g] \in GoodNode
         /\ [Container(split, r) EXCEPT !.geometry = g].split = split
         /\ Container(split, r) \in GoodNode
         /\ Container(split, r).split = split
  /\ Half \in Int \X Int /\ 0 < Half[1] /\ Half[1] < Half[2]
<1>1. Half \in Int \X Int /\ 0 < Half[1] /\ Half[1] < Half[2]
  BY DEF Half
<1>2. NoBox \in [x : Int, y : Int, width : Int, height : Int]
  BY DEF NoBox
<1>3. ASSUME NEW tl \in Toplevels \cup {None}
      PROVE  /\ Leaf(tl) \in GoodNode
             /\ Leaf(tl).split = "none"
             /\ Leaf(tl).toplevel = tl
  BY <1>1, <1>2 DEF Leaf, GoodNode, Node
<1>4. ASSUME NEW split \in {"horizontal", "vertical"}, NEW r \in Int \X Int,
             NEW g \in [x : Int, y : Int, width : Int, height : Int],
             0 < r[1], r[1] < r[2]
      PROVE  /\ [Container(split, r) EXCEPT !.geometry = g] \in GoodNode
             /\ [Container(split, r) EXCEPT !.geometry = g].split = split
             /\ Container(split, r) \in GoodNode
             /\ Container(split, r).split = split
  BY <1>2, <1>4 DEF Container, GoodNode, Node
<1>5. QED
  BY <1>1, <1>3, <1>4

\* A tree of one leaf.
LEMMA SingleGood ==
  ASSUME NEW tl \in Toplevels
  PROVE  /\ Shape(Single(tl)) /\ Whole(Single(tl))
         /\ Tiled(Single(tl)) = {tl}
         /\ Single(tl) # NoTree
<1> DEFINE T == Single(tl)
<1>1. /\ DOMAIN T = {Root} /\ T \in [DOMAIN T -> GoodNode]
      /\ IsLeaf(T, Root) /\ T[Root].toplevel = tl /\ tl # None
  BY NewNodes, BSPAssumption DEF Single, IsLeaf
<1> HIDE DEF T
<1>2. Root \in Pos /\ Len(Root) = 0
  BY DEF Root, Pos
<1>3. Bounded(T)
  <2>1. 0 \in Nat /\ \A p \in DOMAIN T : Len(p) <= 0
    BY <1>1, <1>2
  <2>2. QED
    BY <2>1 DEF Bounded
<1>4. Shape(T)
  BY <1>1, <1>2, <1>3 DEF Shape, Rooted, Based, Distinct
<1>5. Whole(T)
  BY <1>1 DEF Whole
<1>6. Tiled(T) = {tl}
  <2>1. \A u : u \in Tiled(T) <=>
          \E p \in DOMAIN T : IsLeaf(T, p) /\ T[p].toplevel = u /\ u # None
    BY <1>1, <1>2, TiledIs
  <2>2. QED
    BY <1>1, <2>1
<1>7. T # NoTree
  BY <1>1 DEF NoTree
<1>8. QED
  BY <1>4, <1>5, <1>6, <1>7 DEF T

\* A leaf that is split is a container of two.
LEMMA SplitGood ==
  ASSUME NEW T, Shape(T), NEW p \in DOMAIN T, IsLeaf(T, p),
         NEW tl \in Toplevels, tl \notin Tiled(T),
         NEW split \in {"horizontal", "vertical"}
  PROVE  /\ Shape(SplitLeaf(T, p, tl, split))
         /\ Whole(T) => Whole(SplitLeaf(T, p, tl, split))
         /\ Tiled(SplitLeaf(T, p, tl, split)) = Tiled(T) \cup {tl}
         /\ SplitLeaf(T, p, tl, split) # NoTree
<1> DEFINE a == p \o <<1>>
           b == p \o <<2>>
           U == SplitLeaf(T, p, tl, split)
<1>1. DOMAIN T \subseteq Pos /\ T \in [DOMAIN T -> GoodNode] /\ p \in Pos
  BY DEF Shape
<1>2. 1 \in Side /\ 2 \in Side
  BY DEF Side
<1>3. /\ a \in Pos /\ b \in Pos /\ a # Root /\ b # Root
      /\ Len(a) = Len(p) + 1 /\ Len(b) = Len(p) + 1
  BY <1>1, <1>2, ChildPos
<1>4. a \notin DOMAIN T /\ b \notin DOMAIN T
  BY <1>2, LeafEnds
<1>5. a # b /\ a # p /\ b # p
  <2>1. a # b
    BY <1>1, <1>2, SameChild
  <2>2. QED
    BY <1>4, <2>1
<1>6. tl # None /\ tl \in Toplevels \cup {None}
  BY BSPAssumption
<1>7. T[p] \in Node
  BY <1>1 DEF GoodNode
<1>8. /\ T[p].toplevel \in Toplevels \cup {None}
      /\ T[p].geometry \in [x : Int, y : Int, width : Int, height : Int]
  BY <1>7 DEF Node
<1>9. /\ DOMAIN U = DOMAIN T \cup {a, b}
      /\ U[p] = [Container(split, Half) EXCEPT !.geometry = T[p].geometry]
      /\ U[a] = Leaf(T[p].toplevel)
      /\ U[b] = Leaf(tl)
      /\ \A q \in DOMAIN T \ {p} : U[q] = T[q]
      /\ U = [q \in DOMAIN U |-> U[q]]
  BY <1>4, <1>5 DEF SplitLeaf
<1> HIDE DEF U, a, b
<1>10. /\ U[p] \in GoodNode /\ U[p].split = split
       /\ U[a] \in GoodNode /\ U[a].split = "none" /\ U[a].toplevel = T[p].toplevel
       /\ U[b] \in GoodNode /\ U[b].split = "none" /\ U[b].toplevel = tl
  <2>1. U[p] \in GoodNode /\ U[p].split = split
    <3>1. Half \in Int \X Int /\ 0 < Half[1] /\ Half[1] < Half[2]
      BY NewNodes
    <3>2. QED
      BY <1>8, <1>9, <3>1, NewNodes
  <2>2. /\ U[a] \in GoodNode /\ U[a].split = "none" /\ U[a].toplevel = T[p].toplevel
    BY <1>8, <1>9, NewNodes
  <2>3. U[b] \in GoodNode /\ U[b].split = "none" /\ U[b].toplevel = tl
    BY <1>6, <1>9, NewNodes
  <2>4. QED
    BY <2>1, <2>2, <2>3
<1>11. /\ ~IsLeaf(U, p) /\ IsLeaf(U, a) /\ IsLeaf(U, b)
       /\ \A q \in DOMAIN T \ {p} : IsLeaf(U, q) <=> IsLeaf(T, q)
  BY <1>9, <1>10 DEF IsLeaf
<1>12. U \in [DOMAIN U -> GoodNode]
  <2>1. \A q \in DOMAIN U : U[q] \in GoodNode
    BY <1>1, <1>9, <1>10
  <2>2. QED
    BY <1>9, <2>1
<1>13. DOMAIN U \subseteq Pos
  BY <1>1, <1>3, <1>9
<1>14. Rooted(U)
  <2>1. ASSUME NEW q \in DOMAIN U, q # Root
        PROVE  \E r \in DOMAIN U, c \in Side : ~IsLeaf(U, r) /\ q = r \o <<c>>
    <3>1. CASE q \in {a, b}
      BY <1>2, <1>9, <1>11, <3>1 DEF a, b
    <3>2. CASE q \in DOMAIN T
      <4>1. PICK r \in DOMAIN T, c \in Side : ~IsLeaf(T, r) /\ q = r \o <<c>>
        BY <2>1, <3>2 DEF Shape, Rooted
      <4>2. r \in DOMAIN U /\ ~IsLeaf(U, r)
        BY <1>9, <1>11, <4>1
      <4>3. QED
        BY <4>1, <4>2
    <3>3. QED
      BY <1>9, <3>1, <3>2
  <2>2. QED
    BY <2>1 DEF Rooted
<1>15. Based(U)
  <2>1. ASSUME NEW q \in DOMAIN U, ~IsLeaf(U, q) PROVE q \o <<1>> \in DOMAIN U
    <3>1. CASE q = p
      BY <1>9, <3>1 DEF a
    <3>2. CASE q \in DOMAIN T \ {p}
      BY <1>9, <1>11, <2>1, <3>2 DEF Shape, Based
    <3>3. QED
      BY <1>9, <1>11, <2>1, <3>1, <3>2
  <2>2. QED
    BY <2>1 DEF Based
<1>16. Bounded(U)
  <2>1. PICK n \in Nat : \A q \in DOMAIN T : Len(q) <= n
    BY DEF Shape, Bounded
  <2>2. \A q \in DOMAIN T : Len(q) \in Nat
    BY <1>1 DEF Pos
  <2>3. n + 1 \in Nat /\ \A q \in DOMAIN U : Len(q) <= n + 1
    BY <1>3, <1>9, <2>1, <2>2
  <2>4. QED
    BY <2>3 DEF Bounded
<1>17. \A q \in DOMAIN T : IsLeaf(T, q) => T[q].toplevel # tl
  BY <1>1, <1>6, TiledIs
<1>18. Distinct(U)
  <2>1. \A q, r \in DOMAIN T :
          /\ IsLeaf(T, q) /\ IsLeaf(T, r)
          /\ T[q].toplevel # None /\ T[q].toplevel = T[r].toplevel
          => q = r
    BY DEF Shape, Distinct
  <2>2. QED
    BY <1>9, <1>10, <1>11, <1>17, <2>1 DEF Distinct
<1>19. Shape(U)
  BY <1>12, <1>13, <1>14, <1>15, <1>16, <1>18 DEF Shape
<1>20. Whole(T) => Whole(U)
  <2>1. ASSUME Whole(T), NEW q \in DOMAIN U
        PROVE  IF IsLeaf(U, q) THEN U[q].toplevel # None ELSE q \o <<2>> \in DOMAIN U
    <3>1. CASE q = p
      BY <1>9, <1>11, <3>1 DEF b
    <3>2. CASE q = a
      BY <1>10, <1>11, <2>1, <3>2 DEF Whole
    <3>3. CASE q = b
      BY <1>6, <1>10, <1>11, <3>3
    <3>4. CASE q \in DOMAIN T \ {p}
      BY <1>9, <1>11, <2>1, <3>4 DEF Whole
    <3>5. QED
      BY <1>9, <3>1, <3>2, <3>3, <3>4
  <2>2. QED
    BY <2>1 DEF Whole
<1>21. Tiled(U) = Tiled(T) \cup {tl}
  <2>1. \A u : u \in Tiled(U) <=>
          \E q \in DOMAIN U : IsLeaf(U, q) /\ U[q].toplevel = u /\ u # None
    BY <1>13, TiledIs
  <2>2. \A u : u \in Tiled(T) <=>
          \E q \in DOMAIN T : IsLeaf(T, q) /\ T[q].toplevel = u /\ u # None
    BY <1>1, TiledIs
  <2>3. ASSUME NEW u \in Tiled(U) PROVE u \in Tiled(T) \cup {tl}
    <3>1. PICK q \in DOMAIN U : IsLeaf(U, q) /\ U[q].toplevel = u /\ u # None
      BY <2>1
    <3>2. QED
      BY <1>9, <1>10, <1>11, <2>2, <3>1
  <2>4. ASSUME NEW u \in Tiled(T) PROVE u \in Tiled(U)
    <3>1. PICK q \in DOMAIN T : IsLeaf(T, q) /\ T[q].toplevel = u /\ u # None
      BY <2>2
    <3>2. CASE q = p
      BY <1>9, <1>10, <1>11, <2>1, <3>1, <3>2
    <3>3. CASE q # p
      BY <1>9, <1>11, <2>1, <3>1, <3>3
    <3>4. QED
      BY <3>2, <3>3
  <2>5. tl \in Tiled(U)
    BY <1>6, <1>9, <1>10, <1>11, <2>1
  <2>6. QED
    BY <2>3, <2>4, <2>5
<1>22. U # NoTree
  BY <1>9 DEF NoTree
<1>23. QED
  BY <1>19, <1>20, <1>21, <1>22 DEF U

-----------------------------------------------------------------------------
(* Recursion over a tree *)

\* The value for a child, d for a missing one.
Kid(f, T, p, c, d) == IF p \o <<c>> \in DOMAIN T THEN f[p \o <<c>>] ELSE d

\* f has the value a[p] at a leaf, and G[p] of the values for its children at a
\* container.
Combines(f, T, p, a, G, d) ==
  f[p] = IF IsLeaf(T, p) THEN a[p]
         ELSE G[p][<<Kid(f, T, p, 1, d), Kid(f, T, p, 2, d)>>]

\* Such a function exists.
LEMMA TreeRecursion ==
  ASSUME NEW T, Shape(T), NEW V, NEW d \in V, NEW a \in [DOMAIN T -> V],
         NEW G \in [DOMAIN T -> [V \X V -> V]]
  PROVE  \E f \in [DOMAIN T -> V] : \A p \in DOMAIN T : Combines(f, T, p, a, G, d)
<1>1. DOMAIN T \subseteq Pos
  BY DEF Shape
<1>2. PICK n \in Nat : \A p \in DOMAIN T : Len(p) <= n
  BY DEF Shape, Bounded
<1>3. \A p \in DOMAIN T : Len(p) \in Nat
  BY <1>1 DEF Pos
<1> DEFINE Solves(f, k) == \A p \in DOMAIN T : Len(p) > n - k => Combines(f, T, p, a, G, d)
           Solved == {k \in 0 .. n + 1 : \E f \in [DOMAIN T -> V] : Solves(f, k)}
<1>4. 0 \in Solved
  <2>1. [p \in DOMAIN T |-> d] \in [DOMAIN T -> V]
    OBVIOUS
  <2>2. \A p \in DOMAIN T : ~(Len(p) > n - 0)
    BY <1>2, <1>3
  <2>3. QED
    BY <2>1, <2>2
<1>5. ASSUME NEW k \in 0 .. n + 1, k # 0, k - 1 \in Solved PROVE k \in Solved
  <2>1. PICK f \in [DOMAIN T -> V] : Solves(f, k - 1)
    BY <1>5
  <2> DEFINE value(p) == IF IsLeaf(T, p) THEN a[p]
                         ELSE G[p][<<Kid(f, T, p, 1, d), Kid(f, T, p, 2, d)>>]
             g == [p \in DOMAIN T |-> IF Len(p) = n - k + 1 THEN value(p) ELSE f[p]]
  <2>2. \A p \in DOMAIN T : value(p) \in V
    <3>1. ASSUME NEW p \in DOMAIN T, NEW c \in Side PROVE Kid(f, T, p, c, d) \in V
      BY DEF Kid
    <3>2. \A p \in DOMAIN T : Kid(f, T, p, 1, d) \in V /\ Kid(f, T, p, 2, d) \in V
      BY <3>1 DEF Side
    <3>3. QED
      BY <3>2
  <2>3. g \in [DOMAIN T -> V]
    <3> HIDE DEF value
    <3>1. QED
      BY <2>2
  <2>4. ASSUME NEW p \in DOMAIN T, Len(p) > n - k PROVE Combines(g, T, p, a, G, d)
    <3>1. ASSUME NEW c \in Side PROVE Kid(g, T, p, c, d) = Kid(f, T, p, c, d)
      <4>1. Len(p \o <<c>>) = Len(p) + 1
        BY <1>1, ChildPos
      <4>2. Len(p \o <<c>>) # n - k + 1
        BY <1>3, <2>4, <4>1
      <4> HIDE DEF value
      <4>3. QED
        BY <4>2 DEF Kid
    <3>2. Kid(g, T, p, 1, d) = Kid(f, T, p, 1, d) /\ Kid(g, T, p, 2, d) = Kid(f, T, p, 2, d)
      BY <3>1 DEF Side
    <3>3. g[p] = value(p)
      <4>1. CASE Len(p) = n - k + 1
        <5> HIDE DEF value
        <5>1. QED
          BY <4>1
      <4>2. CASE Len(p) # n - k + 1
        <5>1. Len(p) > n - (k - 1)
          BY <1>3, <2>4, <4>2
        <5>2. f[p] = value(p)
          BY <2>1, <5>1 DEF Combines
        <5> HIDE DEF value
        <5>3. QED
          BY <4>2, <5>2
      <4>3. QED
        BY <4>1, <4>2
    <3> HIDE DEF g
    <3>4. QED
      BY <3>2, <3>3 DEF Combines
  <2> HIDE DEF g
  <2>5. QED
    BY <2>3, <2>4
<1>6. 0 .. n + 1 \subseteq Solved
  <2>1. n + 1 \in Nat
    OBVIOUS
  <2> HIDE DEF Solved
  <2>2. QED
    BY <1>4, <1>5, <2>1, UpTo
<1>7. PICK f \in [DOMAIN T -> V] : Solves(f, n + 1)
  <2>1. n + 1 \in 0 .. n + 1
    OBVIOUS
  <2> HIDE DEF Solves
  <2>2. QED
    BY <1>6, <2>1
<1>8. \A p \in DOMAIN T : Len(p) > n - (n + 1)
  BY <1>3
<1>9. QED
  BY <1>7, <1>8

-----------------------------------------------------------------------------
(* Insertion *)

\* The recursion of InsertionPoint has a solution.
LEMMA InsertionRecursion ==
  ASSUME NEW T, Shape(T)
  PROVE  \E from : /\ from = [p \in DOMAIN T |->
                               IF IsLeaf(T, p) THEN p ELSE from[LighterSide(T, p)]]
                   /\ InsertionPoint(T) = from[Root]
<1> DEFINE V == Pos
           a == [p \in DOMAIN T |-> p]
           G == [p \in DOMAIN T |->
                  [w \in V \X V |-> IF LighterSide(T, p) = p \o <<1>> THEN w[1] ELSE w[2]]]
           Solves(f) == f = [p \in DOMAIN T |->
                              IF IsLeaf(T, p) THEN p ELSE f[LighterSide(T, p)]]
<1>1. a \in [DOMAIN T -> V] /\ G \in [DOMAIN T -> [V \X V -> V]] /\ Root \in V
  BY DEF Shape, Root, Pos
<1>2. PICK f \in [DOMAIN T -> V] : \A p \in DOMAIN T : Combines(f, T, p, a, G, Root)
  <2> HIDE DEF a, G, V
  <2>1. QED
    BY <1>1, TreeRecursion
<1>3. ASSUME NEW p \in DOMAIN T
      PROVE  f[p] = IF IsLeaf(T, p) THEN p ELSE f[LighterSide(T, p)]
  <2>1. CASE IsLeaf(T, p)
    BY <1>2, <2>1 DEF Combines
  <2>2. CASE ~IsLeaf(T, p)
    <3>1. p \o <<1>> \in DOMAIN T
      BY <2>2 DEF Shape, Based
    <3>2. p \o <<1>> # p \o <<2>>
      <4>1. p \in Pos /\ 1 \in Side /\ 2 \in Side
        BY DEF Shape, Side
      <4>2. QED
        BY <4>1, SameChild
    <3>3. /\ Kid(f, T, p, 1, Root) = f[p \o <<1>>]
          /\ Kid(f, T, p, 1, Root) \in V /\ Kid(f, T, p, 2, Root) \in V
      BY <1>1, <3>1 DEF Kid
    <3>4. f[p] = IF LighterSide(T, p) = p \o <<1>> THEN Kid(f, T, p, 1, Root)
                 ELSE Kid(f, T, p, 2, Root)
      BY <1>2, <2>2, <3>3 DEF Combines
    <3>5. \/ LighterSide(T, p) = p \o <<1>>
          \/ LighterSide(T, p) = p \o <<2>> /\ p \o <<2>> \in DOMAIN T
      BY DEF LighterSide
    <3>6. QED
      BY <2>2, <3>2, <3>3, <3>4, <3>5 DEF Kid
  <2>3. QED
    BY <2>1, <2>2
<1>4. Solves(f)
  BY <1>3
<1>5. Solves(CHOOSE g : Solves(g))
  <2> HIDE DEF Solves
  <2>1. QED
    BY <1>4
<1>6. InsertionPoint(T) = (CHOOSE g : Solves(g))[Root]
  BY DEF InsertionPoint
<1>7. QED
  BY <1>5, <1>6

\* find_insertion_point ends at a leaf.
LEMMA InsertionPointIs ==
  ASSUME NEW T, Shape(T), T # NoTree
  PROVE  InsertionPoint(T) \in DOMAIN T /\ IsLeaf(T, InsertionPoint(T))
<1>1. PICK from : /\ from = [p \in DOMAIN T |->
                              IF IsLeaf(T, p) THEN p ELSE from[LighterSide(T, p)]]
                  /\ InsertionPoint(T) = from[Root]
  BY InsertionRecursion
<1> DEFINE S == {p \in DOMAIN T : from[p] \in DOMAIN T /\ IsLeaf(T, from[p])}
<1>2. ASSUME NEW p \in DOMAIN T,
             \A c \in Side : p \o <<c>> \in DOMAIN T => p \o <<c>> \in S
      PROVE  p \in S
  <2>1. from[p] = IF IsLeaf(T, p) THEN p ELSE from[LighterSide(T, p)]
    BY <1>1
  <2>2. CASE IsLeaf(T, p)
    BY <2>1, <2>2
  <2>3. CASE ~IsLeaf(T, p)
    <3>1. p \o <<1>> \in DOMAIN T
      BY <2>3 DEF Shape, Based
    <3>2. \E c \in Side : LighterSide(T, p) = p \o <<c>> /\ p \o <<c>> \in DOMAIN T
      BY <3>1 DEF LighterSide, Side
    <3>3. QED
      BY <1>2, <2>1, <2>3, <3>2
  <2>4. QED
    BY <2>2, <2>3
<1>3. DOMAIN T \subseteq S
  <2> HIDE DEF S
  <2>1. QED
    BY <1>2, TreeInduction
<1>4. QED
  BY <1>1, <1>3, HasRoot

\* insert
LEMMA InsertGood ==
  ASSUME NEW T, Shape(T), NEW tl \in Toplevels, tl \notin Tiled(T)
  PROVE  /\ Shape(Insert(T, tl))
         /\ Whole(T) => Whole(Insert(T, tl))
         /\ Tiled(Insert(T, tl)) = Tiled(T) \cup {tl}
         /\ Insert(T, tl) # NoTree
<1>1. CASE T = NoTree
  BY <1>1, SingleGood, NoTreeGood DEF Insert
<1>2. CASE T # NoTree
  <2> DEFINE p == InsertionPoint(T)
  <2>1. p \in DOMAIN T /\ IsLeaf(T, p)
    BY <1>2, InsertionPointIs
  <2>2. SplitType(p) \in {"horizontal", "vertical"}
    BY DEF SplitType
  <2>3. Insert(T, tl) = SplitLeaf(T, p, tl, SplitType(p))
    BY <1>2 DEF Insert
  <2> HIDE DEF p
  <2>4. QED
    BY <2>1, <2>2, <2>3, SplitGood
<1>3. QED
  BY <1>1, <1>2

\* insert_at, with the toplevel itself as the target, is insert.
LEMMA InsertAtGood ==
  ASSUME NEW T, Shape(T), NEW tl \in Toplevels, tl \notin Tiled(T)
  PROVE  InsertAt(T, tl, tl) = Insert(T, tl)
<1>1. Holding(T, tl) = {}
  BY TiledIs DEF Shape
<1>2. QED
  BY <1>1 DEF InsertAt

-----------------------------------------------------------------------------
(* Two trees under one root *)

\* A position below a child of the root.
LEMMA UnderPos ==
  ASSUME NEW c \in Side, NEW q \in Pos
  PROVE  /\ <<c>> \o q \in Pos
         /\ Len(<<c>> \o q) = Len(q) + 1
         /\ <<c>> \o q # Root
         /\ Head(<<c>> \o q) = c
         /\ Tail(<<c>> \o q) = q
         /\ \A e \in Side : (<<c>> \o q) \o <<e>> = <<c>> \o (q \o <<e>>)
<1> DEFINE h == <<c>>
           r == h \o q
<1>1. h \in Seq(Side) /\ q \in Seq(Side) /\ Len(h) = 1 /\ h[1] = c /\ Len(q) \in Nat
  BY DEF Pos
<1>2. /\ r \in Seq(Side)
      /\ Len(r) = 1 + Len(q)
      /\ \A i \in 1 .. 1 + Len(q) : r[i] = IF i <= 1 THEN h[i] ELSE q[i - 1]
  <2> HIDE DEF h
  <2>1. /\ r \in Seq(Side)
        /\ Len(r) = Len(h) + Len(q)
        /\ \A i \in 1 .. Len(h) + Len(q) :
             r[i] = IF i <= Len(h) THEN h[i] ELSE q[i - Len(h)]
    BY <1>1, ConcatProperties
  <2> HIDE DEF r
  <2>2. QED
    BY <1>1, <2>1
<1>3. ASSUME NEW e \in Side PROVE r \o <<e>> = h \o (q \o <<e>>)
  <2>1. <<e>> \in Seq(Side)
    OBVIOUS
  <2> HIDE DEF h
  <2>2. (h \o q) \o <<e>> = h \o (q \o <<e>>)
    <3>1. Associates(h, q, <<e>>)
      BY <1>1, <2>1, ConcatAssociates
    <3>2. QED
      BY <3>1 DEF Associates
  <2>3. QED
    BY <1>1, <2>2
<1> HIDE DEF r
<1>4. r # << >>
  BY <1>1, <1>2
<1>5. Head(r) = c
  BY <1>1, <1>2, <1>4
<1>6. Tail(r) = q
  <2> DEFINE s == Tail(r)
  <2>1. s \in Seq(Side) /\ Len(s) = Len(r) - 1 /\ \A i \in 1 .. Len(s) : s[i] = r[i + 1]
    BY <1>2, <1>4, HeadTailProperties
  <2> HIDE DEF s
  <2>2. ASSUME NEW i \in 1 .. Len(q) PROVE s[i] = q[i]
    <3>1. i + 1 \in 1 .. 1 + Len(q) /\ ~(i + 1 <= 1) /\ i + 1 - 1 = i
      BY <1>1
    <3>2. s[i] = r[i + 1]
      BY <1>1, <1>2, <2>1
    <3>3. QED
      BY <1>2, <3>1, <3>2
  <2>3. s = q
    BY <1>1, <1>2, <2>1, <2>2, SeqEqual
  <2>4. QED
    BY <2>3 DEF s
<1>7. QED
  BY <1>1, <1>2, <1>3, <1>4, <1>5, <1>6 DEF r, Pos, Root

\* A child of the root is below itself.
LEMMA TopPos ==
  ASSUME NEW c \in Side
  PROVE  <<c>> \o Root = <<c>> /\ Root \o <<c>> = <<c>> /\ Root \in Pos
<1>1. <<c>> \in Seq(Side)
  OBVIOUS
<1>2. QED
  BY <1>1, ConcatEmptySeq DEF Root, Pos

\* A container over two trees that have no window in common.
LEMMA JoinGood ==
  ASSUME NEW node \in GoodNode, node.split # "none",
         NEW T1, Shape(T1), T1 # NoTree, NEW T2, Shape(T2), T2 # NoTree,
         Tiled(T1) \cap Tiled(T2) = {}
  PROVE  /\ Shape(Join(node, T1, T2))
         /\ Whole(T1) /\ Whole(T2) => Whole(Join(node, T1, T2))
         /\ Tiled(Join(node, T1, T2)) = Tiled(T1) \cup Tiled(T2)
         /\ Join(node, T1, T2) # NoTree
<1> DEFINE K == [c \in Side |-> IF c = 1 THEN T1 ELSE T2]
           U == Join(node, T1, T2)
           at(c, q) == <<c>> \o q
<1>1. /\ 1 \in Side /\ 2 \in Side /\ K[1] = T1 /\ K[2] = T2
      /\ \A c \in Side : Shape(K[c]) /\ Root \in DOMAIN K[c]
  <2>1. Root \in DOMAIN T1 /\ Root \in DOMAIN T2
    BY HasRoot
  <2>2. QED
    BY <2>1 DEF Side
<1>2. \A c \in Side : DOMAIN K[c] \subseteq Pos /\ K[c] \in [DOMAIN K[c] -> GoodNode]
  <2> HIDE DEF K
  <2>1. QED
    BY <1>1 DEF Shape
<1>3. ASSUME NEW c \in Side, NEW q \in DOMAIN K[c]
      PROVE  /\ at(c, q) \in Pos /\ Len(at(c, q)) = Len(q) + 1 /\ at(c, q) # Root
             /\ Head(at(c, q)) = c /\ Tail(at(c, q)) = q
             /\ \A e \in Side : at(c, q) \o <<e>> = at(c, q \o <<e>>)
  <2> HIDE DEF K
  <2>1. q \in Pos
    BY <1>2
  <2>2. QED
    BY <2>1, UnderPos
<1>4. \A x : x \in DOMAIN U <=> x = Root \/ \E c \in Side : \E q \in DOMAIN K[c] : x = at(c, q)
  BY DEF Join, Side
<1>5. U[Root] = node
  BY DEF Join
<1>6. ASSUME NEW c \in Side, NEW q \in DOMAIN K[c]
      PROVE  U[at(c, q)] = K[c][q]
  <2>1. at(c, q) \in DOMAIN U
    BY <1>4
  <2>2. at(c, q) # Root /\ Head(at(c, q)) = c /\ Tail(at(c, q)) = q
    BY <1>3
  <2> HIDE DEF at
  <2>3. QED
    BY <2>1, <2>2 DEF Join, Side
<1>7. U = [x \in DOMAIN U |-> U[x]]
  BY DEF Join
<1> HIDE DEF U, K
<1>8. \A c \in Side : \A q \in DOMAIN K[c] : IsLeaf(U, at(c, q)) <=> IsLeaf(K[c], q)
  BY <1>6 DEF IsLeaf
<1>9. Root \in DOMAIN U /\ ~IsLeaf(U, Root)
  BY <1>4, <1>5 DEF IsLeaf
<1>10. \A c \in Side : \A q \in DOMAIN K[c] : at(c, q) \in DOMAIN U
  BY <1>4
<1>11. \A c \in Side : at(c, Root) = Root \o <<c>> /\ at(c, Root) \in DOMAIN U
  BY <1>1, <1>10, TopPos
<1> HIDE DEF at
<1>12. DOMAIN U \subseteq Pos
  <2>1. ASSUME NEW x \in DOMAIN U PROVE x \in Pos
    <3>1. CASE x = Root
      BY <1>1, <3>1, TopPos
    <3>2. CASE x # Root
      BY <1>3, <1>4, <3>2
    <3>3. QED
      BY <3>1, <3>2
  <2>2. QED
    BY <2>1
<1>13. U \in [DOMAIN U -> GoodNode]
  <2>1. ASSUME NEW x \in DOMAIN U PROVE U[x] \in GoodNode
    <3>1. CASE x = Root
      BY <1>5, <3>1
    <3>2. ASSUME NEW c \in Side, NEW q \in DOMAIN K[c], x = at(c, q) PROVE U[x] \in GoodNode
      BY <1>2, <1>6, <3>2
    <3>3. QED
      BY <1>4, <3>1, <3>2
  <2>2. QED
    BY <1>7, <2>1
<1>14. Rooted(U)
  <2>1. ASSUME NEW c \in Side, NEW q \in DOMAIN K[c]
        PROVE  \E r \in DOMAIN U, e \in Side : ~IsLeaf(U, r) /\ at(c, q) = r \o <<e>>
    <3>1. CASE q = Root
      BY <1>9, <1>11, <3>1
    <3>2. CASE q # Root
      <4>1. PICK s \in DOMAIN K[c], e \in Side : ~IsLeaf(K[c], s) /\ q = s \o <<e>>
        <5>1. Rooted(K[c])
          BY <1>1 DEF Shape
        <5>2. QED
          BY <3>2, <5>1 DEF Rooted
      <4>2. at(c, s) \in DOMAIN U /\ ~IsLeaf(U, at(c, s)) /\ at(c, q) = at(c, s) \o <<e>>
        BY <1>3, <1>8, <1>10, <4>1
      <4>3. QED
        BY <4>2
    <3>3. QED
      BY <3>1, <3>2
  <2>2. ASSUME NEW x \in DOMAIN U, x # Root
        PROVE  \E r \in DOMAIN U, e \in Side : ~IsLeaf(U, r) /\ x = r \o <<e>>
    <3>1. PICK c \in Side : \E q \in DOMAIN K[c] : x = at(c, q)
      BY <1>4, <2>2
    <3>2. PICK q \in DOMAIN K[c] : x = at(c, q)
      BY <3>1
    <3>3. QED
      BY <2>1, <3>2
  <2>3. QED
    BY <2>2 DEF Rooted
<1>15. ASSUME NEW c \in Side, NEW q \in DOMAIN K[c], NEW e \in Side, q \o <<e>> \in DOMAIN K[c]
       PROVE  at(c, q) \o <<e>> \in DOMAIN U
  <2>1. at(c, q) \o <<e>> = at(c, q \o <<e>>)
    BY <1>3
  <2>2. at(c, q \o <<e>>) \in DOMAIN U
    BY <1>10, <1>15
  <2>3. QED
    BY <2>1, <2>2
<1>16. Based(U)
  <2>1. ASSUME NEW c \in Side, NEW q \in DOMAIN K[c], ~IsLeaf(U, at(c, q))
        PROVE  at(c, q) \o <<1>> \in DOMAIN U
    BY <1>1, <1>8, <1>15, <2>1 DEF Shape, Based
  <2>2. Root \o <<1>> \in DOMAIN U
    BY <1>1, <1>11
  <2>3. QED
    BY <1>4, <2>1, <2>2 DEF Based
<1>17. Bounded(U)
  <2>1. PICK n1 \in Nat : \A q \in DOMAIN T1 : Len(q) <= n1
    BY <1>1 DEF Shape, Bounded
  <2>2. PICK n2 \in Nat : \A q \in DOMAIN T2 : Len(q) <= n2
    BY <1>1 DEF Shape, Bounded
  <2>3. \A c \in Side : \A q \in DOMAIN K[c] : Len(q) \in Nat /\ Len(q) <= n1 + n2
    <3>1. \A c \in Side : \A q \in DOMAIN K[c] : Len(q) \in Nat
      BY <1>2 DEF Pos
    <3>2. \A q \in DOMAIN T1 : Len(q) <= n1 + n2
      BY <1>1, <2>1, <3>1
    <3>3. \A q \in DOMAIN T2 : Len(q) <= n1 + n2
      BY <1>1, <2>2, <3>1
    <3>4. QED
      BY <1>1, <3>1, <3>2, <3>3 DEF Side
  <2>4. ASSUME NEW x \in DOMAIN U PROVE Len(x) <= n1 + n2 + 1
    <3>1. CASE x = Root
      <4>1. Len(x) = 0
        BY <3>1 DEF Root
      <4>2. QED
        BY <4>1
    <3>2. ASSUME NEW c \in Side, NEW q \in DOMAIN K[c], x = at(c, q)
          PROVE  Len(x) <= n1 + n2 + 1
      <4>1. Len(x) = Len(q) + 1 /\ Len(q) \in Nat /\ Len(q) <= n1 + n2
        BY <1>3, <2>3, <3>2
      <4>2. QED
        BY <4>1
    <3>3. QED
      BY <1>4, <3>1, <3>2
  <2>5. n1 + n2 + 1 \in Nat
    OBVIOUS
  <2>6. QED
    BY <2>4, <2>5 DEF Bounded
<1>18. \A c \in Side : \A u : u \in Tiled(K[c]) <=>
         \E q \in DOMAIN K[c] : IsLeaf(K[c], q) /\ K[c][q].toplevel = u /\ u # None
  BY <1>2, TiledIs
<1>19. Distinct(U)
  <2>1. ASSUME NEW c \in Side, NEW q \in DOMAIN K[c], NEW e \in Side, NEW r \in DOMAIN K[e],
               IsLeaf(K[c], q), IsLeaf(K[e], r), K[c][q].toplevel # None,
               K[c][q].toplevel = K[e][r].toplevel
        PROVE  c = e /\ q = r
    <3>1. K[c][q].toplevel \in Tiled(K[c]) /\ K[c][q].toplevel \in Tiled(K[e])
      BY <1>18, <2>1
    <3>2. c = e
      BY <1>1, <3>1 DEF Side
    <3>3. QED
      BY <1>1, <2>1, <3>2 DEF Shape, Distinct
  <2>2. QED
    BY <1>4, <1>6, <1>8, <1>9, <2>1 DEF Distinct
<1>20. Shape(U)
  BY <1>12, <1>13, <1>14, <1>16, <1>17, <1>19 DEF Shape
<1>21. ASSUME Whole(T1), Whole(T2) PROVE Whole(U)
  <2>1. \A c \in Side : Whole(K[c])
    BY <1>1, <1>21 DEF Side
  <2>2. ASSUME NEW c \in Side, NEW q \in DOMAIN K[c]
        PROVE  IF IsLeaf(U, at(c, q)) THEN U[at(c, q)].toplevel # None
               ELSE at(c, q) \o <<2>> \in DOMAIN U
    <3>1. CASE IsLeaf(U, at(c, q))
      BY <1>6, <1>8, <2>1, <3>1 DEF Whole
    <3>2. CASE ~IsLeaf(U, at(c, q))
      BY <1>1, <1>8, <1>15, <2>1, <3>2 DEF Whole
    <3>3. QED
      BY <3>1, <3>2
  <2>3. Root \o <<2>> \in DOMAIN U
    BY <1>1, <1>11
  <2>4. QED
    BY <1>4, <1>9, <2>2, <2>3 DEF Whole
<1>22. Tiled(U) = Tiled(T1) \cup Tiled(T2)
  <2>1. \A u : u \in Tiled(U) <=>
          \E x \in DOMAIN U : IsLeaf(U, x) /\ U[x].toplevel = u /\ u # None
    BY <1>12, TiledIs
  <2>2. \A u : u \in Tiled(U) <=> \E c \in Side : u \in Tiled(K[c])
    <3>1. ASSUME NEW u \in Tiled(U) PROVE \E c \in Side : u \in Tiled(K[c])
      <4>1. PICK x \in DOMAIN U : IsLeaf(U, x) /\ U[x].toplevel = u /\ u # None
        BY <2>1
      <4>2. PICK c \in Side : \E q \in DOMAIN K[c] : x = at(c, q)
        BY <1>4, <1>9, <4>1
      <4>3. QED
        BY <1>6, <1>8, <1>18, <4>1, <4>2
    <3>2. ASSUME NEW c \in Side, NEW u \in Tiled(K[c]) PROVE u \in Tiled(U)
      <4>1. PICK q \in DOMAIN K[c] : IsLeaf(K[c], q) /\ K[c][q].toplevel = u /\ u # None
        BY <1>18
      <4>2. QED
        BY <1>6, <1>8, <1>10, <2>1, <4>1
    <3>3. QED
      BY <3>1, <3>2
  <2>3. QED
    BY <1>1, <2>2 DEF Side
<1>23. U # NoTree
  BY <1>9 DEF NoTree
<1>24. QED
  BY <1>20, <1>21, <1>22, <1>23 DEF U

-----------------------------------------------------------------------------
(* Rebuilding *)

\* The windows i+1 .. j of a list.
Names(s, i, j) == {s[k] : k \in i + 1 .. j}

\* Two parts of a list without repetitions have nothing in common.
LEMMA NamesSplit ==
  ASSUME NEW s \in Seq(Toplevels), IsInjective(s),
         NEW i \in Nat, NEW m \in Nat, NEW j \in Nat, i <= m, m <= j, j <= Len(s)
  PROVE  /\ Names(s, i, m) \cup Names(s, m, j) = Names(s, i, j)
         /\ Names(s, i, m) \cap Names(s, m, j) = {}
         /\ Names(s, i, j) \subseteq Toplevels
<1>1. Len(s) \in Nat /\ DOMAIN s = 1 .. Len(s)
  OBVIOUS
<1>2. Names(s, i, m) \cup Names(s, m, j) = Names(s, i, j)
  <2>1. (i + 1 .. m) \cup (m + 1 .. j) = i + 1 .. j
    OBVIOUS
  <2>2. QED
    BY <2>1 DEF Names
<1>3. ASSUME NEW k \in i + 1 .. m, NEW l \in m + 1 .. j, s[k] = s[l] PROVE FALSE
  <2>1. k \in DOMAIN s /\ l \in DOMAIN s /\ k # l
    BY <1>1
  <2>2. QED
    BY <1>3, <2>1 DEF IsInjective
<1>4. ASSUME NEW k \in i + 1 .. j PROVE s[k] \in Toplevels
  BY <1>1
<1>5. QED
  BY <1>2, <1>3, <1>4 DEF Names

\* What is kept of a list of windows.
LEMMA ShownIs ==
  ASSUME NEW tls \in Seq(Toplevels), IsInjective(tls), NEW cov
  PROVE  /\ Shown(tls, cov) \in Seq(Toplevels)
         /\ IsInjective(Shown(tls, cov))
         /\ Range(Shown(tls, cov)) = Range(tls) \ cov
<1>1. Range(tls) \subseteq Toplevels
  BY DEF Range
<1>2. QED
  BY <1>1, FilterElements DEF Shown

\* The trees of the lists are those of all their windows.
LEMMA NamesAll ==
  ASSUME NEW s \in Seq(Toplevels)
  PROVE  Names(s, 0, Len(s)) = Range(s)
<1>1. DOMAIN s = 1 .. Len(s)
  OBVIOUS
<1>2. QED
  BY <1>1 DEF Names, Range

\* T is a tree of the windows i+1 .. j of s.
TreeOf(T, s, i, j) ==
  /\ Shape(T)
  /\ Whole(T)
  /\ Tiled(T) = Names(s, i, j)
  /\ i < j => T # NoTree

\* Of no windows there is the tree without a root.
LEMMA TreeOfNone ==
  ASSUME NEW s, NEW i \in Int
  PROVE  TreeOf(NoTree, s, i, i)
<1>1. Names(s, i, i) = {} /\ ~(i < i)
  BY DEF Names
<1>2. QED
  BY <1>1, NoTreeGood DEF TreeOf

\* f solves the recursion of Rebuild for the first m windows.
Building(f, s, m) ==
  f = [i \in 0 .. m |-> IF i = 0 THEN NoTree ELSE Insert(f[i - 1], s[i])]

LEMMA RebuildRecursion ==
  ASSUME NEW s, Len(s) \in Nat
  PROVE  \E built : Building(built, s, Len(s))
<1> DEFINE n == Len(s)
           Solves(f, m) == Building(f, s, m)
           Solved == {m \in 0 .. n : \E f : Solves(f, m)}
<1>1. 0 \in Solved
  <2>1. Solves([i \in 0 .. 0 |-> NoTree], 0)
    BY DEF Building
  <2> HIDE DEF Solves
  <2>2. QED
    BY <2>1
<1>2. ASSUME NEW m \in 0 .. n, m # 0, m - 1 \in Solved PROVE m \in Solved
  <2>1. PICK f : Solves(f, m - 1)
    BY <1>2
  <2> DEFINE g == [i \in 0 .. m |-> IF i = m THEN Insert(f[m - 1], s[m]) ELSE f[i]]
  <2>2. Solves(g, m)
    <3>1. ASSUME NEW i \in 0 .. m
          PROVE  g[i] = IF i = 0 THEN NoTree ELSE Insert(g[i - 1], s[i])
      <4>1. \A j \in 0 .. m - 1 :
              f[j] = IF j = 0 THEN NoTree ELSE Insert(f[j - 1], s[j])
        BY <2>1 DEF Building
      <4>2. i # 0 => g[i - 1] = f[i - 1]
        BY <1>2
      <4>3. CASE i = m
        BY <1>2, <4>2, <4>3
      <4>4. CASE i # m
        <5>1. i \in 0 .. m - 1 /\ g[i] = f[i]
          BY <4>4
        <5>2. QED
          BY <4>1, <4>2, <5>1
      <4>5. QED
        BY <4>3, <4>4
    <3>2. QED
      BY <3>1 DEF Building
  <2> HIDE DEF Solves, g
  <2>3. QED
    BY <2>2
<1>3. 0 .. n \subseteq Solved
  <2> HIDE DEF Solves
  <2>1. QED
    BY <1>1, <1>2, UpTo
<1>4. QED
  <2>1. n \in Solved
    BY <1>3
  <2>2. QED
    BY <2>1

\* rebuild makes a tree of the windows it is given.
LEMMA RebuildGood ==
  ASSUME NEW tls \in Seq(Toplevels), IsInjective(tls), NEW cov
  PROVE  /\ Shape(Rebuild(tls, cov)) /\ Whole(Rebuild(tls, cov))
         /\ Tiled(Rebuild(tls, cov)) = Range(tls) \ cov
<1> DEFINE s == Shown(tls, cov)
           n == Len(s)
           Solves(f) == Building(f, s, n)
<1>1. s \in Seq(Toplevels) /\ IsInjective(s) /\ Range(s) = Range(tls) \ cov /\ n \in Nat
  BY ShownIs
<1> HIDE DEF s
<1>2. PICK built : Solves(built) /\ Rebuild(tls, cov) = built[n]
  <2>1. \E f : Solves(f)
    BY <1>1, RebuildRecursion
  <2>2. Solves(CHOOSE f : Solves(f))
    <3> HIDE DEF Solves
    <3>1. QED
      BY <2>1
  <2>3. Rebuild(tls, cov) = (CHOOSE f : Solves(f))[n]
    BY DEF Rebuild, Building, s
  <2>4. QED
    BY <2>2, <2>3
<1> DEFINE Good == {i \in 0 .. n : TreeOf(built[i], s, 0, i)}
<1>3. 0 \in Good
  <2>1. built[0] = NoTree
    BY <1>1, <1>2 DEF Building
  <2>2. TreeOf(built[0], s, 0, 0)
    BY <2>1, TreeOfNone
  <2>3. QED
    BY <1>1, <2>2
<1>4. ASSUME NEW i \in 0 .. n, i # 0, i - 1 \in Good PROVE i \in Good
  <2>1. built[i] = Insert(built[i - 1], s[i])
    BY <1>1, <1>2, <1>4 DEF Building
  <2>2. i \in 1 .. n /\ i - 1 \in Nat /\ i \in Nat /\ i <= n /\ s[i] \in Toplevels
    BY <1>1, <1>4
  <2>3. /\ Names(s, 0, i - 1) \cup Names(s, i - 1, i) = Names(s, 0, i)
        /\ Names(s, 0, i - 1) \cap Names(s, i - 1, i) = {}
    BY <1>1, <2>2, NamesSplit
  <2>4. Names(s, i - 1, i) = {s[i]}
    <3>1. (i - 1) + 1 .. i = {i}
      BY <2>2
    <3>2. QED
      BY <3>1 DEF Names
  <2>5. /\ Shape(built[i - 1]) /\ Whole(built[i - 1])
        /\ Tiled(built[i - 1]) = Names(s, 0, i - 1)
    BY <1>4 DEF TreeOf
  <2>6. s[i] \notin Tiled(built[i - 1])
    BY <2>3, <2>4, <2>5
  <2>7. TreeOf(built[i], s, 0, i)
    BY <2>1, <2>2, <2>3, <2>4, <2>5, <2>6, InsertGood DEF TreeOf
  <2>8. QED
    BY <2>7
<1>5. 0 .. n \subseteq Good
  <2> HIDE DEF Good
  <2>1. QED
    BY <1>1, <1>3, <1>4, UpTo
<1>6. TreeOf(built[n], s, 0, n)
  BY <1>1, <1>5
<1>7. Names(s, 0, n) = Range(s)
  BY <1>1, NamesAll
<1>8. QED
  BY <1>1, <1>2, <1>6, <1>7 DEF TreeOf

\* The node of a spiral of the last k of n windows.
Turn(n, k) == Container(IF (n - k) % 2 = 0 THEN "horizontal" ELSE "vertical", Half)

\* f solves the recursion of RebuildDwindle for the last m windows.
Spiraling(f, s, m) ==
  f = [k \in 0 .. m |->
         IF k = 0 THEN NoTree
         ELSE IF k = 1 THEN Single(s[Len(s)])
         ELSE Join(Turn(Len(s), k), Single(s[Len(s) - k + 1]), f[k - 1])]

LEMMA DwindleRecursion ==
  ASSUME NEW s, Len(s) \in Nat
  PROVE  \E spiral : Spiraling(spiral, s, Len(s))
<1> DEFINE n == Len(s)
           Solves(f, m) == Spiraling(f, s, m)
           Solved == {m \in 0 .. n : \E f : Solves(f, m)}
           next(f, k) == IF k = 0 THEN NoTree
                         ELSE IF k = 1 THEN Single(s[n])
                         ELSE Join(Turn(n, k), Single(s[n - k + 1]), f[k - 1])
<1>1. 0 \in Solved
  <2>1. Solves([i \in 0 .. 0 |-> NoTree], 0)
    BY DEF Spiraling
  <2> HIDE DEF Solves
  <2>2. QED
    BY <2>1
<1>2. ASSUME NEW m \in 0 .. n, m # 0, m - 1 \in Solved PROVE m \in Solved
  <2>1. PICK f : Solves(f, m - 1)
    BY <1>2
  <2> DEFINE g == [k \in 0 .. m |-> IF k = m THEN next(f, m) ELSE f[k]]
  <2>2. Solves(g, m)
    <3>1. ASSUME NEW k \in 0 .. m PROVE g[k] = next(g, k)
      <4>1. \A j \in 0 .. m - 1 : f[j] = next(f, j)
        BY <2>1 DEF Spiraling
      <4>2. next(g, k) = next(f, k)
        <5>1. k # 0 => g[k - 1] = f[k - 1]
          <6> HIDE DEF next
          <6>1. QED
            BY <1>2
        <5> HIDE DEF g
        <5>2. QED
          BY <5>1
      <4>3. CASE k = m
        BY <1>2, <4>2, <4>3
      <4>4. CASE k # m
        <5>1. k \in 0 .. m - 1 /\ g[k] = f[k]
          BY <4>4
        <5>2. QED
          BY <4>1, <4>2, <5>1
      <4>5. QED
        BY <4>3, <4>4
    <3>2. g = [k \in 0 .. m |-> next(g, k)]
      <4> HIDE DEF next
      <4>1. QED
        BY <3>1
    <3> HIDE DEF g
    <3>3. QED
      BY <3>2 DEF Spiraling
  <2> HIDE DEF Solves, g
  <2>3. QED
    BY <2>2
<1>3. 0 .. n \subseteq Solved
  <2> HIDE DEF Solves
  <2>1. QED
    BY <1>1, <1>2, UpTo
<1>4. QED
  <2>1. n \in Solved
    BY <1>3
  <2>2. QED
    BY <2>1

\* rebuild_dwindle is the last of its spirals.
LEMMA DwindleIs ==
  ASSUME NEW tls \in Seq(Toplevels), IsInjective(tls), NEW cov
  PROVE  \E spiral : /\ Spiraling(spiral, Shown(tls, cov), Len(Shown(tls, cov)))
                     /\ RebuildDwindle(tls, cov) = spiral[Len(Shown(tls, cov))]
<1> DEFINE s == Shown(tls, cov)
           n == Len(s)
           Solves(f) == Spiraling(f, s, n)
<1>1. n \in Nat
  BY ShownIs
<1> HIDE DEF s
<1>2. \E f : Solves(f)
  BY <1>1, DwindleRecursion
<1>3. Solves(CHOOSE f : Solves(f))
  <2> HIDE DEF Solves
  <2>1. QED
    BY <1>2
<1>4. RebuildDwindle(tls, cov) = (CHOOSE f : Solves(f))[n]
  BY DEF RebuildDwindle, Spiraling, Turn, s
<1>5. QED
  <2> DEFINE spiral == CHOOSE f : Solves(f)
  <2>1. Spiraling(spiral, s, n) /\ RebuildDwindle(tls, cov) = spiral[n]
    BY <1>3, <1>4
  <2> HIDE DEF spiral
  <2>2. QED
    BY <2>1 DEF s

\* The node of a spiral.
LEMMA TurnIs ==
  \A n, k : Turn(n, k) \in GoodNode /\ Turn(n, k).split # "none"
<1>1. Half \in Int \X Int /\ 0 < Half[1] /\ Half[1] < Half[2]
  BY NewNodes
<1>2. NoBox \in [x : Int, y : Int, width : Int, height : Int]
  BY DEF NoBox
<1>3. \A n, k :
        (IF (n - k) % 2 = 0 THEN "horizontal" ELSE "vertical") \in {"horizontal", "vertical"}
  OBVIOUS
<1>4. QED
  BY <1>1, <1>2, <1>3, NewNodes DEF Turn

\* Each spiral is a tree of the last windows.
LEMMA SpiralGood ==
  ASSUME NEW s \in Seq(Toplevels), IsInjective(s), NEW spiral, NEW n, n = Len(s),
         Spiraling(spiral, s, n)
  PROVE  \A k \in 0 .. n : TreeOf(spiral[k], s, n - k, n)
<1>1. n \in Nat
  OBVIOUS
<1>2. Spiraling(spiral, s, n)
  OBVIOUS
<1> DEFINE Good == {k \in 0 .. n : TreeOf(spiral[k], s, n - k, n)}
<1>3. 0 \in Good
  <2>1. spiral[0] = NoTree
    BY <1>1, <1>2 DEF Spiraling
  <2>2. TreeOf(spiral[0], s, n, n)
    BY <1>1, <2>1, TreeOfNone
  <2>3. n - 0 = n
    BY <1>1
  <2>4. QED
    BY <1>1, <2>2, <2>3
<1>4. ASSUME NEW k \in 0 .. n, k # 0, k - 1 \in Good PROVE k \in Good
  <2> DEFINE i == n - k
  <2>1. i \in Nat /\ i + 1 \in 1 .. n /\ n - (k - 1) = i + 1 /\ n - k + 1 = i + 1 /\ s[i + 1] \in Toplevels
    BY <1>1, <1>4
  <2>2. /\ Names(s, i, i + 1) \cup Names(s, i + 1, n) = Names(s, i, n)
        /\ Names(s, i, i + 1) \cap Names(s, i + 1, n) = {}
    BY <1>1, <2>1, NamesSplit
  <2>3. Names(s, i, i + 1) = {s[i + 1]}
    <3>1. i + 1 .. i + 1 = {i + 1}
      BY <2>1
    <3>2. QED
      BY <3>1 DEF Names
  <2>4. /\ Shape(Single(s[i + 1])) /\ Whole(Single(s[i + 1]))
        /\ Tiled(Single(s[i + 1])) = {s[i + 1]} /\ Single(s[i + 1]) # NoTree
    BY <2>1, SingleGood
  <2>5. TreeOf(spiral[k - 1], s, i + 1, n)
    BY <1>4, <2>1
  <2>6. spiral[k] = IF k = 1 THEN Single(s[n]) ELSE Join(Turn(n, k), Single(s[n - k + 1]), spiral[k - 1])
    BY <1>1, <1>2, <1>4 DEF Spiraling
  <2>7. CASE k = 1
    <3>1. i + 1 = n /\ i < n
      BY <1>1, <2>1, <2>7
    <3>2. spiral[k] = Single(s[i + 1])
      BY <2>6, <2>7, <3>1
    <3>3. TreeOf(spiral[k], s, i, n)
      <4>1. Tiled(spiral[k]) = Names(s, i, n)
        BY <2>3, <2>4, <3>1, <3>2
      <4> HIDE DEF i
      <4>2. QED
        BY <2>4, <3>2, <4>1 DEF TreeOf
    <3>4. QED
      BY <3>3
  <2>8. CASE k # 1
    <3>1. spiral[k] = Join(Turn(n, k), Single(s[i + 1]), spiral[k - 1])
      BY <2>1, <2>6, <2>8
    <3>2. Turn(n, k) \in GoodNode /\ Turn(n, k).split # "none"
      BY TurnIs
    <3>3. i + 1 < n
      BY <1>1, <1>4, <2>8
    <3>4. /\ Shape(spiral[k - 1]) /\ Whole(spiral[k - 1]) /\ spiral[k - 1] # NoTree
          /\ Tiled(spiral[k - 1]) = Names(s, i + 1, n)
      BY <2>5, <3>3 DEF TreeOf
    <3> HIDE DEF i
    <3>5. Tiled(Single(s[i + 1])) \cap Tiled(spiral[k - 1]) = {}
      BY <2>2, <2>3, <2>4, <3>4
    <3>6. /\ Shape(spiral[k]) /\ Whole(spiral[k]) /\ spiral[k] # NoTree
          /\ Tiled(spiral[k]) = Tiled(Single(s[i + 1])) \cup Tiled(spiral[k - 1])
      BY <2>4, <3>1, <3>2, <3>4, <3>5, JoinGood
    <3>7. Tiled(spiral[k]) = Names(s, i, n)
      BY <2>2, <2>3, <2>4, <3>4, <3>6
    <3>8. TreeOf(spiral[k], s, i, n)
      BY <3>6, <3>7 DEF TreeOf
    <3>9. QED
      BY <3>8 DEF i
  <2>9. QED
    BY <2>7, <2>8
<1>5. 0 .. n \subseteq Good
  <2> HIDE DEF Good
  <2>1. QED
    BY <1>1, <1>3, <1>4, UpTo
<1>6. QED
  BY <1>5

\* rebuild_dwindle makes a tree of the windows it is given.
LEMMA DwindleGood ==
  ASSUME NEW tls \in Seq(Toplevels), IsInjective(tls), NEW cov
  PROVE  /\ Shape(RebuildDwindle(tls, cov)) /\ Whole(RebuildDwindle(tls, cov))
         /\ Tiled(RebuildDwindle(tls, cov)) = Range(tls) \ cov
<1> DEFINE s == Shown(tls, cov)
           n == Len(s)
<1>1. s \in Seq(Toplevels) /\ IsInjective(s) /\ Range(s) = Range(tls) \ cov /\ n \in Nat
  BY ShownIs
<1>2. PICK spiral : Spiraling(spiral, s, n) /\ RebuildDwindle(tls, cov) = spiral[n]
  BY DwindleIs
<1> HIDE DEF s
<1>3. \A k \in 0 .. n : TreeOf(spiral[k], s, n - k, n)
  BY <1>1, <1>2, SpiralGood
<1>4. TreeOf(spiral[n], s, 0, n)
  BY <1>1, <1>3
<1>5. Names(s, 0, n) = Range(s)
  BY <1>1, NamesAll
<1>6. QED
  BY <1>1, <1>2, <1>4, <1>5 DEF TreeOf

\* As many columns as rows at least, and windows in the last row.
LEMMA Dimensions ==
  ASSUME NEW n \in Nat, n # 0
  PROVE  /\ Rows(n) \in 1 .. n
         /\ Cols(n) \in Nat
         /\ n <= Rows(n) * Cols(n)
         /\ (Rows(n) - 1) * Cols(n) < n
<1> DEFINE R == {r \in 1 .. n : n <= r * r + r}
<1>1. PICK m \in R : \A k \in R : m <= k
  <2>1. n \in R /\ R \subseteq Nat
    <3>1. n <= n * n + n
      <4>1. n * n \in Nat
        OBVIOUS
      <4>2. QED
        BY <4>1
    <3>2. QED
      BY <3>1
  <2> HIDE DEF R
  <2>2. QED
    BY <2>1, Least
<1>2. m \in 1 .. n /\ n <= m * m + m
  BY <1>1
<1>3. m * m - m + 1 <= n
  <2>1. CASE m = 1
    BY <2>1
  <2>2. CASE m # 1
    <3>1. m - 1 \in 1 .. n /\ ~(m <= m - 1)
      BY <1>2, <2>2
    <3>2. m - 1 \notin R
      BY <1>1, <3>1
    <3>3. ~(n <= (m - 1) * (m - 1) + (m - 1))
      BY <3>1, <3>2
    <3>4. (m - 1) * (m - 1) + (m - 1) = m * m - m
      BY <1>2
    <3>5. m * m \in Int
      BY <1>2
    <3>6. QED
      BY <1>2, <3>3, <3>4, <3>5
  <2>3. QED
    BY <2>1, <2>2
<1>4. /\ Rows(n) \in 1 .. n
      /\ Rows(n) * Rows(n) - Rows(n) + 1 <= n
  BY <1>2, <1>3 DEF Rows
<1> DEFINE r == Rows(n)
           q == Cols(n)
           x == n + r - 1
<1>5. r \in Nat /\ 0 < r /\ x \in Nat /\ q = x \div r /\ r * r - r + 1 <= n
  BY <1>4 DEF Cols
<1> HIDE DEF r, q
<1>6. q \in Nat /\ r * q <= x /\ x < r * q + r
  <2>1. q \in Int /\ r * q <= x /\ x < r * q + r
    <3> HIDE DEF x
    <3>1. \A a \in Nat, b \in Nat \ {0} :
            /\ a \div b \in Nat
            /\ b * (a \div b) <= a
            /\ a < b * (a \div b) + b
      OBVIOUS
    <3>2. r \in Nat \ {0}
      BY <1>5
    <3>3. QED
      BY <1>5, <3>1, <3>2
  <2>2. 0 <= q
    <3> HIDE DEF x
    <3>1. \A a \in Nat, b \in Nat \ {0} : a \div b \in Nat
      OBVIOUS
    <3>2. QED
      BY <1>5, <3>1
  <2>3. QED
    BY <2>1, <2>2
<1>7. r * q \in Nat /\ r * r \in Nat
  BY <1>5, <1>6
<1>8. n <= r * q
  BY <1>5, <1>6, <1>7
<1>9. r <= q
  <2>1. SUFFICES ASSUME q <= r - 1 PROVE FALSE
    BY <1>5, <1>6
  <2>2. r * q <= r * (r - 1)
    BY <1>5, <1>6, <2>1
  <2>3. r * (r - 1) = r * r - r
    BY <1>5
  <2>4. QED
    BY <1>5, <1>6, <1>7, <2>2, <2>3
<1>10. (r - 1) * q < n
  <2>1. (r - 1) * q = r * q - q
    BY <1>5, <1>6
  <2>2. QED
    BY <1>5, <1>6, <1>7, <1>9, <2>1
<1>11. QED
  BY <1>4, <1>6, <1>8, <1>10 DEF r, q

\* A measure of a part of the grid.
Extent(n, c) == (c.end - c.start) + (c.bottom - c.top) + n + Rows(n)

LEMMA ExtentType ==
  ASSUME NEW n \in Nat, n # 0, NEW c \in Cells(n)
  PROVE  Extent(n, c) \in 0 .. 2 * (n + Rows(n))
<1>1. Rows(n) \in Nat
  BY Dimensions
<1>2. c.start \in 0 .. n /\ c.end \in 0 .. n /\ c.top \in 0 .. Rows(n) /\ c.bottom \in 0 .. Rows(n)
  BY DEF Cells
<1>3. QED
  BY <1>1, <1>2 DEF Extent

\* The rows above the middle and those below it.
LEMMA MidRowIs ==
  ASSUME NEW n \in Nat, n # 0, NEW c \in Cells(n), c.bottom - c.top > 1
  PROVE  MidRow(c) \in Nat /\ c.top < MidRow(c) /\ MidRow(c) < c.bottom
<1>1. Rows(n) \in Nat
  BY Dimensions
<1>2. c.top \in Nat /\ c.bottom \in Nat
  BY <1>1 DEF Cells
<1>3. QED
  BY <1>2 DEF MidRow

\* The parts of a part of two windows or more are parts, and smaller.
LEMMA CellParts ==
  ASSUME NEW n \in Nat, n # 0, NEW c \in Cells(n), c.end - c.start > 1
  PROVE  /\ c.bottom - c.top > 1 =>
              /\ Upper(c, Cols(n)) \in Cells(n)
              /\ Lower(c, Cols(n)) \in Cells(n)
              /\ Extent(n, Upper(c, Cols(n))) < Extent(n, c)
              /\ Extent(n, Lower(c, Cols(n))) < Extent(n, c)
         /\ LeftHalf(c) \in Cells(n)
         /\ RightHalf(c) \in Cells(n)
         /\ Extent(n, LeftHalf(c)) < Extent(n, c)
         /\ Extent(n, RightHalf(c)) < Extent(n, c)
<1> DEFINE rows == Rows(n)
           cols == Cols(n)
<1>1. rows \in Nat /\ cols \in Nat
  BY Dimensions
<1> HIDE DEF rows, cols
<1>2. /\ c.start \in 0 .. n /\ c.end \in 0 .. n /\ c.top \in 0 .. rows /\ c.bottom \in 0 .. rows
      /\ c = [start |-> c.start, end |-> c.end, top |-> c.top, bottom |-> c.bottom]
  BY DEF Cells, rows
<1>3. ASSUME NEW a \in 0 .. n, NEW b \in 0 .. n, NEW t \in 0 .. rows, NEW d \in 0 .. rows
      PROVE  [start |-> a, end |-> b, top |-> t, bottom |-> d] \in Cells(n)
  BY DEF Cells, rows
<1>4. ASSUME c.bottom - c.top > 1
      PROVE  /\ Upper(c, cols) \in Cells(n)
             /\ Lower(c, cols) \in Cells(n)
             /\ Extent(n, Upper(c, cols)) < Extent(n, c)
             /\ Extent(n, Lower(c, cols)) < Extent(n, c)
  <2> DEFINE mid == MidRow(c)
             first == InFirst(c, cols)
             mp == c.start + first
  <2>1. mid \in Nat /\ c.top < mid /\ mid < c.bottom
    BY <1>4, MidRowIs
  <2>2. first \in Nat /\ c.start + first <= c.end
    <3> DEFINE full == (mid - c.top) * cols
    <3>1. full \in Nat
      <4>1. mid - c.top \in Nat
        BY <1>2, <2>1
      <4> HIDE DEF mid
      <4>2. QED
        BY <1>1, <4>1
    <3>2. first = IF c.start + full > c.end THEN (c.end - c.start + 1) \div 2 ELSE full
      BY DEF InFirst
    <3> HIDE DEF full, first
    <3>3. CASE c.start + full > c.end
      BY <1>2, <3>2, <3>3
    <3>4. CASE ~(c.start + full > c.end)
      BY <1>2, <3>1, <3>2, <3>4
    <3>5. QED
      BY <3>3, <3>4
  <2> HIDE DEF mid, first
  <2>3. mp \in 0 .. n /\ mid \in 0 .. rows
    BY <1>1, <1>2, <2>1, <2>2
  <2>4. /\ Upper(c, cols) = [start |-> c.start, end |-> mp, top |-> c.top, bottom |-> mid]
        /\ Lower(c, cols) = [start |-> mp, end |-> c.end, top |-> mid, bottom |-> c.bottom]
    <3>1. Upper(c, cols) = [c EXCEPT !.end = mp, !.bottom = mid]
      BY DEF Upper, mid, first
    <3>2. Lower(c, cols) = [c EXCEPT !.start = mp, !.top = mid]
      BY DEF Lower, mid, first
    <3> HIDE DEF mp
    <3>3. c \in [start : 0 .. n, end : 0 .. n, top : 0 .. Rows(n), bottom : 0 .. Rows(n)]
      BY DEF Cells
    <3>4. QED
      BY <3>1, <3>2, <3>3
  <2> HIDE DEF mp
  <2>5. Upper(c, cols) \in Cells(n) /\ Lower(c, cols) \in Cells(n)
    BY <1>2, <1>3, <2>3, <2>4
  <2>6. /\ Extent(n, Upper(c, cols)) = (mp - c.start) + (mid - c.top) + n + rows
        /\ Extent(n, Lower(c, cols)) = (c.end - mp) + (c.bottom - mid) + n + rows
        /\ Extent(n, c) = (c.end - c.start) + (c.bottom - c.top) + n + rows
    BY <2>4 DEF Extent, rows
  <2>7. QED
    BY <1>1, <1>2, <2>1, <2>2, <2>3, <2>5, <2>6 DEF mp
<1>5. /\ LeftHalf(c) \in Cells(n)
      /\ RightHalf(c) \in Cells(n)
      /\ Extent(n, LeftHalf(c)) < Extent(n, c)
      /\ Extent(n, RightHalf(c)) < Extent(n, c)
  <2> DEFINE half == (c.end - c.start) \div 2
             mp == c.start + half
  <2>1. half \in Nat /\ 0 < half /\ half < c.end - c.start
    BY <1>2
  <2>2. /\ LeftHalf(c) = [start |-> c.start, end |-> mp, top |-> c.top, bottom |-> c.bottom]
        /\ RightHalf(c) = [start |-> mp, end |-> c.end, top |-> c.top, bottom |-> c.bottom]
    BY <1>2 DEF LeftHalf, RightHalf
  <2> HIDE DEF half
  <2>3. mp \in 0 .. n
    BY <1>2, <2>1
  <2> HIDE DEF mp
  <2>4. LeftHalf(c) \in Cells(n) /\ RightHalf(c) \in Cells(n)
    BY <1>2, <1>3, <2>2, <2>3
  <2>5. /\ Extent(n, LeftHalf(c)) = (mp - c.start) + (c.bottom - c.top) + n + rows
        /\ Extent(n, RightHalf(c)) = (c.end - mp) + (c.bottom - c.top) + n + rows
        /\ Extent(n, c) = (c.end - c.start) + (c.bottom - c.top) + n + rows
    BY <2>2 DEF Extent, rows
  <2>6. QED
    BY <1>1, <1>2, <2>1, <2>3, <2>4, <2>5 DEF mp
<1>6. QED
  BY <1>4, <1>5 DEF cols

\* The recursion of RebuildGrid, at one part.
GridStep(f, s, n, c) ==
  IF c.end <= c.start THEN Single(None)
  ELSE IF c.end - c.start = 1 THEN Single(s[c.start + 1])
  ELSE IF c.bottom - c.top > 1
  THEN Join(Container("horizontal", <<InFirst(c, Cols(n)), c.end - c.start>>),
            f[Upper(c, Cols(n))], f[Lower(c, Cols(n))])
  ELSE Join(Container("vertical", Half), f[LeftHalf(c)], f[RightHalf(c)])

LEMMA GridRecursion ==
  ASSUME NEW s, NEW n \in Nat, n # 0
  PROVE  \E f : f = [c \in Cells(n) |-> GridStep(f, s, n, c)]
<1> DEFINE top == 2 * (n + Rows(n)) + 1
           Solves(f, m) ==
             /\ f = [c \in Cells(n) |-> f[c]]
             /\ \A c \in Cells(n) : Extent(n, c) < m => f[c] = GridStep(f, s, n, c)
           Solved == {m \in 0 .. top : \E f : Solves(f, m)}
<1>1. top \in Nat /\ \A c \in Cells(n) : Extent(n, c) \in Nat /\ Extent(n, c) < top
  <2>1. Rows(n) \in Nat
    BY Dimensions
  <2>2. \A c \in Cells(n) : Extent(n, c) \in 0 .. 2 * (n + Rows(n))
    BY ExtentType
  <2>3. QED
    BY <2>1, <2>2
<1> HIDE DEF top
<1>2. 0 \in Solved
  <2> DEFINE f == [c \in Cells(n) |-> NoTree]
  <2>1. f = [c \in Cells(n) |-> f[c]]
    OBVIOUS
  <2> HIDE DEF f
  <2>2. \A c \in Cells(n) : ~(Extent(n, c) < 0)
    BY <1>1
  <2>3. Solves(f, 0)
    BY <2>1, <2>2
  <2>4. 0 \in 0 .. top
    BY <1>1
  <2> HIDE DEF Solves
  <2>5. QED
    BY <2>3, <2>4
<1>3. ASSUME NEW m \in 0 .. top, m # 0, m - 1 \in Solved PROVE m \in Solved
  <2>1. PICK f : Solves(f, m - 1)
    BY <1>3
  <2> DEFINE g == [c \in Cells(n) |->
                    IF Extent(n, c) = m - 1 THEN GridStep(f, s, n, c) ELSE f[c]]
  <2>2. ASSUME NEW c \in Cells(n), Extent(n, c) < m
        PROVE  g[c] = GridStep(g, s, n, c)
    <3>1. \A d \in Cells(n) : Extent(n, d) < Extent(n, c) => g[d] = f[d]
      <4>1. ASSUME NEW d \in Cells(n), Extent(n, d) < Extent(n, c) PROVE g[d] = f[d]
        <5>1. Extent(n, d) # m - 1
          BY <1>1, <2>2, <4>1
        <5>2. QED
          BY <5>1
      <4>2. QED
        BY <4>1
    <3>2. g[c] = GridStep(f, s, n, c)
      <4>1. CASE Extent(n, c) = m - 1
        BY <4>1
      <4>2. CASE Extent(n, c) # m - 1
        <5>1. Extent(n, c) < m - 1
          BY <1>1, <2>2, <4>2
        <5>2. f[c] = GridStep(f, s, n, c)
          BY <2>1, <5>1
        <5>3. QED
          BY <4>2, <5>2
      <4>3. QED
        BY <4>1, <4>2
    <3> HIDE DEF g
    <3>3. CASE c.end - c.start > 1
      <4>1. /\ c.bottom - c.top > 1 =>
                 /\ g[Upper(c, Cols(n))] = f[Upper(c, Cols(n))]
                 /\ g[Lower(c, Cols(n))] = f[Lower(c, Cols(n))]
            /\ g[LeftHalf(c)] = f[LeftHalf(c)]
            /\ g[RightHalf(c)] = f[RightHalf(c)]
        BY <3>1, <3>3, CellParts
      <4>2. QED
        BY <3>2, <4>1 DEF GridStep
    <3>4. CASE ~(c.end - c.start > 1)
      <4>1. c.end \in Int /\ c.start \in Int
        BY DEF Cells
      <4>2. c.end <= c.start \/ c.end - c.start = 1
        BY <3>4, <4>1
      <4>3. QED
        BY <3>2, <4>2 DEF GridStep
    <3>5. QED
      BY <3>3, <3>4
  <2>3. g = [c \in Cells(n) |-> g[c]]
    OBVIOUS
  <2> HIDE DEF g
  <2>4. Solves(g, m)
    BY <2>2, <2>3
  <2> HIDE DEF Solves
  <2>5. QED
    BY <2>4
<1>4. 0 .. top \subseteq Solved
  <2> HIDE DEF Solves
  <2>1. QED
    BY <1>1, <1>2, <1>3, UpTo
<1>5. PICK f : Solves(f, top)
  <2>1. top \in 0 .. top
    BY <1>1
  <2> HIDE DEF Solves
  <2>2. QED
    BY <1>4, <2>1
<1>6. f = [c \in Cells(n) |-> GridStep(f, s, n, c)]
  BY <1>1, <1>5
<1>7. QED
  BY <1>6

\* A part with rows to split is made of full rows, but for the last.
Proper(n, c) ==
  /\ c.start < c.end
  /\ c.bottom - c.top > 1 =>
       /\ c.start = c.top * Cols(n)
       /\ c.end = IF c.bottom = Rows(n) THEN n ELSE c.bottom * Cols(n)

\* The parts of such a part are such parts, and neither is empty.
LEMMA ProperParts ==
  ASSUME NEW n \in Nat, n # 0, NEW c \in Cells(n), Proper(n, c), c.end - c.start > 1
  PROVE  /\ c.bottom - c.top > 1 =>
              /\ Proper(n, Upper(c, Cols(n))) /\ Proper(n, Lower(c, Cols(n)))
              /\ InFirst(c, Cols(n)) \in Nat
              /\ 0 < InFirst(c, Cols(n)) /\ InFirst(c, Cols(n)) < c.end - c.start
              /\ Upper(c, Cols(n)).start = c.start
              /\ Upper(c, Cols(n)).end = c.start + InFirst(c, Cols(n))
              /\ Lower(c, Cols(n)).start = c.start + InFirst(c, Cols(n))
              /\ Lower(c, Cols(n)).end = c.end
         /\ c.bottom - c.top <= 1 =>
              /\ Proper(n, LeftHalf(c)) /\ Proper(n, RightHalf(c))
              /\ LeftHalf(c).start = c.start
              /\ LeftHalf(c).end = RightHalf(c).start
              /\ c.start < RightHalf(c).start /\ RightHalf(c).start < c.end
              /\ RightHalf(c).start \in Nat
              /\ RightHalf(c).end = c.end
<1> DEFINE rows == Rows(n)
           cols == Cols(n)
<1>1. /\ rows \in 1 .. n /\ cols \in Nat /\ n <= rows * cols /\ (rows - 1) * cols < n
  BY Dimensions
<1> HIDE DEF rows, cols
<1>2. /\ c.start \in 0 .. n /\ c.end \in 0 .. n /\ c.top \in 0 .. rows /\ c.bottom \in 0 .. rows
      /\ c \in [start : 0 .. n, end : 0 .. n, top : 0 .. rows, bottom : 0 .. rows]
  BY DEF Cells, rows
<1>3. rows \in Nat /\ c.top \in Nat /\ c.bottom \in Nat /\ c.start \in Nat /\ c.end \in Nat
  BY <1>1, <1>2
<1>4. cols # 0
  <2>1. CASE cols = 0
    <3>1. rows * cols = 0
      BY <1>3, <2>1
    <3>2. QED
      BY <1>1, <3>1
  <2>2. QED
    BY <2>1
<1>5. ASSUME c.bottom - c.top > 1
      PROVE  /\ Proper(n, Upper(c, cols)) /\ Proper(n, Lower(c, cols))
             /\ InFirst(c, cols) \in Nat
             /\ 0 < InFirst(c, cols) /\ InFirst(c, cols) < c.end - c.start
             /\ Upper(c, cols).start = c.start
             /\ Upper(c, cols).end = c.start + InFirst(c, cols)
             /\ Lower(c, cols).start = c.start + InFirst(c, cols)
             /\ Lower(c, cols).end = c.end
  <2> DEFINE mid == MidRow(c)
             full == (mid - c.top) * cols
             first == InFirst(c, cols)
  <2>1. mid \in Nat /\ c.top < mid /\ mid < c.bottom
    BY <1>5, MidRowIs
  <2>2. /\ c.start = c.top * cols
        /\ c.end = IF c.bottom = rows THEN n ELSE c.bottom * cols
    BY <1>5 DEF Proper, rows, cols
  <2> HIDE DEF mid
  <2>3. c.top * cols + full = mid * cols /\ full \in Nat /\ 0 < full
    <3>1. \A a \in Nat, b \in Nat : 0 < a /\ b # 0 => 0 < a * b /\ a * b \in Nat
      OBVIOUS
    <3>2. mid - c.top \in Nat /\ 0 < mid - c.top
      BY <1>3, <2>1
    <3>3. full \in Nat /\ 0 < full
      BY <1>1, <1>4, <3>1, <3>2
    <3>4. \A a \in Nat, b \in Nat, d \in Nat : a * d + (b - a) * d = b * d
      OBVIOUS
    <3>5. c.top * cols + (mid - c.top) * cols = mid * cols
      BY <1>1, <1>3, <2>1, <3>4
    <3>6. QED
      BY <3>3, <3>5
  <2>4. \A a \in Nat, b \in Nat : a < b => a * cols < b * cols
    BY <1>1, <1>4
  <2>5. \A a \in Nat, b \in Nat : a <= b => a * cols <= b * cols
    BY <1>1
  <2>6. mid * cols \in Nat /\ mid * cols < c.end
    <3>1. mid * cols \in Nat
      BY <1>1, <2>1
    <3>2. CASE c.bottom = rows
      <4>1. mid <= rows - 1 /\ rows - 1 \in Nat
        BY <1>1, <1>3, <2>1, <3>2
      <4>2. mid * cols <= (rows - 1) * cols
        BY <2>1, <2>5, <4>1
      <4>3. (rows - 1) * cols \in Int
        BY <1>1, <4>1
      <4>4. QED
        BY <1>1, <2>2, <3>1, <3>2, <4>2, <4>3
    <3>3. CASE c.bottom # rows
      BY <1>3, <2>1, <2>2, <2>4, <3>1, <3>3
    <3>4. QED
      BY <3>2, <3>3
  <2>7. first = IF c.start + full > c.end THEN (c.end - c.start + 1) \div 2 ELSE full
    BY DEF InFirst, mid
  <2> HIDE DEF full, first
  <2>8. c.start + full = mid * cols
    BY <2>2, <2>3
  <2>9. first = full
    BY <1>3, <2>3, <2>6, <2>7, <2>8
  <2>10. /\ Upper(c, cols) = [c EXCEPT !.end = c.start + first, !.bottom = mid]
         /\ Lower(c, cols) = [c EXCEPT !.start = c.start + first, !.top = mid]
    BY DEF Upper, Lower, first, mid
  <2> DEFINE mp == c.start + first
             u == Upper(c, cols)
             l == Lower(c, cols)
  <2>11. mp = mid * cols /\ c.start < mp /\ mp < c.end
    BY <1>3, <2>3, <2>6, <2>8, <2>9
  <2> HIDE DEF mp
  <2>12. /\ u.start = c.start /\ u.end = mp /\ u.top = c.top /\ u.bottom = mid
         /\ l.start = mp /\ l.end = c.end /\ l.top = mid /\ l.bottom = c.bottom
    BY <1>2, <2>10 DEF mp
  <2> HIDE DEF u, l
  <2>13. Proper(n, u)
    <3>1. mid # rows
      BY <1>2, <1>3, <2>1
    <3>2. QED
      BY <2>2, <2>11, <2>12, <3>1 DEF Proper, rows, cols
  <2>14. Proper(n, l)
    BY <2>2, <2>11, <2>12 DEF Proper, rows, cols
  <2>15. InFirst(c, cols) \in Nat /\ 0 < InFirst(c, cols) /\ InFirst(c, cols) < c.end - c.start
    BY <1>3, <2>3, <2>9, <2>11 DEF first, mp
  <2>16. QED
    BY <2>12, <2>13, <2>14, <2>15 DEF u, l, mp, first
<1>6. ASSUME c.bottom - c.top <= 1
      PROVE  /\ Proper(n, LeftHalf(c)) /\ Proper(n, RightHalf(c))
             /\ LeftHalf(c).start = c.start
             /\ LeftHalf(c).end = RightHalf(c).start
             /\ c.start < RightHalf(c).start /\ RightHalf(c).start < c.end
             /\ RightHalf(c).start \in Nat
             /\ RightHalf(c).end = c.end
  <2> DEFINE half == (c.end - c.start) \div 2
             mp == c.start + half
  <2>1. half \in Nat /\ 0 < half /\ half < c.end - c.start
    BY <1>3
  <2> HIDE DEF half
  <2>2. mp \in Nat /\ c.start < mp /\ mp < c.end
    BY <1>3, <2>1
  <2>3. LeftHalf(c) = [c EXCEPT !.end = mp] /\ RightHalf(c) = [c EXCEPT !.start = mp]
    BY DEF LeftHalf, RightHalf, half
  <2> HIDE DEF mp
  <2> DEFINE u == LeftHalf(c)
             l == RightHalf(c)
  <2>4. /\ u.start = c.start /\ u.end = mp /\ u.top = c.top /\ u.bottom = c.bottom
        /\ l.start = mp /\ l.end = c.end /\ l.top = c.top /\ l.bottom = c.bottom
    BY <1>2, <2>3
  <2> HIDE DEF u, l
  <2>5. ~(c.bottom - c.top > 1)
    BY <1>3, <1>6
  <2>6. Proper(n, u) /\ Proper(n, l)
    BY <2>2, <2>4, <2>5 DEF Proper
  <2>7. QED
    BY <2>2, <2>4, <2>6 DEF u, l
<1>7. QED
  BY <1>5, <1>6 DEF cols

\* rebuild_grid makes a tree of the windows it is given.
LEMMA GridGood ==
  ASSUME NEW tls \in Seq(Toplevels), IsInjective(tls), NEW cov
  PROVE  /\ Shape(RebuildGrid(tls, cov)) /\ Whole(RebuildGrid(tls, cov))
         /\ Tiled(RebuildGrid(tls, cov)) = Range(tls) \ cov
<1> DEFINE s == Shown(tls, cov)
           n == Len(s)
           Solves(f) == f = [c \in Cells(n) |-> GridStep(f, s, n, c)]
           whole == [start |-> 0, end |-> n, top |-> 0, bottom |-> Rows(n)]
<1>1. s \in Seq(Toplevels) /\ IsInjective(s) /\ Range(s) = Range(tls) \ cov /\ n \in Nat
  BY ShownIs
<1>2. PICK grid : /\ n # 0 => Solves(grid)
                  /\ RebuildGrid(tls, cov) = IF n = 0 THEN NoTree ELSE grid[whole]
  <2>1. n # 0 => \E f : Solves(f)
    <3> HIDE DEF s
    <3>1. QED
      BY <1>1, GridRecursion
  <2>2. n # 0 => Solves(CHOOSE f : Solves(f))
    <3> HIDE DEF Solves
    <3>1. QED
      BY <2>1
  <2>3. RebuildGrid(tls, cov) = IF n = 0 THEN NoTree ELSE (CHOOSE f : Solves(f))[whole]
    BY DEF RebuildGrid, GridStep
  <2> HIDE DEF Solves, whole
  <2>4. QED
    BY <2>2, <2>3
<1> HIDE DEF s
<1>3. CASE n = 0
  <2>1. TreeOf(NoTree, s, 0, 0)
    BY TreeOfNone
  <2>2. Names(s, 0, n) = Range(s)
    BY <1>1, NamesAll
  <2>3. QED
    BY <1>1, <1>2, <1>3, <2>1, <2>2 DEF TreeOf
<1>4. CASE n # 0
  <2>1. /\ Rows(n) \in 1 .. n /\ Rows(n) \in Nat
        /\ \A c \in Cells(n) : grid[c] = GridStep(grid, s, n, c)
        /\ \A c \in Cells(n) : Extent(n, c) \in 0 .. 2 * (n + Rows(n))
    BY <1>1, <1>2, <1>4, Dimensions, ExtentType
  <2> HIDE DEF n
  <2> DEFINE top == 2 * (n + Rows(n)) + 1
             Good == {m \in 0 .. top : \A c \in Cells(n) :
                        Proper(n, c) /\ Extent(n, c) < m => TreeOf(grid[c], s, c.start, c.end)}
  <2>2. top \in Nat
    BY <1>1, <2>1
  <2>3. 0 \in Good
    <3>1. \A c \in Cells(n) : ~(Extent(n, c) < 0)
      BY <2>1
    <3> HIDE DEF top
    <3>2. QED
      BY <2>2, <3>1
  <2>4. ASSUME NEW m \in 0 .. top, m # 0, m - 1 \in Good PROVE m \in Good
    <3>1. ASSUME NEW c \in Cells(n), Proper(n, c), Extent(n, c) < m
          PROVE  TreeOf(grid[c], s, c.start, c.end)
      <4>1. /\ c.start \in Nat /\ c.end \in Nat /\ c.end <= n /\ c.start < c.end
            /\ c.bottom \in Nat /\ c.top \in Nat
        BY <1>1, <2>1, <3>1 DEF Cells, Proper
      <4>2. grid[c] = GridStep(grid, s, n, c)
        BY <2>1
      <4>3. \A d \in Cells(n) : Proper(n, d) /\ Extent(n, d) < Extent(n, c) =>
              TreeOf(grid[d], s, d.start, d.end)
        <5>1. ASSUME NEW d \in Cells(n), Proper(n, d), Extent(n, d) < Extent(n, c)
              PROVE  TreeOf(grid[d], s, d.start, d.end)
          <6>1. Extent(n, d) < m - 1
            <7>1. Extent(n, d) \in Int /\ Extent(n, c) \in Int /\ m \in Int
              BY <2>1, <2>2
            <7>2. QED
              BY <3>1, <5>1, <7>1
          <6> HIDE DEF top
          <6>2. QED
            BY <2>4, <5>1, <6>1
        <5>2. QED
          BY <5>1
      <4>4. CASE c.end - c.start = 1
        <5>1. grid[c] = Single(s[c.start + 1])
          BY <4>1, <4>2, <4>4 DEF GridStep
        <5>2. s[c.start + 1] \in Toplevels
          BY <1>1, <4>1, <4>4 DEF n
        <5>3. Names(s, c.start, c.end) = {s[c.start + 1]}
          <6>1. c.start + 1 .. c.end = {c.start + 1}
            BY <4>1, <4>4
          <6>2. QED
            BY <6>1 DEF Names
        <5>4. QED
          BY <5>1, <5>2, <5>3, SingleGood DEF TreeOf
      <4>5. CASE c.end - c.start > 1
        <5>1. ASSUME NEW d \in Cells(n), NEW e \in Cells(n), Proper(n, d), Proper(n, e),
                     Extent(n, d) < Extent(n, c), Extent(n, e) < Extent(n, c),
                     d.start = c.start, d.end = e.start, e.end = c.end,
                     c.start < e.start, e.start < c.end, e.start \in Nat,
                     NEW node \in GoodNode, node.split # "none",
                     grid[c] = Join(node, grid[d], grid[e])
              PROVE  TreeOf(grid[c], s, c.start, c.end)
          <6>1. TreeOf(grid[d], s, c.start, e.start) /\ TreeOf(grid[e], s, e.start, c.end)
            BY <4>3, <5>1
          <6>2. /\ Names(s, c.start, e.start) \cup Names(s, e.start, c.end) = Names(s, c.start, c.end)
                /\ Names(s, c.start, e.start) \cap Names(s, e.start, c.end) = {}
            <7>1. c.start <= e.start /\ e.start <= c.end /\ c.end <= Len(s)
              BY <4>1, <5>1 DEF n
            <7>2. QED
              BY <1>1, <4>1, <5>1, <7>1, NamesSplit
          <6>3. /\ Shape(grid[d]) /\ Whole(grid[d]) /\ grid[d] # NoTree
                /\ Tiled(grid[d]) = Names(s, c.start, e.start)
            BY <5>1, <6>1 DEF TreeOf
          <6>4. /\ Shape(grid[e]) /\ Whole(grid[e]) /\ grid[e] # NoTree
                /\ Tiled(grid[e]) = Names(s, e.start, c.end)
            BY <5>1, <6>1 DEF TreeOf
          <6>5. /\ Shape(grid[c]) /\ Whole(grid[c]) /\ grid[c] # NoTree
                /\ Tiled(grid[c]) = Tiled(grid[d]) \cup Tiled(grid[e])
            <7>1. Tiled(grid[d]) \cap Tiled(grid[e]) = {}
              BY <6>2, <6>3, <6>4
            <7>2. QED
              BY <5>1, <6>3, <6>4, <7>1, JoinGood
          <6>6. Tiled(grid[c]) = Names(s, c.start, c.end)
            BY <6>2, <6>3, <6>4, <6>5
          <6>7. QED
            BY <6>5, <6>6 DEF TreeOf
        <5>2. NoBox \in [x : Int, y : Int, width : Int, height : Int]
          BY DEF NoBox
        <5>3. CASE c.bottom - c.top > 1
          <6> DEFINE d == Upper(c, Cols(n))
                     e == Lower(c, Cols(n))
                     first == InFirst(c, Cols(n))
                     node == Container("horizontal", <<first, c.end - c.start>>)
          <6>1. /\ d \in Cells(n) /\ e \in Cells(n)
                /\ Extent(n, d) < Extent(n, c) /\ Extent(n, e) < Extent(n, c)
            BY <1>1, <1>4, <4>5, <5>3, CellParts
          <6>2. /\ Proper(n, d) /\ Proper(n, e)
                /\ first \in Nat /\ 0 < first /\ first < c.end - c.start
                /\ d.start = c.start /\ d.end = c.start + first
                /\ e.start = c.start + first /\ e.end = c.end
            BY <1>1, <1>4, <3>1, <4>5, <5>3, ProperParts
          <6>3. grid[c] = Join(node, grid[d], grid[e])
            BY <4>1, <4>2, <4>5, <5>3 DEF GridStep
          <6> HIDE DEF first
          <6>4. node \in GoodNode /\ node.split # "none"
            <7> DEFINE r == <<first, c.end - c.start>>
            <7>1. r \in Int \X Int /\ 0 < r[1] /\ r[1] < r[2]
              BY <4>1, <6>2
            <7> HIDE DEF r
            <7>2. Container("horizontal", r) \in GoodNode /\ Container("horizontal", r).split = "horizontal"
              BY <5>2, <7>1, NewNodes
            <7>3. QED
              BY <7>2 DEF r
          <6> HIDE DEF d, e, node
          <6>5. c.start < e.start /\ e.start < c.end /\ e.start \in Nat
            BY <4>1, <6>2
          <6>6. QED
            BY <5>1, <6>1, <6>2, <6>3, <6>4, <6>5
        <5>4. CASE c.bottom - c.top <= 1
          <6> DEFINE d == LeftHalf(c)
                     e == RightHalf(c)
                     node == Container("vertical", Half)
          <6>1. /\ d \in Cells(n) /\ e \in Cells(n)
                /\ Extent(n, d) < Extent(n, c) /\ Extent(n, e) < Extent(n, c)
            BY <1>1, <1>4, <4>5, CellParts
          <6>2. /\ Proper(n, d) /\ Proper(n, e)
                /\ d.start = c.start /\ d.end = e.start
                /\ c.start < e.start /\ e.start < c.end /\ e.start \in Nat
                /\ e.end = c.end
            BY <1>1, <1>4, <3>1, <4>5, <5>4, ProperParts
          <6>3. grid[c] = Join(node, grid[d], grid[e])
            <7>1. ~(c.end <= c.start) /\ c.end - c.start # 1 /\ ~(c.bottom - c.top > 1)
              BY <4>1, <4>5, <5>4
            <7>2. QED
              BY <4>2, <7>1 DEF GridStep
          <6>4. node \in GoodNode /\ node.split # "none"
            <7>1. Half \in Int \X Int /\ 0 < Half[1] /\ Half[1] < Half[2]
              BY NewNodes
            <7>2. QED
              BY <5>2, <7>1, NewNodes
          <6> HIDE DEF d, e, node
          <6>5. QED
            BY <5>1, <6>1, <6>2, <6>3, <6>4
        <5>5. QED
          BY <4>1, <5>3, <5>4
      <4>6. QED
        BY <4>1, <4>4, <4>5
    <3> HIDE DEF top
    <3>2. QED
      BY <3>1
  <2>5. 0 .. top \subseteq Good
    <3> HIDE DEF Good, top
    <3>1. QED
      BY <2>2, <2>3, <2>4, UpTo
  <2>6. whole \in Cells(n) /\ Proper(n, whole) /\ whole.start = 0 /\ whole.end = n
    <3>1. 0 * Cols(n) = 0
      <4>1. Cols(n) \in Nat
        BY <1>1, <1>4, Dimensions
      <4>2. QED
        BY <4>1
    <3>2. QED
      BY <1>1, <1>4, <2>1, <3>1 DEF Cells, Proper
  <2>7. TreeOf(grid[whole], s, 0, n)
    <3>1. top \in 0 .. top
      BY <2>2
    <3>2. Extent(n, whole) < top
      <4>1. Extent(n, whole) \in 0 .. 2 * (n + Rows(n))
        BY <2>1, <2>6
      <4>2. QED
        BY <1>1, <2>1, <4>1
    <3> HIDE DEF whole, top
    <3>3. QED
      BY <2>5, <2>6, <3>1, <3>2
  <2>8. Names(s, 0, n) = Range(s)
    BY <1>1, NamesAll DEF n
  <2>9. RebuildGrid(tls, cov) = grid[whole]
    <3> HIDE DEF whole
    <3>1. QED
      BY <1>2, <1>4
  <2>10. QED
    BY <1>1, <2>7, <2>8, <2>9 DEF TreeOf
<1>5. QED
  BY <1>3, <1>4

-----------------------------------------------------------------------------
(* The order of the windows *)

\* The recursion of Order, at one position.
OrderStep(f, T, p) ==
  IF IsLeaf(T, p)
  THEN IF T[p].toplevel = None THEN << >> ELSE <<T[p].toplevel>>
  ELSE f[p \o <<1>>] \o (IF p \o <<2>> \in DOMAIN T THEN f[p \o <<2>>] ELSE << >>)

LEMMA OrderRecursion ==
  ASSUME NEW T, Shape(T)
  PROVE  \E f \in [DOMAIN T -> Seq(Toplevels)] :
           /\ f = [p \in DOMAIN T |-> OrderStep(f, T, p)]
           /\ Order(T) = IF T = NoTree THEN << >> ELSE f[Root]
<1> DEFINE V == Seq(Toplevels)
           a == [p \in DOMAIN T |->
                  IF IsLeaf(T, p) /\ T[p].toplevel # None THEN <<T[p].toplevel>> ELSE << >>]
           G == [p \in DOMAIN T |-> [w \in V \X V |-> w[1] \o w[2]]]
           Solves(f) == f = [p \in DOMAIN T |-> OrderStep(f, T, p)]
<1>1. << >> \in V
  OBVIOUS
<1>2. a \in [DOMAIN T -> V]
  <2>1. ASSUME NEW p \in DOMAIN T PROVE a[p] \in V
    <3>1. T[p] \in Node
      BY DEF Shape, GoodNode
    <3>2. T[p].toplevel \in Toplevels \cup {None}
      BY <3>1 DEF Node
    <3>3. QED
      BY <3>2
  <2>2. QED
    BY <2>1
<1>3. G \in [DOMAIN T -> [V \X V -> V]]
  <2>1. \A u \in V, v \in V : u \o v \in V
    BY ConcatProperties
  <2>2. QED
    BY <2>1
<1>4. PICK f \in [DOMAIN T -> V] : \A p \in DOMAIN T : Combines(f, T, p, a, G, << >>)
  <2> HIDE DEF a, G, V
  <2>1. QED
    BY <1>1, <1>2, <1>3, TreeRecursion
<1>5. ASSUME NEW p \in DOMAIN T PROVE f[p] = OrderStep(f, T, p)
  <2>1. CASE IsLeaf(T, p)
    BY <1>4, <2>1 DEF Combines, OrderStep
  <2>2. CASE ~IsLeaf(T, p)
    <3>1. p \o <<1>> \in DOMAIN T
      BY <2>2 DEF Shape, Based
    <3>2. /\ Kid(f, T, p, 1, << >>) = f[p \o <<1>>]
          /\ Kid(f, T, p, 1, << >>) \in V /\ Kid(f, T, p, 2, << >>) \in V
      BY <1>1, <3>1 DEF Kid
    <3>3. f[p] = Kid(f, T, p, 1, << >>) \o Kid(f, T, p, 2, << >>)
      BY <1>4, <2>2, <3>2 DEF Combines
    <3>4. QED
      BY <2>2, <3>2, <3>3 DEF OrderStep, Kid
  <2>3. QED
    BY <2>1, <2>2
<1>6. Solves(f)
  BY <1>5
<1>7. PICK g : Solves(g) /\ Order(T) = IF T = NoTree THEN << >> ELSE g[Root]
  <2>1. Solves(CHOOSE g : Solves(g))
    <3> HIDE DEF Solves
    <3>1. QED
      BY <1>6
  <2>2. Order(T) = IF T = NoTree THEN << >> ELSE (CHOOSE g : Solves(g))[Root]
    BY DEF Order, OrderStep
  <2> HIDE DEF Solves
  <2>3. QED
    BY <2>1, <2>2
<1>8. DOMAIN T \subseteq {p \in DOMAIN T : g[p] = f[p]}
  <2> DEFINE S == {p \in DOMAIN T : g[p] = f[p]}
  <2>1. ASSUME NEW p \in DOMAIN T,
               \A c \in Side : p \o <<c>> \in DOMAIN T => p \o <<c>> \in S
        PROVE  p \in S
    <3>1. g[p] = OrderStep(g, T, p) /\ f[p] = OrderStep(f, T, p)
      BY <1>5, <1>7
    <3>2. ~IsLeaf(T, p) => p \o <<1>> \in DOMAIN T
      BY DEF Shape, Based
    <3>3. \A c \in Side : p \o <<c>> \in DOMAIN T => g[p \o <<c>>] = f[p \o <<c>>]
      BY <2>1
    <3>4. OrderStep(g, T, p) = OrderStep(f, T, p)
      BY <3>2, <3>3 DEF OrderStep, Side
    <3>5. QED
      BY <3>1, <3>4
  <2> HIDE DEF S
  <2>2. DOMAIN T \subseteq S
    BY <2>1, TreeInduction
  <2>3. QED
    BY <2>2 DEF S
<1>9. g \in [DOMAIN T -> V]
  <2>1. g = [p \in DOMAIN T |-> g[p]]
    BY <1>7
  <2>2. \A p \in DOMAIN T : g[p] \in V
    BY <1>8
  <2>3. QED
    BY <2>1, <2>2
<1>10. QED
  BY <1>7, <1>9

\* r is p or below p.
Extends(p, r) == \E x \in Pos : r = p \o x

LEMMA ExtendsIs ==
  ASSUME NEW p \in Pos, NEW r \in Pos
  PROVE  /\ Extends(p, r) <=> Ext!IsPrefix(p, r)
         /\ Extends(p, p) /\ Extends(Root, r)
         /\ Extends(p, r) <=> r = p \/ \E c \in Side : Extends(p \o <<c>>, r)
         /\ ~(Extends(p \o <<1>>, r) /\ Extends(p \o <<2>>, r))
         /\ \A c \in Side : Extends(p, r \o <<c>>) <=> p = r \o <<c>> \/ Extends(p, r)
<1>1. /\ p \in Seq(Side) /\ r \in Seq(Side) /\ << >> \in Pos /\ Root = << >>
      /\ 1 \in Side /\ 2 \in Side
  BY DEF Pos, Root, Side
<1>2. Extends(p, r) <=> Ext!IsPrefix(p, r)
  BY PrefixPos DEF Extends
<1>3. p = p \o << >> /\ r = << >> \o r
  BY <1>1, ConcatEmptySeq
<1>4. Extends(p, p) /\ Extends(Root, r)
  BY <1>1, <1>3 DEF Extends
<1>5. \A c \in Side, y \in Pos : (p \o <<c>>) \o y = p \o (<<c>> \o y) /\ <<c>> \o y \in Pos
  <2>1. ASSUME NEW c \in Side, NEW y \in Pos
        PROVE  (p \o <<c>>) \o y = p \o (<<c>> \o y) /\ <<c>> \o y \in Pos
    <3>1. <<c>> \in Seq(Side) /\ y \in Seq(Side)
      BY DEF Pos
    <3> DEFINE h == <<c>>
    <3> HIDE DEF h
    <3>2. (p \o h) \o y = p \o (h \o y)
      <4>1. h \in Seq(Side)
        BY <3>1 DEF h
      <4>2. Associates(p, h, y)
        BY <1>1, <3>1, <4>1, ConcatAssociates
      <4>3. QED
        BY <4>2 DEF Associates
    <3>3. <<c>> \o y \in Pos
      BY UnderPos
    <3>4. QED
      BY <3>2, <3>3 DEF h
  <2>2. QED
    BY <2>1
<1>6. ASSUME NEW c \in Side, Extends(p \o <<c>>, r) PROVE Extends(p, r)
  <2>1. PICK y \in Pos : r = (p \o <<c>>) \o y
    BY <1>6 DEF Extends
  <2>2. r = p \o (<<c>> \o y) /\ <<c>> \o y \in Pos
    BY <1>5, <2>1
  <2>3. QED
    BY <2>2 DEF Extends
<1>7. ASSUME Extends(p, r), r # p PROVE \E c \in Side : Extends(p \o <<c>>, r)
  <2>1. PICK x \in Pos : r = p \o x
    BY <1>7 DEF Extends
  <2>2. x # << >> /\ x \in Seq(Side)
    BY <1>3, <1>7, <2>1 DEF Pos
  <2>3. Head(x) \in Side /\ Tail(x) \in Pos
    BY <2>2, HeadTailProperties DEF Pos
  <2>4. x = <<Head(x)>> \o Tail(x)
    <3>1. Len(x) \in Nat /\ 1 \in 1 .. Len(x) /\ Len(x) \in 1 .. Len(x)
      BY <2>2
    <3>2. SubSeq(x, 1, Len(x)) = <<x[1]>> \o SubSeq(x, 1 + 1, Len(x))
      BY <2>2, <3>1, SubSeqRecursiveFirst
    <3>3. SubSeq(x, 1, Len(x)) = x
      BY <2>2, SubSeqFull
    <3>4. Tail(x) = SubSeq(x, 1 + 1, Len(x)) /\ Head(x) = x[1]
      BY <2>2, TailIsSubSeq
    <3>5. QED
      BY <3>2, <3>3, <3>4
  <2>5. r = (p \o <<Head(x)>>) \o Tail(x)
    BY <1>5, <2>1, <2>3, <2>4
  <2>6. QED
    BY <2>3, <2>5 DEF Extends
<1>8. ~(Extends(p \o << 1 >>, r) /\ Extends(p \o << 2 >>, r))
  <2>1. SUFFICES ASSUME NEW x \in Pos, NEW y \in Pos,
                        r = (p \o << 1 >>) \o x, r = (p \o << 2 >>) \o y
                 PROVE  FALSE
    BY DEF Extends
  <2> DEFINE u == <<1>> \o x
             v == <<2>> \o y
  <2>2. u \in Pos /\ v \in Pos /\ p \o u = p \o v
    BY <1>1, <1>5, <2>1
  <2>3. Head(u) = 1 /\ Head(v) = 2
    BY <1>1, UnderPos
  <2> HIDE DEF u, v
  <2>4. u = v
    <3>1. u \in Seq(Side) /\ v \in Seq(Side)
      BY <2>2 DEF Pos
    <3>2. QED
      BY <1>1, <2>2, <3>1, ConcatSimplifications
  <2>5. QED
    BY <2>3, <2>4
<1>9. ASSUME NEW c \in Side
      PROVE  Extends(p, r \o <<c>>) <=> p = r \o <<c>> \/ Extends(p, r)
  <2>1. ASSUME NEW d \in Side, NEW y \in Pos
        PROVE  (p \o y) \o <<d>> = p \o (y \o <<d>>)
    <3> DEFINE h == <<d>>
    <3>1. h \in Seq(Side) /\ y \in Seq(Side)
      BY DEF Pos
    <3> HIDE DEF h
    <3>2. (p \o y) \o h = p \o (y \o h)
      <4>1. Associates(p, y, h)
        BY <1>1, <3>1, ConcatAssociates
      <4>2. QED
        BY <4>1 DEF Associates
    <3>3. QED
      BY <3>2 DEF h
  <2>2. ASSUME p = r \o <<c>> PROVE Extends(p, r \o <<c>>)
    BY <1>4, <2>2
  <2>3. ASSUME Extends(p, r) PROVE Extends(p, r \o <<c>>)
    <3>1. PICK x \in Pos : r = p \o x
      BY <2>3 DEF Extends
    <3>2. r \o <<c>> = p \o (x \o <<c>>)
      BY <2>1, <3>1
    <3>3. x \o <<c>> \in Pos
      BY ChildPos
    <3>4. QED
      BY <3>2, <3>3 DEF Extends
  <2>4. ASSUME Extends(p, r \o <<c>>), p # r \o <<c>> PROVE Extends(p, r)
    <3>1. PICK x \in Pos : r \o <<c>> = p \o x
      BY <2>4 DEF Extends
    <3>2. x # Root
      BY <1>1, <1>3, <2>4, <3>1
    <3> DEFINE y == Parent(x)
               d == Ext!Last(x)
    <3>3. y \in Pos /\ d \in Side /\ x = y \o <<d>>
      BY <3>2, ParentPos
    <3> HIDE DEF y, d
    <3>4. r \o <<c>> = (p \o y) \o <<d>>
      BY <2>1, <3>1, <3>3
    <3>5. p \o y \in Pos
      <4>1. y \in Seq(Side)
        BY <3>3 DEF Pos
      <4>2. QED
        BY <1>1, <4>1, ConcatProperties DEF Pos
    <3>6. r = p \o y
      <4> DEFINE z == p \o y
      <4>1. z \in Pos /\ r \o <<c>> = z \o <<d>>
        BY <3>4, <3>5
      <4> HIDE DEF z
      <4>2. r = z
        BY <3>3, <4>1, SameChild
      <4>3. QED
        BY <4>2 DEF z
    <3>7. QED
      BY <3>3, <3>6 DEF Extends
  <2>5. QED
    BY <2>2, <2>3, <2>4
<1>10. QED
  BY <1>1, <1>2, <1>4, <1>6, <1>7, <1>8, <1>9

\* Induction from the root to the leaves.
LEMMA RootInduction ==
  ASSUME NEW T, Shape(T), NEW S, Root \in DOMAIN T => Root \in S,
         \A p \in DOMAIN T, c \in Side :
           p \in S /\ ~IsLeaf(T, p) /\ p \o <<c>> \in DOMAIN T => p \o <<c>> \in S
  PROVE  DOMAIN T \subseteq S
<1>1. SUFFICES ASSUME NEW o \in DOMAIN T, o \notin S PROVE FALSE
  OBVIOUS
<1> DEFINE Out == {p \in DOMAIN T : p \notin S}
           lengths == {Len(p) : p \in Out}
<1>2. \A p \in DOMAIN T : p \in Pos /\ Len(p) \in Nat
  BY DEF Shape, Pos
<1>3. PICK m \in lengths : \A k \in lengths : m <= k
  <2>1. lengths \subseteq Nat /\ lengths # {}
    BY <1>1, <1>2
  <2> HIDE DEF lengths
  <2>2. QED
    BY <2>1, Least
<1>4. PICK p \in Out : m = Len(p)
  BY <1>3
<1>5. p # Root
  BY <1>4
<1>6. PICK q \in DOMAIN T, c \in Side : ~IsLeaf(T, q) /\ p = q \o <<c>>
  BY <1>4, <1>5 DEF Shape, Rooted
<1>7. Len(p) = Len(q) + 1
  BY <1>2, <1>6, ChildPos
<1>8. q \in S
  <2>1. CASE q \notin S
    <3>1. Len(q) \in lengths
      BY <2>1
    <3>2. m <= Len(q)
      BY <1>3, <3>1
    <3>3. QED
      BY <1>2, <1>4, <1>6, <1>7, <3>2
  <2>2. QED
    BY <2>1
<1>9. QED
  BY <1>4, <1>6, <1>8

\* Nothing is above the root.
LEMMA RootIsTop ==
  ASSUME NEW o \in Pos, Extends(o, Root)
  PROVE  o = Root
<1>1. PICK x \in Pos : Root = o \o x
  BY DEF Extends
<1>2. o \in Seq(Side) /\ x \in Seq(Side)
  BY DEF Pos
<1> DEFINE y == o \o x
           l == Len(o)
           k == Len(x)
<1>3. Len(y) = l + k
  BY <1>2, ConcatProperties
<1>4. l \in Nat /\ k \in Nat
  BY <1>2, LenProperties
<1>5. Len(y) = 0
  BY <1>1 DEF Root
<1> HIDE DEF y, l, k
<1>6. l = 0
  <2> DEFINE sum == Len(y)
  <2>1. sum = l + k /\ sum = 0
    BY <1>3, <1>5
  <2> HIDE DEF sum
  <2>2. QED
    BY <1>4, <2>1
<1>7. Len(o) = 0
  BY <1>6 DEF l
<1>8. QED
  BY <1>2, <1>7, EmptySeq DEF Root

\* What a node is below is in the tree, and a container.
LEMMA AboveIs ==
  ASSUME NEW T, Shape(T), NEW p \in Pos, NEW r \in DOMAIN T, Extends(p, r)
  PROVE  p \in DOMAIN T /\ (p = r \/ ~IsLeaf(T, p))
<1> DEFINE S == {q \in DOMAIN T : \A o \in Pos :
                   Extends(o, q) => o \in DOMAIN T /\ (o = q \/ ~IsLeaf(T, o))}
<1>1. DOMAIN T \subseteq Pos
  BY DEF Shape
<1>2. Root \in DOMAIN T => Root \in S
  <2>1. ASSUME NEW o \in Pos, Extends(o, Root) PROVE o = Root
    BY <2>1, RootIsTop
  <2>2. QED
    BY <2>1
<1>3. ASSUME NEW q \in DOMAIN T, NEW c \in Side, q \in S, ~IsLeaf(T, q), q \o <<c>> \in DOMAIN T
      PROVE  q \o <<c>> \in S
  <2>1. ASSUME NEW o \in Pos, Extends(o, q \o <<c>>)
        PROVE  o \in DOMAIN T /\ (o = q \o <<c>> \/ ~IsLeaf(T, o))
    <3>1. o = q \o <<c>> \/ Extends(o, q)
      BY <1>1, <2>1, ExtendsIs
    <3>2. QED
      BY <1>3, <3>1
  <2>2. QED
    BY <1>3, <2>1
<1>4. DOMAIN T \subseteq S
  <2> HIDE DEF S
  <2>1. QED
    BY <1>2, <1>3, RootInduction
<1>5. QED
  BY <1>4

\* The windows of the leaves at p and below.
HeldBelow(T, p) ==
  {T[q].toplevel : q \in {r \in DOMAIN T :
                            Extends(p, r) /\ IsLeaf(T, r) /\ T[r].toplevel # None}}

\* Those of a container are those of its two sides, each in one.
LEMMA HeldSplit ==
  ASSUME NEW T, Shape(T), NEW p \in DOMAIN T
  PROVE  /\ IsLeaf(T, p) =>
              HeldBelow(T, p) = IF T[p].toplevel = None THEN {} ELSE {T[p].toplevel}
         /\ ~IsLeaf(T, p) =>
              HeldBelow(T, p) = HeldBelow(T, p \o <<1>>) \cup HeldBelow(T, p \o <<2>>)
         /\ HeldBelow(T, p \o <<1>>) \cap HeldBelow(T, p \o <<2>>) = {}
         /\ p \o <<2>> \notin DOMAIN T => HeldBelow(T, p \o <<2>>) = {}
<1>1. /\ DOMAIN T \subseteq Pos /\ 1 \in Side /\ 2 \in Side
      /\ p \o <<1>> \in Pos /\ p \o <<2>> \in Pos
  BY ChildPos DEF Shape, Side
<1>2. ASSUME IsLeaf(T, p), NEW r \in DOMAIN T PROVE Extends(p, r) <=> r = p
  BY <1>1, <1>2, AboveIs, ExtendsIs
<1>3. ASSUME IsLeaf(T, p)
      PROVE  HeldBelow(T, p) = IF T[p].toplevel = None THEN {} ELSE {T[p].toplevel}
  BY <1>2, <1>3 DEF HeldBelow
<1>4. ASSUME ~IsLeaf(T, p), NEW r \in DOMAIN T, IsLeaf(T, r)
      PROVE  Extends(p, r) <=> Extends(p \o <<1>>, r) \/ Extends(p \o <<2>>, r)
  <2>1. Extends(p, r) <=> r = p \/ \E c \in Side : Extends(p \o <<c>>, r)
    BY <1>1, ExtendsIs
  <2>2. QED
    BY <1>4, <2>1 DEF Side
<1>5. ASSUME ~IsLeaf(T, p)
      PROVE  HeldBelow(T, p) = HeldBelow(T, p \o <<1>>) \cup HeldBelow(T, p \o <<2>>)
  BY <1>4, <1>5 DEF HeldBelow
<1>6. ASSUME NEW u \in HeldBelow(T, p \o << 1 >>), u \in HeldBelow(T, p \o << 2 >>) PROVE FALSE
  <2>1. PICK q \in DOMAIN T : /\ Extends(p \o <<1>>, q) /\ IsLeaf(T, q)
                              /\ T[q].toplevel # None /\ T[q].toplevel = u
    BY DEF HeldBelow
  <2>2. PICK r \in DOMAIN T : /\ Extends(p \o <<2>>, r) /\ IsLeaf(T, r)
                              /\ T[r].toplevel # None /\ T[r].toplevel = u
    BY <1>6 DEF HeldBelow
  <2>3. q = r
    BY <2>1, <2>2 DEF Shape, Distinct
  <2>4. QED
    BY <1>1, <2>1, <2>2, <2>3, ExtendsIs
<1>7. ASSUME p \o << 2 >> \notin DOMAIN T PROVE HeldBelow(T, p \o << 2 >>) = {}
  BY <1>1, <1>7, AboveIs DEF HeldBelow
<1>8. QED
  BY <1>3, <1>5, <1>6, <1>7

\* get_toplevels lists every window of the tree once.
LEMMA OrderIs ==
  ASSUME NEW T, Shape(T)
  PROVE  /\ Order(T) \in Seq(Toplevels)
         /\ IsInjective(Order(T))
         /\ Range(Order(T)) = Tiled(T)
<1>1. << >> \in Seq(Toplevels) /\ IsInjective(<< >>) /\ Range(<< >>) = {}
  BY DEF IsInjective, Range
<1>2. CASE T = NoTree
  BY <1>1, <1>2, NoTreeGood DEF Order
<1>3. CASE T # NoTree
  <2>1. PICK f \in [DOMAIN T -> Seq(Toplevels)] :
               /\ f = [p \in DOMAIN T |-> OrderStep(f, T, p)]
               /\ Order(T) = f[Root]
    BY <1>3, OrderRecursion
  <2> DEFINE S == {p \in DOMAIN T : IsInjective(f[p]) /\ Range(f[p]) = HeldBelow(T, p)}
  <2>2. ASSUME NEW p \in DOMAIN T,
               \A c \in Side : p \o <<c>> \in DOMAIN T => p \o <<c>> \in S
        PROVE  p \in S
    <3>1. f[p] = OrderStep(f, T, p)
      BY <2>1
    <3>2. CASE IsLeaf(T, p)
      <4>1. T[p] \in Node
        BY DEF Shape, GoodNode
      <4>2. T[p].toplevel \in Toplevels \cup {None}
        BY <4>1 DEF Node
      <4>3. HeldBelow(T, p) = IF T[p].toplevel = None THEN {} ELSE {T[p].toplevel}
        BY <3>2, HeldSplit
      <4>4. CASE T[p].toplevel = None
        BY <1>1, <3>1, <3>2, <4>3, <4>4 DEF OrderStep
      <4>5. CASE T[p].toplevel # None
        <5> DEFINE tl == T[p].toplevel
        <5>1. tl \in Toplevels /\ f[p] = <<tl>> /\ HeldBelow(T, p) = {tl}
          BY <3>1, <3>2, <4>2, <4>3, <4>5 DEF OrderStep
        <5> HIDE DEF tl
        <5>2. Range(<<tl>>) = {tl} /\ IsInjective(<<tl>>)
          BY <5>1, OneElement
        <5>3. QED
          BY <5>1, <5>2
      <4>6. QED
        BY <4>4, <4>5
    <3>3. CASE ~IsLeaf(T, p)
      <4> DEFINE u == f[p \o <<1>>]
                 v == IF p \o <<2>> \in DOMAIN T THEN f[p \o <<2>>] ELSE << >>
      <4>1. p \o <<1>> \in DOMAIN T
        BY <3>3 DEF Shape, Based
      <4>2. 1 \in Side /\ 2 \in Side
        BY DEF Side
      <4>3. u \in Seq(Toplevels) /\ IsInjective(u) /\ Range(u) = HeldBelow(T, p \o <<1>>)
        BY <2>1, <2>2, <4>1, <4>2
      <4>4. v \in Seq(Toplevels) /\ IsInjective(v) /\ Range(v) = HeldBelow(T, p \o <<2>>)
        <5>1. CASE p \o <<2>> \in DOMAIN T
          BY <2>1, <2>2, <4>2, <5>1
        <5>2. CASE p \o <<2>> \notin DOMAIN T
          BY <1>1, <5>2, HeldSplit
        <5>3. QED
          BY <5>1, <5>2
      <4>5. f[p] = u \o v
        BY <3>1, <3>3 DEF OrderStep
      <4> HIDE DEF u, v
      <4>6. Range(u) \cap Range(v) = {}
        BY <4>3, <4>4, HeldSplit
      <4>7. Range(u \o v) = Range(u) \cup Range(v) /\ IsInjective(u \o v)
        BY <4>3, <4>4, <4>6, ConcatElements
      <4>8. HeldBelow(T, p) = Range(u) \cup Range(v)
        BY <3>3, <4>3, <4>4, HeldSplit
      <4>9. QED
        BY <4>5, <4>7, <4>8
    <3>4. QED
      BY <3>2, <3>3
  <2>3. DOMAIN T \subseteq S
    <3> HIDE DEF S
    <3>1. QED
      BY <2>2, TreeInduction
  <2>4. Root \in DOMAIN T
    BY <1>3, HasRoot
  <2>5. HeldBelow(T, Root) = Tiled(T)
    <3>1. DOMAIN T \subseteq Pos /\ Root \in Pos
      BY <2>4 DEF Shape
    <3>2. \A r \in DOMAIN T : Extends(Root, r)
      BY <3>1, ExtendsIs
    <3>3. Leaves(T, Root) = {p \in DOMAIN T : IsLeaf(T, p) /\ T[p].toplevel # None}
      BY <3>1, BelowRoot
    <3>4. QED
      BY <3>2, <3>3 DEF HeldBelow, Tiled
  <2>6. QED
    BY <2>1, <2>3, <2>4, <2>5
<1>4. QED
  BY <1>2, <1>3

\* A window that is not in the list, at its end.
LEMMA AppendOnce ==
  ASSUME NEW s \in Seq(Toplevels), IsInjective(s), NEW tl \in Toplevels, tl \notin Range(s)
  PROVE  Append(s, tl) \in Seq(Toplevels) /\ IsInjective(Append(s, tl))
<1> DEFINE b == <<tl>>
<1>1. Append(s, tl) = s \o b
  BY AppendIsConcat
<1>2. b \in Seq(Toplevels) /\ IsInjective(b) /\ Range(b) = {tl}
  BY OneElement
<1> HIDE DEF b
<1>3. Range(s) \cap Range(b) = {}
  BY <1>2
<1>4. s \o b \in Seq(Toplevels) /\ IsInjective(s \o b)
  BY <1>2, <1>3, ConcatElements
<1>5. QED
  BY <1>1, <1>4

\* A new window beside the others, or a new spiral.
LEMMA InsertAtDwindleGood ==
  ASSUME NEW T, Shape(T), NEW tl \in Toplevels, tl \notin Tiled(T), NEW cov
  PROVE  /\ Shape(InsertAtDwindle(T, tl, tl, cov))
         /\ Whole(InsertAtDwindle(T, tl, tl, cov))
<1>1. Holding(T, tl) = {}
  BY TiledIs DEF Shape
<1>2. CASE T = NoTree
  BY <1>2, SingleGood DEF InsertAtDwindle
<1>3. CASE T # NoTree
  <2> DEFINE o == Order(T)
             s == Append(o, tl)
  <2>1. InsertAtDwindle(T, tl, tl, cov) = RebuildDwindle(s, cov)
    BY <1>1, <1>3 DEF InsertAtDwindle
  <2>2. o \in Seq(Toplevels) /\ IsInjective(o) /\ Range(o) = Tiled(T)
    BY OrderIs
  <2> HIDE DEF o
  <2>3. s \in Seq(Toplevels) /\ IsInjective(s)
    BY <2>2, AppendOnce
  <2> HIDE DEF s
  <2>4. QED
    BY <2>1, <2>3, DwindleGood
<1>4. QED
  BY <1>2, <1>3

-----------------------------------------------------------------------------
(* Removal *)

\* What is below p and below that.
LEMMA PosConcat ==
  ASSUME NEW p \in Pos, NEW x \in Pos
  PROVE  /\ p \o x \in Pos
         /\ Len(p \o x) = Len(p) + Len(x)
         /\ p \o Root = p
         /\ \A c \in Side : (p \o x) \o <<c>> = p \o (x \o <<c>>)
         /\ \A y \in Pos : p \o x = p \o y => x = y
<1>1. p \in Seq(Side) /\ x \in Seq(Side) /\ Root = << >>
  BY DEF Pos, Root
<1>2. p \o x \in Seq(Side) /\ Len(p \o x) = Len(p) + Len(x)
  BY <1>1, ConcatProperties
<1>3. p \o Root = p
  BY <1>1, ConcatEmptySeq
<1>4. ASSUME NEW c \in Side PROVE (p \o x) \o <<c>> = p \o (x \o <<c>>)
  <2> DEFINE h == <<c>>
  <2>1. h \in Seq(Side)
    OBVIOUS
  <2> HIDE DEF h
  <2>2. (p \o x) \o h = p \o (x \o h)
    <3>1. Associates(p, x, h)
      BY <1>1, <2>1, ConcatAssociates
    <3>2. QED
      BY <3>1 DEF Associates
  <2>3. QED
    BY <2>2 DEF h
<1>5. ASSUME NEW y \in Pos, p \o x = p \o y PROVE x = y
  <2>1. y \in Seq(Side)
    BY DEF Pos
  <2>2. QED
    BY <1>1, <1>5, <2>1, ConcatSimplifications
<1>6. QED
  BY <1>2, <1>3, <1>4, <1>5 DEF Pos

\* What is at x below p.
At(p, x) == p \o x

LEMMA AtIs ==
  ASSUME NEW p \in Pos, NEW x \in Pos
  PROVE  /\ At(p, x) \in Pos
         /\ Len(At(p, x)) = Len(p) + Len(x)
         /\ At(p, Root) = p
         /\ \A c \in Side : At(p, x) \o <<c>> = At(p, x \o <<c>>)
         /\ \A y \in Pos : At(p, x) = At(p, y) => x = y
         /\ Extends(p, At(p, x))
         /\ Ext!IsPrefix(p, At(p, x))
         /\ Down(p, At(p, x)) = x
<1>1. /\ p \o x \in Pos
      /\ Len(p \o x) = Len(p) + Len(x)
      /\ p \o Root = p
      /\ \A c \in Side : (p \o x) \o <<c>> = p \o (x \o <<c>>)
      /\ \A y \in Pos : p \o x = p \o y => x = y
  BY PosConcat
<1>2. Ext!IsPrefix(p, p \o x) /\ Down(p, p \o x) = x
  BY <1>1, PrefixPos
<1>3. Extends(p, p \o x)
  BY DEF Extends
<1>4. QED
  BY <1>1, <1>2, <1>3 DEF At

\* The positions below p.
LEMMA BelowIs ==
  ASSUME NEW p \in Pos, NEW q \in Pos, Extends(p, q)
  PROVE  /\ Down(p, q) \in Pos
         /\ q = At(p, Down(p, q))
<1>1. Ext!IsPrefix(p, q)
  BY ExtendsIs
<1>2. QED
  BY <1>1, PrefixPos DEF At

\* A tree whose nodes change but not their places.
LEMMA SameShape ==
  ASSUME NEW T, Shape(T), NEW U \in [DOMAIN T -> GoodNode],
         \A p \in DOMAIN T : IsLeaf(U, p) <=> IsLeaf(T, p),
         Distinct(U)
  PROVE  /\ Shape(U)
         /\ (\A p \in DOMAIN T : IsLeaf(T, p) => U[p].toplevel # None) /\ Whole(T) => Whole(U)
<1>1. DOMAIN U = DOMAIN T
  OBVIOUS
<1>2. Rooted(U) /\ Based(U) /\ Bounded(U)
  BY <1>1 DEF Shape, Rooted, Based, Bounded
<1>3. Shape(U)
  BY <1>1, <1>2 DEF Shape
<1>4. ASSUME \A p \in DOMAIN T : IsLeaf(T, p) => U[p].toplevel # None, Whole(T)
      PROVE  Whole(U)
  BY <1>1, <1>4 DEF Whole
<1>5. QED
  BY <1>3, <1>4

\* The node at p with all below it is a tree.
LEMMA SubtreeGood ==
  ASSUME NEW T, Shape(T), NEW p \in DOMAIN T
  PROVE  /\ Shape(Subtree(T, p))
         /\ Whole(T) => Whole(Subtree(T, p))
         /\ Root \in DOMAIN Subtree(T, p)
         /\ \A x : x \in DOMAIN Subtree(T, p) <=> x \in Pos /\ At(p, x) \in DOMAIN T
         /\ \A x \in DOMAIN Subtree(T, p) : Subtree(T, p)[x] = T[At(p, x)]
         /\ Tiled(Subtree(T, p)) = HeldBelow(T, p)
<1> DEFINE S == Subtree(T, p)
<1>1. DOMAIN T \subseteq Pos /\ p \in Pos /\ Root \in Pos /\ 1 \in Side /\ 2 \in Side
  BY DEF Shape, Root, Pos, Side
<1>2. \A x : x \in DOMAIN S <=> x \in Pos /\ At(p, x) \in DOMAIN T
  <2>1. \A x : x \in DOMAIN S <=> \E q \in DOMAIN T : Ext!IsPrefix(p, q) /\ x = Down(p, q)
    BY DEF Subtree, Below
  <2>2. ASSUME NEW q \in DOMAIN T, Ext!IsPrefix(p, q)
        PROVE  Down(p, q) \in Pos /\ At(p, Down(p, q)) = q
    BY <1>1, <2>2, ExtendsIs, BelowIs
  <2>3. ASSUME NEW x \in Pos, At(p, x) \in DOMAIN T
        PROVE  Ext!IsPrefix(p, At(p, x)) /\ x = Down(p, At(p, x))
    BY <1>1, <2>3, AtIs
  <2> HIDE DEF S
  <2>4. ASSUME NEW x \in DOMAIN S PROVE x \in Pos /\ At(p, x) \in DOMAIN T
    <3>1. PICK q \in DOMAIN T : Ext!IsPrefix(p, q) /\ x = Down(p, q)
      BY <2>1
    <3>2. QED
      BY <2>2, <3>1
  <2>5. ASSUME NEW x \in Pos, At(p, x) \in DOMAIN T PROVE x \in DOMAIN S
    BY <2>1, <2>3, <2>5
  <2>6. QED
    BY <2>4, <2>5
<1>3. \A x \in DOMAIN S : S[x] = T[At(p, x)]
  BY DEF Subtree, At
<1>4. S = [x \in DOMAIN S |-> S[x]]
  BY DEF Subtree
<1> HIDE DEF S
<1>5. Root \in DOMAIN S
  BY <1>1, <1>2, AtIs
<1>6. S \in [DOMAIN S -> GoodNode]
  <2>1. \A x \in DOMAIN S : S[x] \in GoodNode
    BY <1>2, <1>3 DEF Shape
  <2>2. QED
    BY <1>4, <2>1
<1>7. \A x \in DOMAIN S : IsLeaf(S, x) <=> IsLeaf(T, At(p, x))
  BY <1>3 DEF IsLeaf
<1>8. \A x \in DOMAIN S, c \in Side :
        x \o <<c>> \in DOMAIN S <=> At(p, x) \o <<c>> \in DOMAIN T
  <2>1. ASSUME NEW x \in DOMAIN S, NEW c \in Side
        PROVE  x \o <<c>> \in DOMAIN S <=> At(p, x) \o <<c>> \in DOMAIN T
    <3>1. x \in Pos
      BY <1>2
    <3>2. x \o <<c>> \in Pos
      BY <3>1, ChildPos
    <3>3. At(p, x) \o <<c>> = At(p, x \o <<c>>)
      BY <1>1, <3>1, AtIs
    <3>4. QED
      BY <1>2, <3>2, <3>3
  <2>2. QED
    BY <2>1
<1>9. Rooted(S)
  <2>1. ASSUME NEW x \in DOMAIN S, x # Root
        PROVE  \E y \in DOMAIN S, c \in Side : ~IsLeaf(S, y) /\ x = y \o <<c>>
    <3> DEFINE y == Parent(x)
               c == Ext!Last(x)
    <3>1. x \in Pos /\ At(p, x) \in DOMAIN T
      BY <1>2
    <3>2. y \in Pos /\ c \in Side /\ x = y \o <<c>>
      BY <2>1, <3>1, ParentPos
    <3> HIDE DEF y, c
    <3>3. At(p, x) = At(p, y) \o <<c>> /\ At(p, y) \in Pos
      BY <1>1, <3>2, AtIs
    <3> DEFINE z == At(p, y)
    <3> HIDE DEF z
    <3>4. z \in Pos /\ z \o <<c>> \in DOMAIN T /\ z \o <<c>> \in Pos
      BY <1>1, <3>1, <3>3 DEF z
    <3>5. Extends(z, z \o <<c>>) /\ z # z \o <<c>>
      <4>1. Extends(z, z)
        BY <3>4, ExtendsIs
      <4>2. Extends(z, z \o <<c>>)
        BY <3>2, <3>4, <4>1, ExtendsIs
      <4>3. Len(z \o <<c>>) = Len(z) + 1 /\ Len(z) \in Nat
        BY <3>2, <3>4, ChildPos DEF Pos
      <4>4. QED
        BY <4>2, <4>3
    <3>6. z \in DOMAIN T /\ ~IsLeaf(T, z)
      BY <3>4, <3>5, AboveIs
    <3>7. y \in DOMAIN S /\ ~IsLeaf(S, y)
      BY <1>2, <1>7, <3>2, <3>6 DEF z
    <3>8. QED
      BY <3>2, <3>7
  <2>2. QED
    BY <2>1 DEF Rooted
<1>10. Based(S)
  <2>1. ASSUME NEW x \in DOMAIN S, ~IsLeaf(S, x) PROVE x \o <<1>> \in DOMAIN S
    <3>1. At(p, x) \in DOMAIN T /\ ~IsLeaf(T, At(p, x))
      BY <1>2, <1>7, <2>1
    <3>2. At(p, x) \o <<1>> \in DOMAIN T
      BY <3>1 DEF Shape, Based
    <3>3. QED
      BY <1>1, <1>8, <3>2
  <2>2. QED
    BY <2>1 DEF Based
<1>11. Bounded(S)
  <2>1. PICK n \in Nat : \A q \in DOMAIN T : Len(q) <= n
    BY DEF Shape, Bounded
  <2>2. ASSUME NEW x \in DOMAIN S PROVE Len(x) <= n
    <3>1. x \in Pos /\ Len(At(p, x)) <= n /\ Len(At(p, x)) = Len(p) + Len(x)
      BY <1>1, <1>2, <2>1, AtIs
    <3>2. Len(p) \in Nat /\ Len(x) \in Nat
      BY <1>1, <3>1 DEF Pos
    <3>3. QED
      BY <3>1, <3>2
  <2>3. QED
    BY <2>1, <2>2 DEF Bounded
<1>12. Distinct(S)
  <2>1. ASSUME NEW x \in DOMAIN S, NEW y \in DOMAIN S, IsLeaf(S, x), IsLeaf(S, y),
               S[x].toplevel # None, S[x].toplevel = S[y].toplevel
        PROVE  x = y
    <3>1. At(p, x) = At(p, y)
      <4>1. /\ At(p, x) \in DOMAIN T /\ At(p, y) \in DOMAIN T
            /\ IsLeaf(T, At(p, x)) /\ IsLeaf(T, At(p, y))
            /\ T[At(p, x)].toplevel # None /\ T[At(p, x)].toplevel = T[At(p, y)].toplevel
        BY <1>2, <1>3, <1>7, <2>1
      <4>2. QED
        BY <4>1 DEF Shape, Distinct
    <3>2. x \in Pos /\ y \in Pos
      BY <1>2
    <3>3. QED
      BY <1>1, <3>1, <3>2, AtIs
  <2>2. QED
    BY <2>1 DEF Distinct
<1>13. DOMAIN S \subseteq Pos
  BY <1>2
<1>14. Shape(S)
  BY <1>6, <1>9, <1>10, <1>11, <1>12, <1>13 DEF Shape
<1>15. ASSUME Whole(T) PROVE Whole(S)
  <2>1. ASSUME NEW x \in DOMAIN S
        PROVE  IF IsLeaf(S, x) THEN S[x].toplevel # None ELSE x \o <<2>> \in DOMAIN S
    <3>1. At(p, x) \in DOMAIN T
      BY <1>2
    <3>2. IF IsLeaf(T, At(p, x)) THEN T[At(p, x)].toplevel # None
          ELSE At(p, x) \o <<2>> \in DOMAIN T
      BY <1>15, <3>1 DEF Whole
    <3>3. QED
      BY <1>1, <1>3, <1>7, <1>8, <3>2
  <2>2. QED
    BY <2>1 DEF Whole
<1>16. Tiled(S) = HeldBelow(T, p)
  <2>1. \A u : u \in Tiled(S) <=>
          \E x \in DOMAIN S : IsLeaf(S, x) /\ S[x].toplevel = u /\ u # None
    BY <1>13, TiledIs
  <2>2. \A r \in DOMAIN T : Extends(p, r) <=> \E x \in DOMAIN S : r = At(p, x)
    BY <1>2 DEF Extends, At
  <2>3. ASSUME NEW u \in Tiled(S) PROVE u \in HeldBelow(T, p)
    <3>1. PICK x \in DOMAIN S : IsLeaf(S, x) /\ S[x].toplevel = u /\ u # None
      BY <2>1
    <3>2. At(p, x) \in DOMAIN T /\ Extends(p, At(p, x))
      BY <1>1, <1>2, AtIs
    <3>3. IsLeaf(T, At(p, x)) /\ T[At(p, x)].toplevel = u
      BY <1>3, <1>7, <3>1
    <3>4. QED
      BY <3>1, <3>2, <3>3 DEF HeldBelow
  <2>4. ASSUME NEW u \in HeldBelow(T, p) PROVE u \in Tiled(S)
    <3>1. PICK r \in DOMAIN T : /\ Extends(p, r) /\ IsLeaf(T, r)
                                /\ T[r].toplevel # None /\ T[r].toplevel = u
      BY DEF HeldBelow
    <3>2. PICK x \in DOMAIN S : r = At(p, x)
      BY <2>2, <3>1
    <3>3. IsLeaf(S, x) /\ S[x].toplevel = u /\ u # None
      BY <1>3, <1>7, <3>1, <3>2
    <3>4. QED
      BY <2>1, <3>3
  <2>5. QED
    BY <2>3, <2>4
<1>17. QED
  BY <1>2, <1>3, <1>5, <1>14, <1>15, <1>16 DEF S

\* A tree in the place of a part of another, with no window of the rest.
LEMMA ReplaceGood ==
  ASSUME NEW T, Shape(T), NEW p \in DOMAIN T, NEW S, Shape(S), S # NoTree,
         \A r \in DOMAIN T :
           ~Extends(p, r) /\ IsLeaf(T, r) => T[r].toplevel \notin Tiled(S)
  PROVE  /\ Shape(Replace(T, p, S))
         /\ Whole(T) /\ Whole(S) => Whole(Replace(T, p, S))
         /\ Replace(T, p, S) # NoTree
         /\ \A q : q \in DOMAIN Replace(T, p, S) <=>
              (q \in DOMAIN T /\ ~Extends(p, q)) \/ \E x \in DOMAIN S : q = At(p, x)
         /\ \A q \in DOMAIN T : ~Extends(p, q) => Replace(T, p, S)[q] = T[q]
         /\ \A x \in DOMAIN S : Replace(T, p, S)[At(p, x)] = S[x]
<1> DEFINE R == Replace(T, p, S)
           Out == {q \in DOMAIN T : ~Extends(p, q)}
<1>1. /\ DOMAIN T \subseteq Pos /\ DOMAIN S \subseteq Pos /\ p \in Pos
      /\ Root \in DOMAIN S /\ 1 \in Side /\ 2 \in Side
  BY HasRoot DEF Shape, Side
<1>2. \A x \in DOMAIN S : At(p, x) \in Pos /\ Ext!IsPrefix(p, At(p, x)) /\ Down(p, At(p, x)) = x
  BY <1>1, AtIs
<1>3. \A q \in DOMAIN T : Extends(p, q) <=> Ext!IsPrefix(p, q)
  BY <1>1, ExtendsIs
<1>4. \A q : q \in DOMAIN R <=> q \in Out \/ \E x \in DOMAIN S : q = At(p, x)
  BY <1>3 DEF Replace, Below, At
<1>5. \A q \in Out : R[q] = T[q]
  BY <1>3, <1>4 DEF Replace
<1>6. \A x \in DOMAIN S : R[At(p, x)] = S[x]
  <2>1. ASSUME NEW x \in DOMAIN S PROVE R[At(p, x)] = S[x]
    <3>1. At(p, x) \in DOMAIN R
      BY <1>4
    <3>2. QED
      BY <1>2, <3>1 DEF Replace, At
  <2>2. QED
    BY <2>1
<1>7. R = [q \in DOMAIN R |-> R[q]]
  BY DEF Replace
<1> HIDE DEF R
<1>8. R \in [DOMAIN R -> GoodNode]
  <2>1. ASSUME NEW q \in DOMAIN R PROVE R[q] \in GoodNode
    <3>1. CASE q \in Out
      BY <1>5, <3>1 DEF Shape
    <3>2. ASSUME NEW x \in DOMAIN S, q = At(p, x) PROVE R[q] \in GoodNode
      BY <1>6, <3>2 DEF Shape
    <3>3. QED
      BY <1>4, <3>1, <3>2
  <2>2. QED
    BY <1>7, <2>1
<1>9. DOMAIN R \subseteq Pos
  <2>1. ASSUME NEW q \in DOMAIN R PROVE q \in Pos
    <3>1. CASE q \in Out
      BY <1>1, <3>1
    <3>2. ASSUME NEW x \in DOMAIN S, q = At(p, x) PROVE q \in Pos
      BY <1>2, <3>2
    <3>3. QED
      BY <1>4, <3>1, <3>2
  <2>2. QED
    BY <2>1
<1>10. /\ \A q \in Out : IsLeaf(R, q) <=> IsLeaf(T, q)
       /\ \A x \in DOMAIN S : IsLeaf(R, At(p, x)) <=> IsLeaf(S, x)
  BY <1>5, <1>6 DEF IsLeaf
<1>11. \A q \in Out, c \in Side : q \o <<c>> \in DOMAIN T => q \o <<c>> \in DOMAIN R
  <2>1. ASSUME NEW q \in Out, NEW c \in Side, q \o <<c>> \in DOMAIN T
        PROVE  q \o <<c>> \in DOMAIN R
    <3>1. Extends(p, q \o <<c>>) <=> p = q \o <<c>> \/ Extends(p, q)
      BY <1>1, ExtendsIs
    <3>2. CASE p = q \o <<c>>
      <4>1. p = At(p, Root)
        BY <1>1, AtIs
      <4>2. p \in DOMAIN R
        BY <1>1, <1>4, <4>1
      <4>3. QED
        BY <3>2, <4>2
    <3>3. CASE p # q \o <<c>>
      BY <1>4, <2>1, <3>1, <3>3
    <3>4. QED
      BY <3>2, <3>3
  <2>2. QED
    BY <2>1
<1>12. \A x \in DOMAIN S, c \in Side :
         x \o <<c>> \in DOMAIN S => At(p, x) \o <<c>> \in DOMAIN R
  <2>1. ASSUME NEW x \in DOMAIN S, NEW c \in Side, x \o <<c>> \in DOMAIN S
        PROVE  At(p, x) \o <<c>> \in DOMAIN R
    <3>1. At(p, x) \o <<c>> = At(p, x \o <<c>>)
      BY <1>1, AtIs
    <3>2. QED
      BY <1>4, <2>1, <3>1
  <2>2. QED
    BY <2>1
<1>13. Rooted(R)
  <2>1. ASSUME NEW q \in DOMAIN T, q # Root, q \in Out \/ q = p
        PROVE  \E r \in DOMAIN R, c \in Side : ~IsLeaf(R, r) /\ q = r \o <<c>>
    <3>1. PICK r \in DOMAIN T, c \in Side : ~IsLeaf(T, r) /\ q = r \o <<c>>
      BY <2>1 DEF Shape, Rooted
    <3>2. ~Extends(p, r)
      <4>1. CASE q \in Out
        <5>1. Extends(p, r) => Extends(p, r \o <<c>>)
          BY <1>1, ExtendsIs
        <5>2. QED
          BY <3>1, <4>1, <5>1
      <4>2. CASE q = p
        <5>1. ASSUME Extends(p, r) PROVE FALSE
          <6>1. PICK x \in Pos : r = At(p, x)
            BY <5>1 DEF Extends, At
          <6>2. Len(r) = Len(p) + Len(x) /\ Len(p) = Len(r) + 1
            BY <1>1, <3>1, <4>2, <6>1, AtIs, ChildPos
          <6>3. Len(r) \in Nat /\ Len(p) \in Nat /\ Len(x) \in Nat
            BY <1>1 DEF Pos
          <6>4. QED
            BY <6>2, <6>3
        <5>2. QED
          BY <5>1
      <4>3. QED
        BY <2>1, <4>1, <4>2
    <3>3. r \in DOMAIN R /\ ~IsLeaf(R, r)
      BY <1>4, <1>10, <3>1, <3>2
    <3>4. QED
      BY <3>1, <3>3
  <2>2. ASSUME NEW x \in DOMAIN S, At(p, x) # Root
        PROVE  \E r \in DOMAIN R, c \in Side : ~IsLeaf(R, r) /\ At(p, x) = r \o <<c>>
    <3>1. CASE x = Root
      <4>1. At(p, x) = p
        BY <1>1, <3>1, AtIs
      <4>2. QED
        BY <2>1, <2>2, <4>1
    <3>2. CASE x # Root
      <4>1. PICK y \in DOMAIN S, c \in Side : ~IsLeaf(S, y) /\ x = y \o <<c>>
        BY <3>2 DEF Shape, Rooted
      <4>2. At(p, x) = At(p, y) \o <<c>>
        BY <1>1, <4>1, AtIs
      <4>3. At(p, y) \in DOMAIN R /\ ~IsLeaf(R, At(p, y))
        BY <1>4, <1>10, <4>1
      <4>4. QED
        BY <4>2, <4>3
    <3>3. QED
      BY <3>1, <3>2
  <2>3. ASSUME NEW q \in DOMAIN R, q # Root
        PROVE  \E r \in DOMAIN R, c \in Side : ~IsLeaf(R, r) /\ q = r \o <<c>>
    <3>1. CASE q \in Out
      BY <2>1, <2>3, <3>1
    <3>2. CASE q \notin Out
      <4>1. PICK x \in DOMAIN S : q = At(p, x)
        BY <1>4, <2>3, <3>2
      <4>2. QED
        BY <2>2, <2>3, <4>1
    <3>3. QED
      BY <3>1, <3>2
  <2>4. QED
    BY <2>3 DEF Rooted
<1>14. Based(R)
  <2>1. \A q \in Out : ~IsLeaf(R, q) => q \o <<1>> \in DOMAIN R
    BY <1>1, <1>10, <1>11 DEF Shape, Based
  <2>2. \A x \in DOMAIN S : ~IsLeaf(R, At(p, x)) => At(p, x) \o <<1>> \in DOMAIN R
    BY <1>1, <1>10, <1>12 DEF Shape, Based
  <2>3. QED
    BY <1>4, <2>1, <2>2 DEF Based
<1>15. Bounded(R)
  <2>1. PICK n1 \in Nat : \A q \in DOMAIN T : Len(q) <= n1
    BY DEF Shape, Bounded
  <2>2. PICK n2 \in Nat : \A q \in DOMAIN S : Len(q) <= n2
    BY DEF Shape, Bounded
  <2>3. \A q \in DOMAIN T : Len(q) \in Nat
    BY <1>1 DEF Pos
  <2>4. \A q \in DOMAIN S : Len(q) \in Nat
    BY <1>1 DEF Pos
  <2> DEFINE n == n1 + n1 + n2
  <2>5. ASSUME NEW q \in DOMAIN R PROVE Len(q) <= n
    <3>1. CASE q \in Out
      BY <2>1, <2>2, <2>3, <3>1
    <3>2. ASSUME NEW x \in DOMAIN S, q = At(p, x) PROVE Len(q) <= n
      <4>1. Len(q) = Len(p) + Len(x)
        BY <1>1, <3>2, AtIs
      <4>2. QED
        BY <2>1, <2>2, <2>3, <2>4, <4>1
    <3>3. QED
      BY <1>4, <3>1, <3>2
  <2>6. n \in Nat
    OBVIOUS
  <2> HIDE DEF n
  <2>7. QED
    BY <2>5, <2>6 DEF Bounded
<1>16. Distinct(R)
  <2>1. \A u : u \in Tiled(S) <=>
          \E x \in DOMAIN S : IsLeaf(S, x) /\ S[x].toplevel = u /\ u # None
    BY <1>1, TiledIs
  <2>2. ASSUME NEW q \in Out, NEW r \in Out, IsLeaf(R, q), IsLeaf(R, r),
               R[q].toplevel # None, R[q].toplevel = R[r].toplevel
        PROVE  q = r
    <3>1. /\ q \in DOMAIN T /\ r \in DOMAIN T /\ IsLeaf(T, q) /\ IsLeaf(T, r)
          /\ T[q].toplevel # None /\ T[q].toplevel = T[r].toplevel
      BY <1>5, <1>10, <2>2
    <3>2. QED
      BY <3>1 DEF Shape, Distinct
  <2>3. ASSUME NEW x \in DOMAIN S, NEW y \in DOMAIN S,
               IsLeaf(R, At(p, x)), IsLeaf(R, At(p, y)),
               R[At(p, x)].toplevel # None, R[At(p, x)].toplevel = R[At(p, y)].toplevel
        PROVE  x = y
    <3>1. /\ IsLeaf(S, x) /\ IsLeaf(S, y)
          /\ S[x].toplevel # None /\ S[x].toplevel = S[y].toplevel
      BY <1>6, <1>10, <2>3
    <3>2. QED
      BY <3>1 DEF Shape, Distinct
  <2>4. ASSUME NEW q \in Out, NEW x \in DOMAIN S, IsLeaf(R, q), IsLeaf(R, At(p, x)),
               R[q].toplevel # None, R[q].toplevel = R[At(p, x)].toplevel
        PROVE  FALSE
    <3>1. R[At(p, x)].toplevel \in Tiled(S)
      BY <1>6, <1>10, <2>1, <2>4
    <3>2. R[q].toplevel \notin Tiled(S)
      <4>1. q \in DOMAIN T /\ ~Extends(p, q) /\ IsLeaf(T, q) /\ R[q] = T[q]
        BY <1>5, <1>10, <2>4
      <4>2. QED
        BY <4>1
    <3>3. QED
      BY <2>4, <3>1, <3>2
  <2>5. ASSUME NEW q \in DOMAIN R, NEW r \in DOMAIN R, IsLeaf(R, q), IsLeaf(R, r),
               R[q].toplevel # None, R[q].toplevel = R[r].toplevel
        PROVE  q = r
    <3>1. CASE q \in Out /\ r \in Out
      BY <2>2, <2>5, <3>1
    <3>2. ASSUME NEW x \in DOMAIN S, r = At(p, x), q \in Out PROVE FALSE
      BY <2>4, <2>5, <3>2
    <3>3. ASSUME NEW x \in DOMAIN S, q = At(p, x), r \in Out PROVE FALSE
      BY <2>4, <2>5, <3>3
    <3>4. ASSUME NEW x \in DOMAIN S, q = At(p, x), NEW y \in DOMAIN S, r = At(p, y)
          PROVE  q = r
      <4>1. x = y
        BY <2>3, <2>5, <3>4
      <4>2. QED
        BY <3>4, <4>1
    <3>5. QED
      BY <1>4, <3>1, <3>2, <3>3, <3>4
  <2>6. QED
    BY <2>5 DEF Distinct
<1>17. Shape(R)
  BY <1>8, <1>9, <1>13, <1>14, <1>15, <1>16 DEF Shape
<1>18. ASSUME Whole(T), Whole(S) PROVE Whole(R)
  <2>1. \A q \in Out :
          IF IsLeaf(R, q) THEN R[q].toplevel # None ELSE q \o <<2>> \in DOMAIN R
    BY <1>1, <1>5, <1>10, <1>11, <1>18 DEF Whole
  <2>2. \A x \in DOMAIN S :
          IF IsLeaf(R, At(p, x)) THEN R[At(p, x)].toplevel # None
          ELSE At(p, x) \o <<2>> \in DOMAIN R
    BY <1>1, <1>6, <1>10, <1>12, <1>18 DEF Whole
  <2>3. QED
    BY <1>4, <2>1, <2>2 DEF Whole
<1>19. R # NoTree
  <2>1. At(p, Root) \in DOMAIN R
    BY <1>1, <1>4
  <2>2. DOMAIN NoTree = {}
    BY DEF NoTree
  <2>3. QED
    BY <2>1, <2>2
<1>20. QED
  BY <1>4, <1>5, <1>6, <1>17, <1>18, <1>19 DEF R

\* The other child of the parent.
LEMMA SiblingIs ==
  ASSUME NEW p \in Pos, p # Root
  PROVE  /\ Parent(p) \in Pos
         /\ 3 - Ext!Last(p) \in Side
         /\ Sibling(p) = Parent(p) \o <<3 - Ext!Last(p)>>
         /\ Sibling(p) \in Pos
         /\ Sibling(p) \in {Parent(p) \o <<1>>, Parent(p) \o <<2>>}
<1>1. Parent(p) \in Pos /\ Ext!Last(p) \in Side
  BY ParentPos
<1>2. 3 - Ext!Last(p) \in Side
  BY <1>1 DEF Side
<1>3. Sibling(p) = Parent(p) \o <<3 - Ext!Last(p)>>
  BY DEF Sibling
<1> DEFINE c == 3 - Ext!Last(p)
           r == Parent(p)
<1>4. c \in Side /\ r \in Pos /\ Sibling(p) = r \o <<c>>
  BY <1>1, <1>2, <1>3
<1> HIDE DEF c, r
<1>5. Sibling(p) \in Pos
  BY <1>4, ChildPos
<1>6. Sibling(p) \in {r \o <<1>>, r \o <<2>>}
  BY <1>4 DEF Side
<1>7. QED
  BY <1>1, <1>2, <1>3, <1>5, <1>6 DEF r

\* Two nodes that differ in their geometry at most.
Alike(n1, n2) ==
  n1.split = n2.split /\ n1.ratio = n2.ratio /\ n1.toplevel = n2.toplevel

\* A change of one node's geometry.
LEMMA GeometryGood ==
  ASSUME NEW T, Shape(T), NEW p \in DOMAIN T,
         NEW g \in [x : Int, y : Int, width : Int, height : Int]
  PROVE  LET U == [T EXCEPT ![p].geometry = g]
         IN  /\ Shape(U)
             /\ Whole(T) => Whole(U)
             /\ DOMAIN U = DOMAIN T
             /\ Tiled(U) = Tiled(T)
             /\ \A q \in DOMAIN T : Alike(U[q], T[q])
<1> DEFINE U == [T EXCEPT ![p].geometry = g]
<1>1. T \in [DOMAIN T -> GoodNode] /\ DOMAIN T \subseteq Pos
  BY DEF Shape
<1>2. /\ [T[p] EXCEPT !.geometry = g] \in GoodNode
      /\ [T[p] EXCEPT !.geometry = g].split = T[p].split
      /\ [T[p] EXCEPT !.geometry = g].ratio = T[p].ratio
      /\ [T[p] EXCEPT !.geometry = g].toplevel = T[p].toplevel
  BY <1>1 DEF GoodNode, Node
<1>3. U = [q \in DOMAIN T |-> IF q = p THEN [T[p] EXCEPT !.geometry = g] ELSE T[q]]
  OBVIOUS
<1> HIDE DEF U
<1>4. U \in [DOMAIN T -> GoodNode]
  BY <1>1, <1>2, <1>3
<1>5. \A q \in DOMAIN T : Alike(U[q], T[q])
  BY <1>2, <1>3 DEF Alike
<1>6. \A q \in DOMAIN T : IsLeaf(U, q) <=> IsLeaf(T, q)
  BY <1>5 DEF IsLeaf, Alike
<1>7. DOMAIN U = DOMAIN T
  BY <1>3
<1>8. Distinct(U)
  BY <1>5, <1>6, <1>7 DEF Shape, Distinct, Alike
<1>9. Shape(U) /\ (Whole(T) => Whole(U))
  <2>1. Whole(T) => \A q \in DOMAIN T : IsLeaf(T, q) => U[q].toplevel # None
    BY <1>5 DEF Whole, Alike
  <2>2. QED
    BY <1>4, <1>6, <1>8, <2>1, SameShape
<1>10. Tiled(U) = Tiled(T)
  <2>1. \A u : u \in Tiled(U) <=> u \in Tiled(T)
    BY <1>1, <1>5, <1>6, <1>7, TiledIs DEF Alike
  <2>2. QED
    BY <2>1
<1>11. QED
  BY <1>5, <1>7, <1>9, <1>10 DEF U

\* U is what takes the place of the parent of p: the sibling with all below it,
\* whose windows are nowhere else.
Grafts(U, T, p) ==
  /\ Shape(U) /\ U # NoTree
  /\ Whole(T) => Whole(U)
  /\ DOMAIN U = DOMAIN Subtree(T, Sibling(p))
  /\ \A x \in DOMAIN U : Alike(U[x], Subtree(T, Sibling(p))[x])
  /\ \A q \in DOMAIN T :
       ~Extends(Parent(p), q) /\ IsLeaf(T, q) => T[q].toplevel \notin Tiled(U)

LEMMA GraftIs ==
  ASSUME NEW T, Shape(T), NEW p \in DOMAIN T, p # Root, Sibling(p) \in DOMAIN T
  PROVE  \E U : Grafts(U, T, p) /\ Graft(T, p) = Replace(T, Parent(p), U)
<1> DEFINE r == Parent(p)
           b == Sibling(p)
           S == Subtree(T, b)
           U == IF r = Root THEN [S EXCEPT ![Root].geometry = T[Root].geometry] ELSE S
<1>1. p \in Pos /\ b \in DOMAIN T
  BY DEF Shape
<1>2. r \in DOMAIN T /\ r \in Pos /\ b \in Pos /\ b \in {r \o <<1>>, r \o <<2>>}
  BY <1>1, SiblingIs, ParentIs
<1>3. Graft(T, p) = Replace(T, r, U)
  BY DEF Graft
<1>4. /\ Shape(S) /\ (Whole(T) => Whole(S))
      /\ Root \in DOMAIN S /\ Tiled(S) = HeldBelow(T, b)
  BY <1>1, SubtreeGood
<1> HIDE DEF S, r, b
<1>5. /\ Shape(U) /\ (Whole(T) => Whole(U))
      /\ U # NoTree /\ Tiled(U) = HeldBelow(T, b)
      /\ DOMAIN U = DOMAIN S /\ \A x \in DOMAIN U : Alike(U[x], S[x])
  <2>1. DOMAIN NoTree = {}
    BY DEF NoTree
  <2>2. CASE r = Root
    <3> DEFINE g == T[Root].geometry
    <3>1. g \in [x : Int, y : Int, width : Int, height : Int]
      BY <1>2, <2>2 DEF Shape, GoodNode, Node
    <3>2. U = [S EXCEPT ![Root].geometry = g]
      BY <2>2
    <3> HIDE DEF g, U
    <3>3. /\ Shape(U) /\ (Whole(S) => Whole(U))
          /\ DOMAIN U = DOMAIN S /\ Tiled(U) = Tiled(S)
          /\ \A x \in DOMAIN S : Alike(U[x], S[x])
      <4>1. Shape(S) /\ Root \in DOMAIN S
        BY <1>4
      <4>2. QED
        BY <3>1, <3>2, <4>1, GeometryGood
    <3>4. QED
      BY <1>4, <2>1, <3>3
  <2>3. CASE r # Root
    BY <1>4, <2>1, <2>3 DEF Alike
  <2>4. QED
    BY <2>2, <2>3
<1> HIDE DEF U
<1>6. ASSUME NEW q \in DOMAIN T, ~Extends(r, q), IsLeaf(T, q), T[q].toplevel \in Tiled(U)
      PROVE  FALSE
  <2>1. PICK e \in DOMAIN T :
          Extends(b, e) /\ IsLeaf(T, e) /\ T[e].toplevel # None /\ T[e].toplevel = T[q].toplevel
    BY <1>5, <1>6 DEF HeldBelow
  <2>2. q = e
    BY <1>6, <2>1 DEF Shape, Distinct
  <2>3. q \in Pos
    BY DEF Shape
  <2>4. Extends(r, q)
    <3>1. PICK c \in Side : b = r \o <<c>>
      BY <1>2 DEF Side
    <3>2. Extends(r \o <<c>>, q)
      BY <2>1, <2>2, <3>1
    <3>3. QED
      BY <1>2, <2>3, <3>2, ExtendsIs
  <2>5. QED
    BY <1>6, <2>4
<1>7. Grafts(U, T, p)
  BY <1>5, <1>6 DEF Grafts, S, b, r
<1>8. QED
  BY <1>3, <1>7 DEF r

\* The tree in which the sibling has taken the parent's place.
LEMMA GraftGood ==
  ASSUME NEW T, Shape(T), NEW p \in DOMAIN T, p # Root, Sibling(p) \in DOMAIN T
  PROVE  /\ Shape(Graft(T, p))
         /\ Whole(T) => Whole(Graft(T, p))
<1>1. PICK U : Grafts(U, T, p) /\ Graft(T, p) = Replace(T, Parent(p), U)
  BY GraftIs
<1>2. Parent(p) \in DOMAIN T
  BY ParentIs
<1> DEFINE r == Parent(p)
<1>3. /\ Shape(U) /\ U # NoTree /\ (Whole(T) => Whole(U))
      /\ \A q \in DOMAIN T : ~Extends(r, q) /\ IsLeaf(T, q) => T[q].toplevel \notin Tiled(U)
  BY <1>1 DEF Grafts
<1> HIDE DEF r
<1>4. Shape(Replace(T, r, U)) /\ (Whole(T) /\ Whole(U) => Whole(Replace(T, r, U)))
  BY <1>2, <1>3, ReplaceGood DEF r
<1>5. QED
  BY <1>1, <1>3, <1>4 DEF r

\* The tree without a second child and all below it.
LEMMA PruneGood ==
  ASSUME NEW T, Shape(T), NEW p \in Pos, p # Root, Ext!Last(p) = 2
  PROVE  Shape([q \in DOMAIN T \ Below(T, p) |-> T[q]])
<1> DEFINE U == [q \in DOMAIN T \ Below(T, p) |-> T[q]]
<1>1. DOMAIN T \subseteq Pos /\ 1 \in Side
  BY DEF Shape, Side
<1>2. \A q : q \in DOMAIN U <=> q \in DOMAIN T /\ ~Extends(p, q)
  BY <1>1, ExtendsIs DEF Below
<1>3. \A q \in DOMAIN U : U[q] = T[q]
  OBVIOUS
<1>4. U = [q \in DOMAIN U |-> U[q]]
  OBVIOUS
<1> HIDE DEF U
<1>5. U \in [DOMAIN U -> GoodNode]
  <2>1. \A q \in DOMAIN U : U[q] \in GoodNode
    BY <1>2, <1>3 DEF Shape
  <2>2. QED
    BY <1>4, <2>1
<1>6. DOMAIN U \subseteq Pos
  BY <1>1, <1>2
<1>7. \A q \in DOMAIN U : IsLeaf(U, q) <=> IsLeaf(T, q)
  BY <1>3 DEF IsLeaf
<1>8. Distinct(U)
  BY <1>2, <1>3, <1>7 DEF Shape, Distinct
<1>9. Bounded(U)
  BY <1>2 DEF Shape, Bounded
<1>10. Rooted(U)
  <2>1. ASSUME NEW q \in DOMAIN U, q # Root
        PROVE  \E r \in DOMAIN U, c \in Side : ~IsLeaf(U, r) /\ q = r \o <<c>>
    <3>1. PICK r \in DOMAIN T, c \in Side : ~IsLeaf(T, r) /\ q = r \o <<c>>
      BY <1>2, <2>1 DEF Shape, Rooted
    <3>2. ~Extends(p, r)
      <4>1. Extends(p, r) => Extends(p, r \o <<c>>)
        BY <1>1, ExtendsIs
      <4>2. QED
        BY <1>2, <2>1, <3>1, <4>1
    <3>3. r \in DOMAIN U /\ ~IsLeaf(U, r)
      BY <1>2, <1>7, <3>1, <3>2
    <3>4. QED
      BY <3>1, <3>3
  <2>2. QED
    BY <2>1 DEF Rooted
<1>11. Based(U)
  <2>1. ASSUME NEW q \in DOMAIN U, ~IsLeaf(U, q) PROVE q \o <<1>> \in DOMAIN U
    <3>1. q \in DOMAIN T /\ ~Extends(p, q) /\ ~IsLeaf(T, q) /\ q \in Pos
      BY <1>1, <1>2, <1>7, <2>1
    <3>2. q \o <<1>> \in DOMAIN T
      BY <3>1 DEF Shape, Based
    <3>3. p # q \o <<1>>
      <4> DEFINE u == q \o <<1>>
      <4>1. Ext!Last(u) = 1
        BY <1>1, <3>1, ChildPos
      <4> HIDE DEF u
      <4>2. p # u
        BY <4>1
      <4>3. QED
        BY <4>2 DEF u
    <3>4. ~Extends(p, q \o <<1>>)
      BY <1>1, <3>1, <3>3, ExtendsIs
    <3>5. QED
      BY <1>2, <3>2, <3>4
  <2>2. QED
    BY <2>1 DEF Based
<1>12. QED
  BY <1>5, <1>6, <1>8, <1>9, <1>10, <1>11 DEF Shape, U

\* remove keeps a tree whole unless it reads what it freed.
LEMMA RemovedGood ==
  ASSUME NEW T, Shape(T), NEW tl \in Tiled(T), NEW U \in Removed(T, tl)
  PROVE  /\ Shape(U)
         /\ Whole(T) /\ ~ReadsFreed(T, NodeOf(T, tl)) => Whole(U)
<1> DEFINE p == NodeOf(T, tl)
           g == Graft(T, p)
<1>1. p \in DOMAIN T /\ IsLeaf(T, p) /\ T[p].toplevel = tl /\ p \in Pos
  BY NodeOfIs DEF Shape
<1>2. Holding(T, tl) # {}
  BY TiledIs DEF Shape
<1>3. /\ p = Root => U = NoTree
      /\ p # Root /\ Sibling(p) \notin DOMAIN T => U = [T EXCEPT ![p].toplevel = None]
      /\ p # Root /\ Sibling(p) \in DOMAIN T =>
           \/ U = g
           \/ ReadsFreed(T, p) /\ U = [q \in DOMAIN g \ Below(g, <<2>>) |-> g[q]]
  BY <1>2 DEF Removed
<1> HIDE DEF p
<1>4. CASE p = Root
  BY <1>3, <1>4, NoTreeGood
<1>5. CASE p # Root /\ Sibling(p) \notin DOMAIN T
  <2>1. ~Whole(T)
    <3>1. Parent(p) \in DOMAIN T /\ ~IsLeaf(T, Parent(p))
      BY <1>1, <1>5, ParentIs
    <3>2. Sibling(p) \in {Parent(p) \o <<1>>, Parent(p) \o <<2>>}
      BY <1>1, <1>5, SiblingIs
    <3>3. Parent(p) \o <<1>> \in DOMAIN T
      BY <3>1 DEF Shape, Based
    <3>4. QED
      BY <1>5, <3>1, <3>2, <3>3 DEF Whole
  <2>2. U = [q \in DOMAIN T |-> IF q = p THEN [T[p] EXCEPT !.toplevel = None] ELSE T[q]]
    BY <1>3, <1>5
  <2>3. T \in [DOMAIN T -> GoodNode]
    BY DEF Shape
  <2>4. /\ [T[p] EXCEPT !.toplevel = None] \in GoodNode
        /\ [T[p] EXCEPT !.toplevel = None].split = T[p].split
        /\ [T[p] EXCEPT !.toplevel = None].toplevel = None
    BY <1>1, <2>3 DEF GoodNode, Node
  <2>5. U \in [DOMAIN T -> GoodNode]
    BY <2>2, <2>3, <2>4
  <2>6. \A q \in DOMAIN T : IsLeaf(U, q) <=> IsLeaf(T, q)
    BY <2>2, <2>4 DEF IsLeaf
  <2>7. \A q \in DOMAIN T : U[q].toplevel # None => U[q].toplevel = T[q].toplevel
    BY <2>2, <2>4
  <2>8. DOMAIN U = DOMAIN T
    BY <2>2
  <2>9. Distinct(U)
    BY <2>6, <2>7, <2>8 DEF Shape, Distinct
  <2>10. Shape(U)
    BY <2>5, <2>6, <2>9, SameShape
  <2>11. QED
    BY <2>1, <2>10
<1>6. CASE p # Root /\ Sibling(p) \in DOMAIN T
  <2>1. Shape(g) /\ (Whole(T) => Whole(g))
    BY <1>1, <1>6, GraftGood
  <2> HIDE DEF g
  <2>2. CASE U = g
    BY <2>1, <2>2
  <2>3. CASE ReadsFreed(T, p) /\ U = [q \in DOMAIN g \ Below(g, <<2>>) |-> g[q]]
    <3>1. Shape([q \in DOMAIN g \ Below(g, <<2>>) |-> g[q]])
      <4> DEFINE h == <<2>>
      <4>1. h \in Pos /\ h # Root /\ Ext!Last(h) = 2
        <5>1. 2 \in Side /\ Root \in Pos /\ Root \o <<2>> = h
          BY TopPos DEF Side
        <5>2. QED
          BY <5>1, ChildPos
      <4> HIDE DEF h
      <4>2. Shape([q \in DOMAIN g \ Below(g, h) |-> g[q]])
        BY <2>1, <4>1, PruneGood
      <4>3. QED
        BY <4>2 DEF h
    <3>2. QED
      BY <2>3, <3>1 DEF p
  <2>4. QED
    BY <1>3, <1>6, <2>2, <2>3
<1>7. QED
  BY <1>4, <1>5, <1>6 DEF p

-----------------------------------------------------------------------------
(* Layout *)

Box == [x : Int, y : Int, width : Nat, height : Nat]

\* The share of a length.
LEMMA Share ==
  ASSUME NEW w \in Nat, NEW a \in Int, NEW b \in Int, 0 < a, a < b
  PROVE  (w * a) \div b \in 0 .. w
<1> DEFINE m == w * a
           q == m \div b
<1>1. m \in Int /\ 0 <= m
  <2>1. a \in Nat
    OBVIOUS
  <2>2. QED
    BY <2>1
<1>2. m <= w * b
  <2>1. b - a \in Nat
    OBVIOUS
  <2>2. w * (b - a) \in Nat
    BY <2>1
  <2>3. w * (b - a) = w * b - w * a
    OBVIOUS
  <2>4. QED
    BY <2>2, <2>3
<1> HIDE DEF m
<1>3. q \in Int /\ b * q <= m /\ m < b * q + b
  BY <1>1
<1> HIDE DEF q
<1>4. 0 <= q
  <2>1. ASSUME q < 0 PROVE FALSE
    <3>1. 0 - 1 - q \in Nat /\ b \in Nat
      BY <1>3, <2>1
    <3>2. b * (0 - 1 - q) \in Nat
      BY <3>1
    <3>3. b * (0 - 1 - q) = 0 - b - b * q
      BY <1>3
    <3>4. b * q \in Int
      BY <1>3
    <3>5. QED
      BY <1>1, <1>3, <3>2, <3>3, <3>4
  <2>2. QED
    BY <1>3, <2>1
<1>5. q <= w
  <2>1. ASSUME w < q PROVE FALSE
    <3>1. q - w - 1 \in Nat /\ b \in Nat
      BY <1>3, <2>1
    <3>2. b * (q - w - 1) \in Nat
      BY <3>1
    <3>3. b * (q - w - 1) = b * q - b * w - b
      BY <1>3
    <3>4. b * w = w * b /\ b * w \in Int /\ b * q \in Int
      BY <1>3
    <3>5. QED
      BY <1>1, <1>2, <1>3, <3>2, <3>3, <3>4
  <2>2. QED
    BY <1>3, <2>1
<1>6. QED
  BY <1>3, <1>4, <1>5 DEF q, m

\* The sizes of the two parts of a box.
Cut(node, l) == (l * node.ratio[1]) \div node.ratio[2]
Sizes(node, b, first, second) ==
  /\ node.split = "horizontal" =>
       /\ first.width = Cut(node, b.width) /\ second.width = b.width - Cut(node, b.width)
       /\ first.height = b.height /\ second.height = b.height
  /\ node.split = "vertical" =>
       /\ first.height = Cut(node, b.height) /\ second.height = b.height - Cut(node, b.height)
       /\ first.width = b.width /\ second.width = b.width

\* The two parts of a box are boxes, and each point of it is in one of them.
LEMMA PartIs ==
  ASSUME NEW node \in GoodNode, node.split # "none", NEW b \in Box
  PROVE  /\ \A c \in Side : Part(node, b, c) \in Box
         /\ \A x, y \in Int :
              /\ Inside(x, y, b) <=>
                   Inside(x, y, Part(node, b, 1)) \/ Inside(x, y, Part(node, b, 2))
              /\ ~(Inside(x, y, Part(node, b, 1)) /\ Inside(x, y, Part(node, b, 2)))
         /\ Sizes(node, b, Part(node, b, 1), Part(node, b, 2))
<1> DEFINE w == (b.width * node.ratio[1]) \div node.ratio[2]
           h == (b.height * node.ratio[1]) \div node.ratio[2]
<1>1. /\ node.ratio[1] \in Int /\ node.ratio[2] \in Int
      /\ 0 < node.ratio[1] /\ node.ratio[1] < node.ratio[2]
      /\ node.split \in {"horizontal", "vertical"}
  BY DEF GoodNode, Node
<1>2. b.width \in Nat /\ b.height \in Nat /\ b.x \in Int /\ b.y \in Int
  BY DEF Box
<1>3. w \in 0 .. b.width
  BY <1>1, <1>2, Share
<1>4. h \in 0 .. b.height
  BY <1>1, <1>2, Share
<1> DEFINE L == [b EXCEPT !.width = w]
           R == [b EXCEPT !.x = @ + w, !.width = @ - w]
           U == [b EXCEPT !.height = h]
           D == [b EXCEPT !.y = @ + h, !.height = @ - h]
<1>5. /\ node.split = "horizontal" => Part(node, b, 1) = L /\ Part(node, b, 2) = R
      /\ node.split = "vertical" => Part(node, b, 1) = U /\ Part(node, b, 2) = D
  <2>1. node.split = "horizontal" => Part(node, b, 1) = L
    BY DEF Part
  <2>2. node.split = "horizontal" => Part(node, b, 2) = R
    BY DEF Part
  <2>3. node.split = "vertical" => Part(node, b, 1) = U
    BY DEF Part
  <2>4. node.split = "vertical" => Part(node, b, 2) = D
    BY DEF Part
  <2>5. QED
    BY <2>1, <2>2, <2>3, <2>4
<1> HIDE DEF w, h
<1>6. b \in [x : Int, y : Int, width : Nat, height : Nat]
  BY DEF Box
<1>7. /\ L \in Box /\ L.x = b.x /\ L.y = b.y /\ L.width = w /\ L.height = b.height
      /\ R \in Box /\ R.x = b.x + w /\ R.y = b.y /\ R.width = b.width - w
      /\ R.height = b.height
  <2> DEFINE e == [b EXCEPT !.x = b.x + w]
  <2>1. L \in [x : Int, y : Int, width : Nat, height : Nat]
    BY <1>6, <1>3
  <2>2. L.x = b.x /\ L.y = b.y /\ L.width = w /\ L.height = b.height
    BY <1>6
  <2>3. e \in [x : Int, y : Int, width : Nat, height : Nat]
    BY <1>6, <1>2, <1>3
  <2>4. e.x = b.x + w /\ e.y = b.y /\ e.width = b.width /\ e.height = b.height
    BY <1>6
  <2>5. R = [e EXCEPT !.width = b.width - w]
    OBVIOUS
  <2>6. b.width - w \in Nat
    BY <1>2, <1>3
  <2> HIDE DEF e, R
  <2>7. R \in [x : Int, y : Int, width : Nat, height : Nat]
    BY <2>3, <2>5, <2>6
  <2>8. R.x = e.x /\ R.y = e.y /\ R.width = b.width - w /\ R.height = e.height
    BY <2>3, <2>5
  <2>9. QED
    BY <2>1, <2>2, <2>4, <2>7, <2>8 DEF Box
<1>8. /\ U \in Box /\ U.x = b.x /\ U.y = b.y /\ U.width = b.width /\ U.height = h
      /\ D \in Box /\ D.x = b.x /\ D.y = b.y + h /\ D.width = b.width
      /\ D.height = b.height - h
  <2> DEFINE e == [b EXCEPT !.y = b.y + h]
  <2>1. U \in [x : Int, y : Int, width : Nat, height : Nat]
    BY <1>6, <1>4
  <2>2. U.x = b.x /\ U.y = b.y /\ U.width = b.width /\ U.height = h
    BY <1>6
  <2>3. e \in [x : Int, y : Int, width : Nat, height : Nat]
    BY <1>6, <1>2, <1>4
  <2>4. e.x = b.x /\ e.y = b.y + h /\ e.width = b.width /\ e.height = b.height
    BY <1>6
  <2>5. D = [e EXCEPT !.height = b.height - h]
    OBVIOUS
  <2>6. b.height - h \in Nat
    BY <1>2, <1>4
  <2> HIDE DEF e, D
  <2>7. D \in [x : Int, y : Int, width : Nat, height : Nat]
    BY <2>3, <2>5, <2>6
  <2>8. D.x = e.x /\ D.y = e.y /\ D.width = e.width /\ D.height = b.height - h
    BY <2>3, <2>5
  <2>9. QED
    BY <2>1, <2>2, <2>4, <2>7, <2>8 DEF Box
<1> HIDE DEF L, R, U, D
<1>9. ASSUME NEW x \in Int, NEW y \in Int
      PROVE  /\ Inside(x, y, b) <=> Inside(x, y, L) \/ Inside(x, y, R)
             /\ ~(Inside(x, y, L) /\ Inside(x, y, R))
             /\ Inside(x, y, b) <=> Inside(x, y, U) \/ Inside(x, y, D)
             /\ ~(Inside(x, y, U) /\ Inside(x, y, D))
  BY <1>2, <1>3, <1>4, <1>7, <1>8 DEF Inside
<1>10. w = Cut(node, b.width) /\ h = Cut(node, b.height)
  BY DEF w, h, Cut
<1>11. Sizes(node, b, Part(node, b, 1), Part(node, b, 2))
  BY <1>5, <1>7, <1>8, <1>10 DEF Sizes
<1>12. CASE node.split = "horizontal"
  BY <1>5, <1>7, <1>9, <1>11, <1>12 DEF Side
<1>13. CASE node.split = "vertical"
  BY <1>5, <1>8, <1>9, <1>11, <1>13 DEF Side
<1>14. QED
  BY <1>1, <1>12, <1>13

\* The equation of the boxes, and a solution of it.
Boxing(f, T, D, b) ==
  \A p \in D :
    f[p] = IF p = Root THEN b ELSE Part(T[Parent(p)], f[Parent(p)], Ext!Last(p))

\* f is the boxes that layout gives the nodes.
Boxes(f, T, b) ==
  /\ f = [p \in DOMAIN T |->
            IF p = Root THEN b ELSE Part(T[Parent(p)], f[Parent(p)], Ext!Last(p))]
  /\ Layout(T, b) = [p \in DOMAIN T |-> [T[p] EXCEPT !.geometry = f[p]]]

LEMMA LayoutRecursion ==
  ASSUME NEW T, Shape(T), NEW b \in Box
  PROVE  \E f \in [DOMAIN T -> Box] : Boxes(f, T, b)
<1>1. PICK n \in Nat : \A p \in DOMAIN T : Len(p) <= n
  BY DEF Shape, Bounded
<1> DEFINE Level(m) == {p \in DOMAIN T : Len(p) <= m}
           Solved == {m \in 0 .. n : \E f \in [Level(m) -> Box] : Boxing(f, T, Level(m), b)}
<1>2. \A p \in DOMAIN T : p \in Pos /\ Len(p) \in Nat
  BY DEF Shape, Pos
<1>3. ASSUME NEW p \in DOMAIN T, p # Root
      PROVE  /\ Parent(p) \in DOMAIN T /\ Len(p) = Len(Parent(p)) + 1
             /\ Ext!Last(p) \in Side
             /\ T[Parent(p)] \in GoodNode /\ T[Parent(p)].split # "none"
  <2>1. Parent(p) \in DOMAIN T /\ ~IsLeaf(T, Parent(p)) /\ Ext!Last(p) \in Side
    BY <1>3, ParentIs
  <2>2. Len(p) = Len(Parent(p)) + 1
    BY <1>2, <1>3, ParentPos
  <2>3. QED
    BY <2>1, <2>2 DEF Shape, IsLeaf
<1>4. \A p \in DOMAIN T : Len(p) <= 0 => p = Root
  BY <1>2 DEF Pos, Root
<1>5. 0 \in Solved
  <2> DEFINE f == [p \in Level(0) |-> b]
  <2>1. f \in [Level(0) -> Box]
    OBVIOUS
  <2>2. Boxing(f, T, Level(0), b)
    BY <1>4 DEF Boxing
  <2>3. 0 \in 0 .. n
    OBVIOUS
  <2> HIDE DEF f, Level
  <2>4. \E g \in [Level(0) -> Box] : Boxing(g, T, Level(0), b)
    BY <2>1, <2>2
  <2>5. QED
    BY <2>3, <2>4
<1>6. ASSUME NEW m \in 0 .. n, m # 0, m - 1 \in Solved PROVE m \in Solved
  <2>1. PICK g \in [Level(m - 1) -> Box] : Boxing(g, T, Level(m - 1), b)
    BY <1>6
  <2> DEFINE step(p) == IF p = Root THEN b
                        ELSE Part(T[Parent(p)], g[Parent(p)], Ext!Last(p))
             f == [p \in Level(m) |-> step(p)]
  <2>2. \A p \in Level(m - 1) : g[p] = step(p)
    BY <2>1 DEF Boxing
  <2>3. ASSUME NEW p \in Level(m), p # Root
        PROVE  Parent(p) \in Level(m - 1) /\ Parent(p) \in Level(m)
    BY <1>2, <1>3, <2>3
  <2>4. ASSUME NEW p \in Level(m) PROVE step(p) \in Box
    <3>1. CASE p = Root
      BY <3>1
    <3>2. CASE p # Root
      <4>1. g[Parent(p)] \in Box
        BY <2>1, <2>3, <3>2
      <4>2. QED
        BY <1>3, <3>2, <4>1, PartIs
    <3>3. QED
      BY <3>1, <3>2
  <2>5. f \in [Level(m) -> Box]
    BY <2>4
  <2>6. \A p \in Level(m - 1) : p \in Level(m) /\ f[p] = g[p]
    BY <1>2, <2>2
  <2>7. Boxing(f, T, Level(m), b)
    <3>1. ASSUME NEW p \in Level(m)
          PROVE  f[p] = IF p = Root THEN b
                        ELSE Part(T[Parent(p)], f[Parent(p)], Ext!Last(p))
      <4>1. f[p] = step(p)
        OBVIOUS
      <4>2. p # Root => f[Parent(p)] = g[Parent(p)]
        BY <2>3, <2>6
      <4> HIDE DEF f
      <4>3. QED
        BY <4>1, <4>2
    <3> HIDE DEF f
    <3>2. QED
      BY <3>1 DEF Boxing
  <2> HIDE DEF f
  <2>8. QED
    BY <2>5, <2>7
<1>7. n \in Solved
  <2> HIDE DEF Solved
  <2>1. 0 .. n \subseteq Solved
    BY <1>5, <1>6, UpTo
  <2>2. QED
    BY <2>1
<1>8. Level(n) = DOMAIN T
  BY <1>1
<1> DEFINE Solves(f) ==
             f = [p \in DOMAIN T |->
                    IF p = Root THEN b
                    ELSE Part(T[Parent(p)], f[Parent(p)], Ext!Last(p))]
<1>9. PICK g \in [DOMAIN T -> Box] : Boxing(g, T, DOMAIN T, b)
  BY <1>7, <1>8
<1>10. Solves(g)
  BY <1>9 DEF Boxing
<1>11. ASSUME NEW f, Solves(f) PROVE f = g
  <2> DEFINE Agree == {p \in DOMAIN T : f[p] = g[p]}
  <2>1. \A p \in DOMAIN T :
          f[p] = IF p = Root THEN b
                 ELSE Part(T[Parent(p)], f[Parent(p)], Ext!Last(p))
    BY <1>11
  <2>2. \A p \in DOMAIN T :
          g[p] = IF p = Root THEN b
                 ELSE Part(T[Parent(p)], g[Parent(p)], Ext!Last(p))
    BY <1>9 DEF Boxing
  <2>3. Root \in DOMAIN T => Root \in Agree
    BY <2>1, <2>2
  <2>4. ASSUME NEW p \in DOMAIN T, NEW c \in Side,
               p \in Agree, ~IsLeaf(T, p), p \o <<c>> \in DOMAIN T
        PROVE  p \o <<c>> \in Agree
    <3> DEFINE q == p \o <<c>>
    <3>1. Parent(q) = p /\ q # Root /\ q \in DOMAIN T
      BY <1>2, <2>4, ChildPos
    <3> HIDE DEF q
    <3>2. q \in Agree
      BY <2>1, <2>2, <2>4, <3>1
    <3>3. QED
      BY <3>2 DEF q
  <2> HIDE DEF Agree
  <2>5. DOMAIN T \subseteq Agree
    BY <2>3, <2>4, RootInduction
  <2>6. DOMAIN f = DOMAIN T /\ f = [p \in DOMAIN f |-> f[p]]
    BY <1>11
  <2>7. QED
    BY <2>5, <2>6 DEF Agree
<1>12. Solves(CHOOSE f : Solves(f))
  <2> HIDE DEF Solves
  <2>1. QED
    BY <1>10
<1>13. Layout(T, b) = [p \in DOMAIN T |-> [T[p] EXCEPT !.geometry = (CHOOSE f : Solves(f))[p]]]
  BY DEF Layout
<1>14. (CHOOSE f : Solves(f)) = g
  <2> HIDE DEF Solves
  <2>1. QED
    BY <1>11, <1>12
<1>15. Boxes(g, T, b)
  BY <1>10, <1>13, <1>14 DEF Boxes
<1>16. QED
  BY <1>9, <1>15

\* Layout changes the boxes alone.
LEMMA LayoutGood ==
  ASSUME NEW T, Shape(T), NEW b \in Box
  PROVE  /\ DOMAIN Layout(T, b) = DOMAIN T
         /\ \A p \in DOMAIN T :
              /\ Layout(T, b)[p].toplevel = T[p].toplevel
              /\ IsLeaf(Layout(T, b), p) <=> IsLeaf(T, p)
         /\ Shape(Layout(T, b))
         /\ Whole(T) => Whole(Layout(T, b))
         /\ Tiled(Layout(T, b)) = Tiled(T)
<1>1. PICK f \in [DOMAIN T -> Box] :
        Layout(T, b) = [p \in DOMAIN T |-> [T[p] EXCEPT !.geometry = f[p]]]
  BY LayoutRecursion DEF Boxes
<1> DEFINE L == Layout(T, b)
<1>2. \A p \in DOMAIN T : T[p] \in GoodNode /\ f[p] \in Box
  BY DEF Shape
<1>3. ASSUME NEW p \in DOMAIN T
      PROVE  /\ [T[p] EXCEPT !.geometry = f[p]] \in GoodNode
             /\ [T[p] EXCEPT !.geometry = f[p]].split = T[p].split
             /\ [T[p] EXCEPT !.geometry = f[p]].toplevel = T[p].toplevel
  <2>1. f[p] \in [x : Int, y : Int, width : Int, height : Int]
    BY <1>2 DEF Box
  <2>2. QED
    BY <1>2, <2>1 DEF GoodNode, Node
<1>4. DOMAIN L = DOMAIN T /\ \A p \in DOMAIN T : L[p] = [T[p] EXCEPT !.geometry = f[p]]
  BY <1>1
<1>5. L \in [DOMAIN T -> GoodNode]
  BY <1>1, <1>3
<1> HIDE DEF L
<1>6. \A p \in DOMAIN T : L[p].toplevel = T[p].toplevel /\ L[p].split = T[p].split
  BY <1>3, <1>4
<1>7. \A p \in DOMAIN T : IsLeaf(L, p) <=> IsLeaf(T, p)
  BY <1>6 DEF IsLeaf
<1>8. Distinct(L)
  BY <1>4, <1>6, <1>7 DEF Shape, Distinct
<1>9. Whole(T) => \A p \in DOMAIN T : IsLeaf(T, p) => L[p].toplevel # None
  BY <1>6 DEF Whole
<1>10. Shape(L) /\ (Whole(T) => Whole(L))
  BY <1>5, <1>7, <1>8, <1>9, SameShape
<1>11. Tiled(L) = Tiled(T)
  <2>1. \A u : u \in Tiled(L) <=> u \in Tiled(T)
    BY <1>4, <1>6, <1>7, TiledIs DEF Shape
  <2>2. QED
    BY <2>1
<1>12. QED
  BY <1>4, <1>6, <1>7, <1>10, <1>11 DEF L

-----------------------------------------------------------------------------
(* Resize and swap *)

\* adjust_ratio.
LEMMA ClampedIs ==
  ASSUME NEW r \in Int \X Int, 0 <= r[1], 0 < r[2]
  PROVE  /\ Clamped(r) \in Int \X Int
         /\ 0 < Clamped(r)[1] /\ Clamped(r)[1] < Clamped(r)[2]
<1>1. CASE 10 * r[1] < r[2]
  <2>1. Clamped(r) = <<1, 10>>
    BY <1>1 DEF Clamped
  <2>2. QED
    BY <2>1
<1>2. CASE ~(10 * r[1] < r[2]) /\ 10 * r[1] > 9 * r[2]
  <2>1. Clamped(r) = <<9, 10>>
    BY <1>2 DEF Clamped
  <2>2. QED
    BY <2>1
<1>3. CASE ~(10 * r[1] < r[2]) /\ ~(10 * r[1] > 9 * r[2])
  <2>1. Clamped(r) = r
    BY <1>3 DEF Clamped
  <2>2. 0 < r[1] /\ r[1] < r[2]
    BY <1>3
  <2>3. QED
    BY <2>1, <2>2
<1>4. QED
  BY <1>1, <1>2, <1>3

\* U is L with the ratios at A set by the cursor.
Dragged(U, L, A, c) ==
  /\ \A q \in A : CursorRatio(L, q, c)[1] >= 0 /\ CursorRatio(L, q, c)[2] > 0
  /\ U = [q \in DOMAIN L |->
            IF q \in A THEN [L[q] EXCEPT !.ratio = Clamped(CursorRatio(L, q, c))]
            ELSE L[q]]

\* A resize changes ratios, within their limits, of a tree that was laid out.
LEMMA ResizeIs ==
  ASSUME NEW T, NEW tl, NEW edges, NEW c
  PROVE  \E A : Dragged(Resize(T, tl, edges, c), Layout(T, Bounds), A, c)
<1> DEFINE L == Layout(T, Bounds)
           p == NodeOf(L, tl)
           at(i) == SubSeq(p, 1, i)
           inner(i) == InnerEdge(L[at(i)].split, p[i + 1])
           dragged == CHOOSE dragged :
             dragged = [i \in 0 .. Len(p) |->
               IF i = Len(p) THEN edges
               ELSE dragged[i + 1] \cap (Across(L[at(i)].split) \cup {inner(i)})]
           adjusted == {i \in 0 .. Len(p) - 1 :
                          /\ inner(i) \in dragged[i + 1]
                          /\ CursorRatio(L, at(i), c)[1] >= 0
                          /\ CursorRatio(L, at(i), c)[2] > 0}
           A == {at(i) : i \in adjusted}
<1>1. Resize(T, tl, edges, c) =
        [q \in DOMAIN L |->
           IF \E i \in adjusted : q = at(i)
           THEN [L[q] EXCEPT !.ratio = Clamped(CursorRatio(L, q, c))]
           ELSE L[q]]
  BY DEF Resize
<1>2. \A q : (\E i \in adjusted : q = at(i)) <=> q \in A
  OBVIOUS
<1>3. \A i \in adjusted : CursorRatio(L, at(i), c)[1] >= 0 /\ CursorRatio(L, at(i), c)[2] > 0
  OBVIOUS
<1> HIDE DEF adjusted, at
<1>4. \A q \in A : CursorRatio(L, q, c)[1] >= 0 /\ CursorRatio(L, q, c)[2] > 0
  BY <1>3
<1> HIDE DEF A, L
<1>5. Resize(T, tl, edges, c) =
        [q \in DOMAIN L |->
           IF q \in A
           THEN [L[q] EXCEPT !.ratio = Clamped(CursorRatio(L, q, c))]
           ELSE L[q]]
  BY <1>1, <1>2
<1>6. Dragged(Resize(T, tl, edges, c), L, A, c)
  BY <1>4, <1>5 DEF Dragged
<1>7. QED
  BY <1>6 DEF L

\* The same leaves with the same windows.
SameLeaves(U, T) ==
  /\ DOMAIN U = DOMAIN T
  /\ \A p \in DOMAIN T :
       (IsLeaf(U, p) <=> IsLeaf(T, p)) /\ U[p].toplevel = T[p].toplevel

LEMMA ResizeGood ==
  ASSUME NEW T, Shape(T), NEW tl, NEW edges, NEW c \in Cursors
  PROVE  /\ Shape(Resize(T, tl, edges, c))
         /\ Whole(T) => Whole(Resize(T, tl, edges, c))
         /\ SameLeaves(Resize(T, tl, edges, c), T)
<1> DEFINE L == Layout(T, Bounds)
           U == Resize(T, tl, edges, c)
<1>1. Bounds \in Box /\ c.x \in Int /\ c.y \in Int
  BY BSPAssumption DEF Box
<1>2. Shape(L) /\ (Whole(T) => Whole(L)) /\ SameLeaves(L, T)
  BY <1>1, LayoutGood DEF SameLeaves
<1>3. PICK A :
        /\ \A q \in A : CursorRatio(L, q, c)[1] >= 0 /\ CursorRatio(L, q, c)[2] > 0
        /\ U = [q \in DOMAIN L |->
                  IF q \in A THEN [L[q] EXCEPT !.ratio = Clamped(CursorRatio(L, q, c))]
                  ELSE L[q]]
  <2>1. PICK A : Dragged(U, L, A, c)
    BY ResizeIs
  <2>2. QED
    BY <2>1 DEF Dragged
<1> HIDE DEF L, U
<1>4. \A q \in DOMAIN L : L[q] \in GoodNode
  BY <1>2 DEF Shape
<1>5. ASSUME NEW q \in DOMAIN L
      PROVE  U[q] \in GoodNode /\ U[q].split = L[q].split /\ U[q].toplevel = L[q].toplevel
  <2>1. CASE q \notin A
    BY <1>3, <1>4, <2>1
  <2>2. CASE q \in A
    <3> DEFINE r == CursorRatio(L, q, c)
    <3>1. r \in Int \X Int
      BY <1>1, <1>4 DEF CursorRatio, GoodNode, Node
    <3>2. 0 <= r[1] /\ 0 < r[2]
      <4>1. r[1] >= 0 /\ r[2] > 0
        BY <1>3, <2>2
      <4> HIDE DEF r
      <4>2. r[1] \in Int /\ r[2] \in Int
        BY <3>1
      <4>3. QED
        BY <4>1, <4>2
    <3>3. U[q] = [L[q] EXCEPT !.ratio = Clamped(r)]
      BY <1>3, <2>2
    <3> HIDE DEF r
    <3> DEFINE k == Clamped(r)
    <3>4. k \in Int \X Int /\ 0 < k[1] /\ k[1] < k[2]
      BY <3>1, <3>2, ClampedIs
    <3> HIDE DEF k
    <3>5. L[q] \in Node
      BY <1>4 DEF GoodNode
    <3>6. U[q] = [L[q] EXCEPT !.ratio = k]
      BY <3>3 DEF k
    <3>7. /\ U[q] \in Node /\ U[q].ratio = k
          /\ U[q].split = L[q].split /\ U[q].toplevel = L[q].toplevel
      BY <3>4, <3>5, <3>6 DEF Node
    <3>8. QED
      BY <3>4, <3>7 DEF GoodNode
  <2>3. QED
    BY <2>1, <2>2
<1>6. U \in [DOMAIN L -> GoodNode]
  BY <1>3, <1>5
<1>7. \A q \in DOMAIN L : IsLeaf(U, q) <=> IsLeaf(L, q)
  BY <1>5 DEF IsLeaf
<1>8. DOMAIN U = DOMAIN L
  BY <1>3
<1>9. Distinct(U)
  BY <1>2, <1>5, <1>7, <1>8 DEF Shape, Distinct
<1>10. Whole(L) => \A q \in DOMAIN L : IsLeaf(L, q) => U[q].toplevel # None
  BY <1>5 DEF Whole
<1>11. Shape(U) /\ (Whole(L) => Whole(U))
  BY <1>2, <1>6, <1>7, <1>9, <1>10, SameShape
<1>12. SameLeaves(U, T)
  BY <1>2, <1>5, <1>7, <1>8 DEF SameLeaves
<1>13. QED
  BY <1>2, <1>11, <1>12 DEF U

\* U is T with the windows renamed.
Renamed(U, T, m) ==
  /\ DOMAIN U = DOMAIN T
  /\ \A p \in DOMAIN T :
       /\ IsLeaf(U, p) <=> IsLeaf(T, p)
       /\ IsLeaf(T, p) /\ T[p].toplevel \in Toplevels =>
            U[p].toplevel = m[T[p].toplevel]

\* The exchange of two windows.
Exchanged(a, b) == [w \in Toplevels |-> IF w = a THEN b ELSE IF w = b THEN a ELSE w]

\* Two leaves exchange what they hold.
LEMMA SwapGood ==
  ASSUME NEW T, Shape(T), NEW a \in Tiled(T), NEW b \in Tiled(T), a # b
  PROVE  /\ Shape(Swap(T, a, b))
         /\ Whole(T) => Whole(Swap(T, a, b))
         /\ Renamed(Swap(T, a, b), T, Exchanged(a, b))
<1> DEFINE p == NodeOf(T, a)
           q == NodeOf(T, b)
           U == Swap(T, a, b)
<1>1. /\ p \in DOMAIN T /\ IsLeaf(T, p) /\ T[p].toplevel = a /\ a # None
      /\ q \in DOMAIN T /\ IsLeaf(T, q) /\ T[q].toplevel = b /\ b # None
  BY NodeOfIs
<1>2. U = [T EXCEPT ![p].toplevel = b, ![q].toplevel = a]
  BY DEF Swap
<1> HIDE DEF p, q, U
<1>3. p # q
  BY <1>1
<1>4. T \in [DOMAIN T -> GoodNode]
  BY DEF Shape
<1>5. U = [k \in DOMAIN T |->
             IF k = q THEN [T[q] EXCEPT !.toplevel = a]
             ELSE IF k = p THEN [T[p] EXCEPT !.toplevel = b] ELSE T[k]]
  <2> DEFINE V == [T EXCEPT ![p].toplevel = b]
  <2>1. DOMAIN V = DOMAIN T /\ V[q] = T[q]
    BY <1>3
  <2>2. V = [k \in DOMAIN T |-> IF k = p THEN [T[p] EXCEPT !.toplevel = b] ELSE T[k]]
    OBVIOUS
  <2>3. U = [V EXCEPT ![q].toplevel = a]
    BY <1>2
  <2> HIDE DEF V
  <2>4. U = [k \in DOMAIN V |-> IF k = q THEN [V[q] EXCEPT !.toplevel = a] ELSE V[k]]
    BY <2>3
  <2>5. QED
    BY <2>1, <2>2, <2>4
<1>6. a \in Toplevels /\ b \in Toplevels
  BY TiledType
<1>7. \A n \in GoodNode, w \in Toplevels :
         /\ [n EXCEPT !.toplevel = w] \in GoodNode
         /\ [n EXCEPT !.toplevel = w].split = n.split
         /\ [n EXCEPT !.toplevel = w].toplevel = w
  BY DEF GoodNode, Node
<1>8. T[p] \in GoodNode /\ T[q] \in GoodNode
  BY <1>1, <1>4
<1>9. /\ [T[q] EXCEPT !.toplevel = a] \in GoodNode
      /\ [T[q] EXCEPT !.toplevel = a].split = T[q].split
      /\ [T[q] EXCEPT !.toplevel = a].toplevel = a
  BY <1>6, <1>7, <1>8
<1>10. /\ [T[p] EXCEPT !.toplevel = b] \in GoodNode
      /\ [T[p] EXCEPT !.toplevel = b].split = T[p].split
      /\ [T[p] EXCEPT !.toplevel = b].toplevel = b
  BY <1>6, <1>7, <1>8
<1>11. U \in [DOMAIN T -> GoodNode]
  BY <1>4, <1>5, <1>9, <1>10
<1>12. \A k \in DOMAIN T :
         /\ U[k].split = T[k].split
         /\ U[k].toplevel = IF k = q THEN a ELSE IF k = p THEN b ELSE T[k].toplevel
  BY <1>5, <1>9, <1>10
<1>13. \A k \in DOMAIN T : IsLeaf(U, k) <=> IsLeaf(T, k)
  BY <1>12 DEF IsLeaf
<1>14. DOMAIN U = DOMAIN T
  BY <1>5
<1>15. \A k, l \in DOMAIN T :
         IsLeaf(T, k) /\ IsLeaf(T, l) /\ T[k].toplevel # None /\ T[k].toplevel = T[l].toplevel
           => k = l
  <2>1. Distinct(T)
    BY DEF Shape
  <2>2. QED
    BY <2>1 DEF Distinct
<1>16. Distinct(U)
  <2>1. ASSUME NEW k \in DOMAIN T, NEW l \in DOMAIN T, IsLeaf(T, k), IsLeaf(T, l),
               U[k].toplevel # None, U[k].toplevel = U[l].toplevel
        PROVE  k = l
    BY <1>1, <1>3, <1>12, <1>15, <2>1
  <2>2. QED
    BY <1>13, <1>14, <2>1 DEF Distinct
<1>17. Whole(T) => \A k \in DOMAIN T : IsLeaf(T, k) => U[k].toplevel # None
  BY <1>1, <1>12 DEF Whole
<1>18. Shape(U) /\ (Whole(T) => Whole(U))
  BY <1>11, <1>13, <1>16, <1>17, SameShape
<1>19. Renamed(U, T, Exchanged(a, b))
  <2>1. ASSUME NEW k \in DOMAIN T, IsLeaf(T, k), T[k].toplevel \in Toplevels
        PROVE  U[k].toplevel = Exchanged(a, b)[T[k].toplevel]
    <3>1. T[k].toplevel # None
      BY <2>1, BSPAssumption
    <3>2. (T[k].toplevel = a <=> k = p) /\ (T[k].toplevel = b <=> k = q)
      BY <1>1, <1>15, <2>1, <3>1
    <3>3. QED
      BY <1>3, <1>12, <2>1, <3>2 DEF Exchanged
  <2>2. QED
    BY <1>13, <1>14, <2>1 DEF Renamed
<1>20. QED
  BY <1>18, <1>19 DEF U

\* The lists that may be handed over.
LEMMA HandedIs ==
  ASSUME NEW list \in Handed
  PROVE  list \in Seq(Toplevels) /\ IsInjective(list)
<1>1. PICK n \in 0 .. Cardinality(Toplevels) : list \in [1 .. n -> Toplevels]
  BY DEF Handed
<1>2. n \in Nat
  BY <1>1
<1>3. QED
  BY <1>1, <1>2 DEF Handed

-----------------------------------------------------------------------------
(* The invariant *)

\* Every tree the calls leave is of the right shape, and until a subtree was read
\* after it was freed it misses neither a child nor a window.
IInv ==
  /\ method \in {"bsp", "dwindle", "grid"}
  /\ freed \in BOOLEAN
  /\ Shape(tree)
  /\ ~freed => Whole(tree)

LEMMA InitInvariant == Init => IInv
BY NoTreeGood DEF Init, IInv

\* A call that only changes the tree.
LEMMA BecomesInvariant ==
  ASSUME IInv, NEW T, Becomes(T), Shape(T), ~freed => Whole(T)
  PROVE  IInv'
<1>1. tree' = T /\ method' = method /\ freed' = freed
  BY DEF Becomes
<1>2. Shape(tree') /\ (~freed' => Whole(tree'))
  BY <1>1
<1>3. QED
  BY <1>1, <1>2 DEF IInv

LEMMA AddInvariant ==
  ASSUME IInv, NEW tl \in Toplevels, Add(tl)
  PROVE  IInv'
<1>1. Shape(tree) /\ (~freed => Whole(tree)) /\ tl \notin Tiled(tree)
  BY DEF IInv, Add
<1>2. CASE Becomes(InsertAt(tree, tl, tl))
  <2> DEFINE T == InsertAt(tree, tl, tl)
  <2>1. T = Insert(tree, tl)
    BY <1>1, InsertAtGood
  <2>2. Shape(T) /\ (~freed => Whole(T))
    BY <1>1, <2>1, InsertGood
  <2> HIDE DEF T
  <2>3. Becomes(T)
    BY <1>2 DEF T
  <2>4. QED
    BY <2>2, <2>3, BecomesInvariant
<1>3. ASSUME NEW cov, Becomes(InsertAtDwindle(tree, tl, tl, cov)) PROVE IInv'
  <2> DEFINE T == InsertAtDwindle(tree, tl, tl, cov)
  <2>1. Shape(T) /\ Whole(T)
    BY <1>1, InsertAtDwindleGood
  <2> HIDE DEF T
  <2>2. Becomes(T)
    BY <1>3 DEF T
  <2>3. QED
    BY <2>1, <2>2, BecomesInvariant
<1>4. QED
  BY <1>2, <1>3 DEF Add

LEMMA RestoreInvariant ==
  ASSUME IInv, NEW tl \in Toplevels, Restore(tl)
  PROVE  IInv'
<1> DEFINE T == Insert(tree, tl)
<1>1. Shape(tree) /\ (~freed => Whole(tree)) /\ tl \notin Tiled(tree)
  BY DEF IInv, Restore
<1>2. Shape(T) /\ (~freed => Whole(T))
  BY <1>1, InsertGood
<1>3. Becomes(T)
  BY DEF Restore
<1> HIDE DEF T
<1>4. QED
  BY <1>2, <1>3, BecomesInvariant

LEMMA RemoveInvariant ==
  ASSUME IInv, NEW tl \in Toplevels, Remove(tl)
  PROVE  IInv'
<1>1. Shape(tree) /\ (~freed => Whole(tree)) /\ freed \in BOOLEAN
  BY DEF IInv
<1>2. /\ tl \in Tiled(tree) /\ tree' \in Removed(tree, tl)
      /\ freed' = (freed \/ ReadsFreed(tree, NodeOf(tree, tl))) /\ method' = method
  BY DEF Remove
<1>3. /\ Shape(tree')
      /\ Whole(tree) /\ ~ReadsFreed(tree, NodeOf(tree, tl)) => Whole(tree')
  BY <1>1, <1>2, RemovedGood
<1>4. ~freed' => ~freed /\ ~ReadsFreed(tree, NodeOf(tree, tl))
  BY <1>2
<1>5. freed' \in BOOLEAN
  BY <1>2
<1>6. QED
  BY <1>1, <1>2, <1>3, <1>4, <1>5 DEF IInv

LEMMA RegridInvariant ==
  ASSUME IInv, NEW list \in Handed,
         \/ Becomes(RebuildGrid(list, {}))
         \/ Becomes(Rebuild(list, {}))
         \/ Becomes(RebuildDwindle(list, {}))
  PROVE  IInv'
<1> DEFINE T1 == RebuildGrid(list, {})
           T2 == Rebuild(list, {})
           T3 == RebuildDwindle(list, {})
<1>1. list \in Seq(Toplevels) /\ IsInjective(list)
  BY HandedIs
<1>2. Shape(T1) /\ Whole(T1)
  BY <1>1, GridGood
<1>3. Shape(T2) /\ Whole(T2)
  BY <1>1, RebuildGood
<1>4. Shape(T3) /\ Whole(T3)
  BY <1>1, DwindleGood
<1>5. Becomes(T1) \/ Becomes(T2) \/ Becomes(T3)
  OBVIOUS
<1> HIDE DEF T1, T2, T3
<1>6. QED
  BY <1>2, <1>3, <1>4, <1>5, BecomesInvariant

LEMMA SwapInvariant ==
  ASSUME IInv, SwapLeaves
  PROVE  IInv'
<1>1. PICK a, b \in Tiled(tree) : a # b /\ Becomes(Swap(tree, a, b))
  BY DEF SwapLeaves
<1> DEFINE T == Swap(tree, a, b)
<1>2. Shape(T) /\ (~freed => Whole(T))
  BY <1>1, SwapGood DEF IInv
<1>3. Becomes(T)
  BY <1>1
<1> HIDE DEF T
<1>4. QED
  BY <1>2, <1>3, BecomesInvariant

LEMMA DragInvariant ==
  ASSUME IInv, Drag
  PROVE  IInv'
<1>1. PICK tl \in Tiled(tree), e \in Edges, c \in Cursors :
        Becomes(Resize(tree, tl, e, c))
  BY DEF Drag
<1> DEFINE T == Resize(tree, tl, e, c)
<1>2. Shape(T) /\ (~freed => Whole(T))
  BY ResizeGood DEF IInv
<1>3. Becomes(T)
  BY <1>1
<1> HIDE DEF T
<1>4. QED
  BY <1>2, <1>3, BecomesInvariant

LEMMA LayoutInvariant ==
  ASSUME IInv, ApplyLayout
  PROVE  IInv'
<1> DEFINE T == Layout(tree, Bounds)
<1>1. Bounds \in Box
  BY BSPAssumption DEF Box
<1>2. Shape(T) /\ (~freed => Whole(T))
  BY <1>1, LayoutGood DEF IInv
<1>3. Becomes(T)
  BY DEF ApplyLayout
<1> HIDE DEF T
<1>4. QED
  BY <1>2, <1>3, BecomesInvariant

LEMMA NextInvariant == IInv /\ [Next]_vars => IInv'
<1> SUFFICES ASSUME IInv, [Next]_vars PROVE IInv'
  OBVIOUS
<1>1. ASSUME NEW tl \in Toplevels, Add(tl) \/ Restore(tl) \/ Remove(tl) PROVE IInv'
  BY <1>1, AddInvariant, RestoreInvariant, RemoveInvariant
<1>2. CASE Regrid
  BY <1>2, RegridInvariant DEF Regrid
<1>3. CASE ToggleOn
  <2>1. PICK list \in Handed :
          CASE method = "bsp" -> Becomes(Rebuild(list, {}))
            [] method = "dwindle" -> Becomes(RebuildDwindle(list, {}))
            [] method = "grid" -> Becomes(RebuildGrid(list, {}))
    BY <1>3 DEF ToggleOn
  <2>2. \/ Becomes(RebuildGrid(list, {}))
        \/ Becomes(Rebuild(list, {}))
        \/ Becomes(RebuildDwindle(list, {}))
    <3>1. method = "bsp" \/ method = "dwindle" \/ method = "grid"
      BY DEF IInv
    <3>2. QED
      BY <2>1, <3>1
  <2>3. QED
    BY <2>2, RegridInvariant
<1>4. CASE ToggleOff
  <2>1. Becomes(NoTree)
    BY <1>4 DEF ToggleOff
  <2>2. QED
    BY <2>1, NoTreeGood, BecomesInvariant
<1>5. CASE SwapLeaves
  BY <1>5, SwapInvariant
<1>6. CASE Drag
  BY <1>6, DragInvariant
<1>7. CASE ApplyLayout
  BY <1>7, LayoutInvariant
<1>8. CASE UNCHANGED vars
  <2>1. tree' = tree /\ method' = method /\ freed' = freed
    BY <1>8 DEF vars
  <2>2. Shape(tree') /\ (~freed' => Whole(tree'))
    BY <2>1 DEF IInv
  <2>3. QED
    BY <2>1, <2>2 DEF IInv
<1>9. QED
  BY <1>1, <1>2, <1>3, <1>4, <1>5, <1>6, <1>7, <1>8 DEF Next

\* Whatever the calls, the tree is well formed: src/src/BSPTree.cpp.
THEOREM TreeInvariant == Spec => []IInv
<1>1. Init => IInv
  BY InitInvariant
<1>2. IInv /\ [Next]_vars => IInv'
  BY NextInvariant
<1>3. QED
  BY <1>1, <1>2, PTL DEF Spec

-----------------------------------------------------------------------------
(* The properties *)

\* The tree is prefix-closed and made of nodes.
THEOREM TreeTypeOK == Spec => []TypeOK
<1>1. ASSUME IInv PROVE TypeOK
  <2>1. Shape(tree)
    BY <1>1 DEF IInv
  <2>2. \A p \in DOMAIN tree : tree[p] \in Node
    BY <2>1 DEF Shape, GoodNode
  <2>3. \A p \in DOMAIN tree : p # Root => Parent(p) \in DOMAIN tree
    BY <2>1, ParentIs
  <2>4. QED
    BY <2>2, <2>3 DEF TypeOK
<1>2. IInv => TypeOK
  BY <1>1
<1>3. QED
  BY <1>2, TreeInvariant, PTL

\* Until a subtree was read after it was freed, every container has two children and
\* a ratio between 0 and 1, and every leaf a toplevel of its own: what
\* calculate_layout and remove rely on.
THEOREM EveryNodeIsFull == Spec => []Full
<1>1. ASSUME IInv PROVE Full
  <2>1. Shape(tree) /\ (~freed => Whole(tree)) /\ DOMAIN tree \subseteq Pos
    BY <1>1 DEF IInv, Shape
  <2>2. ASSUME ~freed, NEW p \in DOMAIN tree, IsLeaf(tree, p)
        PROVE  tree[p].toplevel # None
    BY <2>1, <2>2 DEF Whole
  <2>3. ASSUME ~freed, NEW p \in DOMAIN tree, ~IsLeaf(tree, p)
        PROVE  /\ {p \o <<1>>, p \o <<2>>} \subseteq DOMAIN tree
               /\ 0 < tree[p].ratio[1] /\ tree[p].ratio[1] < tree[p].ratio[2]
    <3>1. p \o <<2>> \in DOMAIN tree
      BY <2>1, <2>3 DEF Whole
    <3>2. p \o <<1>> \in DOMAIN tree
      BY <2>1, <2>3 DEF Shape, Based
    <3>3. tree[p] \in GoodNode
      BY <2>1 DEF Shape
    <3>4. QED
      BY <3>1, <3>2, <3>3 DEF GoodNode
  <2>4. ASSUME NEW p \in Leaves(tree, Root), NEW q \in Leaves(tree, Root),
               tree[p].toplevel = tree[q].toplevel
        PROVE  p = q
    <3>1. /\ p \in DOMAIN tree /\ IsLeaf(tree, p) /\ tree[p].toplevel # None
          /\ q \in DOMAIN tree /\ IsLeaf(tree, q)
      BY <2>1, BelowRoot
    <3>2. Distinct(tree)
      BY <2>1 DEF Shape
    <3>3. QED
      BY <2>4, <3>1, <3>2 DEF Distinct
  <2>5. QED
    BY <2>2, <2>3, <2>4 DEF Full
<1>2. IInv => Full
  BY <1>1
<1>3. QED
  BY <1>2, TreeInvariant, PTL

\* The boxes with a point: the root's, and of each container with it the box of one
\* child.
Covers(In, T) ==
  /\ In \subseteq DOMAIN T
  /\ Root \in In
  /\ \A p \in DOMAIN T, c \in Side :
       ~IsLeaf(T, p) /\ p \o <<c>> \in In => p \in In
  /\ \A p \in In :
       ~IsLeaf(T, p) =>
         /\ p \o <<1>> \in In \/ p \o <<2>> \in In
         /\ ~(p \o <<1>> \in In /\ p \o <<2>> \in In)

\* What holds a point, so do all above.
LEMMA CoversAbove ==
  ASSUME NEW T, Shape(T), NEW In, Covers(In, T),
         NEW p \in DOMAIN T, NEW r \in In, Extends(p, r)
  PROVE  p \in In
<1> DEFINE S == {q \in DOMAIN T : q \in In /\ Extends(p, q) => p \in In}
<1>1. DOMAIN T \subseteq Pos /\ p \in Pos
  BY DEF Shape
<1>2. Root \in DOMAIN T => Root \in S
  <2>1. Root \in In
    BY DEF Covers
  <2>2. Extends(p, Root) => p = Root
    BY <1>1, RootIsTop
  <2>3. QED
    BY <2>1, <2>2
<1>3. ASSUME NEW q \in DOMAIN T, NEW c \in Side,
             q \in S, ~IsLeaf(T, q), q \o <<c>> \in DOMAIN T
      PROVE  q \o <<c>> \in S
  <2>1. ASSUME q \o <<c>> \in In, Extends(p, q \o <<c>>) PROVE p \in In
    <3>1. q \in In
      BY <1>3, <2>1 DEF Covers
    <3>2. q \in Pos
      BY <1>1
    <3>3. p = q \o <<c>> \/ Extends(p, q)
      BY <1>1, <2>1, <3>2, ExtendsIs
    <3>4. QED
      BY <1>3, <2>1, <3>1, <3>3
  <2>2. QED
    BY <1>3, <2>1
<1> HIDE DEF S
<1>4. DOMAIN T \subseteq S
  BY <1>2, <1>3, RootInduction
<1>5. r \in DOMAIN T
  BY DEF Covers
<1>6. QED
  BY <1>4, <1>5 DEF S

\* Of the leaves, one holds it.
LEMMA CoveredOnce ==
  ASSUME NEW T, Shape(T), NEW In, Covers(In, T), T # NoTree,
         \A p \in DOMAIN T : ~IsLeaf(T, p) => p \o << 1 >> \in DOMAIN T /\ p \o << 2 >> \in DOMAIN T
  PROVE  \E q : {p \in In : IsLeaf(T, p)} = {q}
<1> DEFINE Only(p, q) ==
             /\ q \in In /\ IsLeaf(T, q)
             /\ \A r \in In : IsLeaf(T, r) /\ Extends(p, r) => r = q
           S == {p \in DOMAIN T : p \in In => \E q : Only(p, q)}
<1>1. DOMAIN T \subseteq Pos /\ In \subseteq DOMAIN T /\ Root \in In
  BY DEF Shape, Covers
<1>2. ASSUME NEW p \in DOMAIN T,
             \A c \in Side : p \o <<c>> \in DOMAIN T => p \o <<c>> \in S
      PROVE  p \in S
  <2>1. p \in Pos
    BY <1>1
  <2>2. CASE IsLeaf(T, p) /\ p \in In
    <3>1. ASSUME NEW r \in In, IsLeaf(T, r), Extends(p, r) PROVE r = p
      <4>1. r \in DOMAIN T
        BY <1>1
      <4>2. QED
        BY <2>1, <2>2, <3>1, <4>1, AboveIs
    <3>2. Only(p, p)
      BY <2>2, <3>1
    <3> HIDE DEF Only
    <3>3. QED
      BY <3>2
  <2>3. ASSUME ~IsLeaf(T, p), p \in In,
               NEW c \in Side, NEW d \in Side, c # d,
               p \o <<c>> \in In, p \o <<d>> \notin In, p \o <<d>> \in DOMAIN T
        PROVE  \E q : Only(p, q)
    <3> DEFINE pc == p \o <<c>>
               pd == p \o <<d>>
    <3>1. pc \in In /\ pd \notin In /\ pc \in DOMAIN T /\ pd \in DOMAIN T
      BY <1>1, <2>3
    <3>2. pc \in S
      BY <1>2, <3>1
    <3>3. \A r \in Pos : Extends(p, r) => r = p \/ Extends(pc, r) \/ Extends(pd, r)
      <4>1. \A r \in Pos :
              Extends(p, r) <=> r = p \/ \E k \in Side : Extends(p \o <<k>>, r)
        BY <2>1, ExtendsIs
      <4>2. \A k \in Side : k = c \/ k = d
        BY <2>3 DEF Side
      <4>3. QED
        BY <4>1, <4>2
    <3> HIDE DEF pc, pd
    <3>4. PICK q : Only(pc, q)
      <4> HIDE DEF Only
      <4>1. QED
        BY <3>1, <3>2
    <3>5. ASSUME NEW r \in In, IsLeaf(T, r), Extends(p, r) PROVE r = q
      <4>1. r # p /\ r \in Pos /\ ~Extends(pd, r)
        BY <1>1, <2>3, <3>1, <3>5, CoversAbove
      <4>2. Extends(pc, r)
        BY <3>3, <3>5, <4>1
      <4>3. QED
        BY <3>4, <3>5, <4>2
    <3>6. Only(p, q)
      BY <3>4, <3>5
    <3> HIDE DEF Only
    <3>7. QED
      BY <3>6
  <2>4. CASE ~IsLeaf(T, p) /\ p \in In
    <3>1. /\ p \o <<1>> \in In \/ p \o <<2>> \in In
          /\ ~(p \o <<1>> \in In /\ p \o <<2>> \in In)
          /\ p \o <<1>> \in DOMAIN T /\ p \o <<2>> \in DOMAIN T
      BY <2>4 DEF Covers
    <3>2. 1 \in Side /\ 2 \in Side /\ 1 # 2
      BY DEF Side
    <3> HIDE DEF Only
    <3>3. \E q : Only(p, q)
      BY <2>3, <2>4, <3>1, <3>2
    <3>4. QED
      BY <3>3
  <2>5. QED
    BY <2>2, <2>4
<1>3. Root \in S
  <2> HIDE DEF S
  <2>1. DOMAIN T \subseteq S
    BY <1>2, TreeInduction
  <2>2. QED
    BY <1>1, <2>1
<1>4. PICK q : Only(Root, q)
  <2> HIDE DEF Only
  <2>1. QED
    BY <1>1, <1>3
<1>5. \A r \in In : Extends(Root, r)
  BY <1>1, ExtendsIs, TopPos DEF Side
<1>6. {p \in In : IsLeaf(T, p)} = {q}
  BY <1>4, <1>5
<1>7. QED
  BY <1>6

\* Whatever was inserted, removed, dragged and swapped, each point of the usable area
\* is in the box of exactly one window (calculate_layout).
THEOREM WindowsPartition == Spec => []Partition
<1>1. ASSUME IInv, ~freed, tree # NoTree,
             NEW x \in Bounds.x .. Bounds.x + Bounds.width - 1,
             NEW y \in Bounds.y .. Bounds.y + Bounds.height - 1
      PROVE  Cardinality({p \in Leaves(Layout(tree, Bounds), Root) :
               Inside(x, y, Layout(tree, Bounds)[p].geometry)}) = 1
  <2> DEFINE L == Layout(tree, Bounds)
  <2>1. Shape(tree) /\ Whole(tree) /\ Bounds \in Box
    BY <1>1, BSPAssumption DEF IInv, Box
  <2>2. /\ DOMAIN L = DOMAIN tree
        /\ \A p \in DOMAIN tree : L[p].toplevel = tree[p].toplevel
                                  /\ (IsLeaf(L, p) <=> IsLeaf(tree, p))
    BY <2>1, LayoutGood
  <2>3. PICK f \in [DOMAIN tree -> Box] :
          /\ f = [p \in DOMAIN tree |->
                    IF p = Root THEN Bounds
                    ELSE Part(tree[Parent(p)], f[Parent(p)], Ext!Last(p))]
          /\ L = [p \in DOMAIN tree |-> [tree[p] EXCEPT !.geometry = f[p]]]
    <3>1. PICK f \in [DOMAIN tree -> Box] : Boxes(f, tree, Bounds)
      BY <2>1, LayoutRecursion
    <3>2. QED
      BY <3>1 DEF Boxes
  <2>4. \A p \in DOMAIN tree : L[p].geometry = f[p]
    <3>1. \A p \in DOMAIN tree : tree[p] \in Node
      BY <2>1 DEF Shape, GoodNode
    <3>2. \A p \in DOMAIN tree : L[p] = [tree[p] EXCEPT !.geometry = f[p]]
      BY <2>3
    <3> HIDE DEF L
    <3>3. QED
      BY <3>1, <3>2 DEF Node
  <2>5. \A p \in DOMAIN tree :
          f[p] = IF p = Root THEN Bounds
                 ELSE Part(tree[Parent(p)], f[Parent(p)], Ext!Last(p))
    BY <2>3
  <2> HIDE DEF L
  <2> DEFINE In == {p \in DOMAIN tree : Inside(x, y, f[p])}
  <2>6. x \in Int /\ y \in Int /\ Inside(x, y, Bounds)
    <3>1. Bounds.x \in Int /\ Bounds.y \in Int /\ Bounds.width \in Nat /\ Bounds.height \in Nat
      BY <2>1 DEF Box
    <3>2. QED
      BY <3>1 DEF Inside
  <2>7. DOMAIN tree \subseteq Pos /\ Root \in DOMAIN tree
    BY <1>1, <2>1, HasRoot DEF Shape
  <2>8. ASSUME NEW p \in DOMAIN tree, NEW c \in Side, p \o <<c>> \in DOMAIN tree
        PROVE  f[p \o <<c>>] = Part(tree[p], f[p], c)
    <3> DEFINE q == p \o <<c>>
    <3>1. q # Root /\ Parent(q) = p /\ Ext!Last(q) = c /\ q \in DOMAIN tree
      BY <2>7, <2>8, ChildPos
    <3> HIDE DEF q
    <3>2. f[q] = Part(tree[p], f[p], c)
      BY <2>5, <3>1
    <3>3. QED
      BY <3>2 DEF q
  <2>9. ASSUME NEW p \in DOMAIN tree, ~IsLeaf(tree, p)
        PROVE  /\ Inside(x, y, f[p]) <=>
                    \/ Inside(x, y, Part(tree[p], f[p], 1))
                    \/ Inside(x, y, Part(tree[p], f[p], 2))
               /\ ~(/\ Inside(x, y, Part(tree[p], f[p], 1))
                    /\ Inside(x, y, Part(tree[p], f[p], 2)))
    <3>1. tree[p] \in GoodNode /\ tree[p].split # "none" /\ f[p] \in Box
      BY <2>1, <2>9 DEF Shape, IsLeaf
    <3>2. QED
      BY <2>6, <3>1, PartIs
  <2>10. \A p \in DOMAIN tree :
           ~IsLeaf(tree, p) => p \o <<1>> \in DOMAIN tree /\ p \o <<2>> \in DOMAIN tree
    BY <2>1 DEF Shape, Based, Whole
  <2>11. Covers(In, tree)
    <3>1. In \subseteq DOMAIN tree
      OBVIOUS
    <3>2. Root \in In
      BY <2>5, <2>6, <2>7
    <3>3. ASSUME NEW p \in DOMAIN tree, NEW c \in Side, ~IsLeaf(tree, p), p \o <<c>> \in In
          PROVE  p \in In
      <4>1. Inside(x, y, Part(tree[p], f[p], c))
        BY <2>8, <3>3
      <4>2. c = 1 \/ c = 2
        BY DEF Side
      <4>3. QED
        BY <2>9, <3>3, <4>1, <4>2
    <3>4. ASSUME NEW p \in In, ~IsLeaf(tree, p)
          PROVE  /\ p \o <<1>> \in In \/ p \o <<2>> \in In
                 /\ ~(p \o <<1>> \in In /\ p \o <<2>> \in In)
      <4> DEFINE p1 == p \o <<1>>
                 p2 == p \o <<2>>
      <4>1. p1 \in DOMAIN tree /\ p2 \in DOMAIN tree
        BY <2>10, <3>4
      <4>2. 1 \in Side /\ 2 \in Side
        BY DEF Side
      <4>3. f[p1] = Part(tree[p], f[p], 1) /\ f[p2] = Part(tree[p], f[p], 2)
        BY <2>8, <4>1, <4>2
      <4> HIDE DEF p1, p2
      <4>4. (p1 \in In \/ p2 \in In) /\ ~(p1 \in In /\ p2 \in In)
        BY <2>9, <3>4, <4>1, <4>3
      <4>5. QED
        BY <4>4 DEF p1, p2
    <3> HIDE DEF In
    <3>5. QED
      BY <3>1, <3>2, <3>3, <3>4 DEF Covers
  <2>12. PICK q : {p \in In : IsLeaf(tree, p)} = {q}
    <3> HIDE DEF In
    <3>1. QED
      BY <1>1, <2>1, <2>10, <2>11, CoveredOnce
  <2>13. {p \in Leaves(L, Root) : Inside(x, y, L[p].geometry)} = {q}
    <3>1. Leaves(L, Root) = {p \in DOMAIN L : IsLeaf(L, p) /\ L[p].toplevel # None}
      BY <2>2, <2>7, BelowRoot
    <3>2. \A p \in DOMAIN tree : IsLeaf(tree, p) => tree[p].toplevel # None
      BY <2>1 DEF Whole
    <3>3. \A p : p \in Leaves(L, Root) /\ Inside(x, y, L[p].geometry)
                   <=> p \in In /\ IsLeaf(tree, p)
      BY <2>2, <2>4, <3>1, <3>2
    <3> HIDE DEF In
    <3>4. QED
      BY <2>12, <3>3
  <2>14. Cardinality({q}) = 1
    BY FS_Singleton
  <2>15. QED
    BY <2>13, <2>14 DEF L
<1>2. ASSUME IInv PROVE Partition
  BY <1>1, <1>2 DEF Partition
<1>3. IInv => Partition
  BY <1>2
<1>4. QED
  BY <1>3, TreeInvariant, PTL

-----------------------------------------------------------------------------
(* Reading order *)

\* f reads the windows below each node of T, the first child's before the second's.
Reads(f, T) ==
  /\ f \in [DOMAIN T -> Seq(Toplevels)]
  /\ \A p \in DOMAIN T : IsLeaf(T, p) => f[p] = <<T[p].toplevel>>
  /\ \A p \in DOMAIN T : ~IsLeaf(T, p) => f[p] = f[p \o <<1>>] \o f[p \o <<2>>]

LEMMA ReadingOf ==
  ASSUME NEW T, Shape(T), Whole(T)
  PROVE  \E f : Reads(f, T) /\ (T # NoTree => Order(T) = f[Root])
<1>1. PICK f \in [DOMAIN T -> Seq(Toplevels)] :
        /\ f = [p \in DOMAIN T |-> OrderStep(f, T, p)]
        /\ Order(T) = IF T = NoTree THEN << >> ELSE f[Root]
  BY OrderRecursion
<1>2. \A p \in DOMAIN T : f[p] = OrderStep(f, T, p)
  BY <1>1
<1>3. \A p \in DOMAIN T : IsLeaf(T, p) => f[p] = <<T[p].toplevel>>
  BY <1>2 DEF OrderStep, Whole
<1>4. \A p \in DOMAIN T : ~IsLeaf(T, p) => f[p] = f[p \o <<1>>] \o f[p \o <<2>>]
  BY <1>2 DEF OrderStep, Whole
<1>5. Reads(f, T)
  BY <1>1, <1>3, <1>4 DEF Reads
<1>6. QED
  BY <1>1, <1>5

\* A container of a whole tree has both its children.
LEMMA BothChildren ==
  ASSUME NEW T, Shape(T), Whole(T), NEW p \in DOMAIN T, ~IsLeaf(T, p)
  PROVE  p \o <<1>> \in DOMAIN T /\ p \o <<2>> \in DOMAIN T
BY DEF Shape, Based, Whole

\* T is in U at p.
Within(T, U, p) ==
  \A x \in DOMAIN T : At(p, x) \in DOMAIN U /\ Alike(U[At(p, x)], T[x])

\* What is read of a tree is read of it inside another.
LEMMA ReadsWithin ==
  ASSUME NEW T, Shape(T), Whole(T), NEW U, Shape(U), Whole(U), NEW p \in Pos,
         Within(T, U, p), NEW f, Reads(f, T), NEW g, Reads(g, U)
  PROVE  \A x \in DOMAIN T : g[At(p, x)] = f[x]
<1> DEFINE Same == {x \in DOMAIN T : g[At(p, x)] = f[x]}
<1>1. DOMAIN T \subseteq Pos /\ 1 \in Side /\ 2 \in Side
  BY DEF Shape, Side
<1>2. ASSUME NEW x \in DOMAIN T,
             \A c \in Side : x \o <<c>> \in DOMAIN T => x \o <<c>> \in Same
      PROVE  x \in Same
  <2>1. CASE IsLeaf(T, x)
    <3>1. /\ At(p, x) \in DOMAIN U /\ IsLeaf(U, At(p, x))
          /\ U[At(p, x)].toplevel = T[x].toplevel
      BY <2>1 DEF Within, Alike, IsLeaf
    <3>2. g[At(p, x)] = <<T[x].toplevel>> /\ f[x] = <<T[x].toplevel>>
      BY <2>1, <3>1 DEF Reads
    <3>3. QED
      BY <3>2
  <2>2. CASE ~IsLeaf(T, x)
    <3> DEFINE x1 == x \o <<1>>
               x2 == x \o <<2>>
               y == At(p, x)
               y1 == y \o <<1>>
               y2 == y \o <<2>>
    <3>1. x1 \in DOMAIN T /\ x2 \in DOMAIN T
      BY <2>2, BothChildren
    <3>2. x1 \in Same /\ x2 \in Same
      BY <1>1, <1>2, <3>1
    <3>3. y1 = At(p, x1)
      BY <1>1, AtIs
    <3>4. y2 = At(p, x2)
      BY <1>1, AtIs
    <3>5. y \in DOMAIN U /\ ~IsLeaf(U, y)
      BY <2>2 DEF Within, Alike, IsLeaf
    <3>6. g[y] = g[y1] \o g[y2]
      BY <3>5 DEF Reads
    <3>7. f[x] = f[x1] \o f[x2]
      BY <2>2 DEF Reads
    <3> HIDE DEF x1, x2, y1, y2
    <3>8. g[y1] = f[x1] /\ g[y2] = f[x2]
      BY <3>2, <3>3, <3>4
    <3>9. g[y] = f[x]
      BY <3>6, <3>7, <3>8
    <3>10. QED
      BY <3>9
  <2>3. QED
    BY <2>1, <2>2
<1> HIDE DEF Same
<1>3. DOMAIN T \subseteq Same
  BY <1>2, TreeInduction
<1>4. QED
  BY <1>3 DEF Same

\* T and U are the same but for what is at p and below.
Around(T, U, p) ==
  \A q \in Pos :
    ~Extends(p, q) =>
      /\ q \in DOMAIN T <=> q \in DOMAIN U
      /\ q \in DOMAIN T => Alike(T[q], U[q])

\* What is read before a list and after it: s is t between a and b.
Between(s, a, t, b) == s = (a \o t) \o b

LEMMA BetweenMore ==
  ASSUME NEW a \in Seq(Toplevels), NEW b \in Seq(Toplevels), NEW t \in Seq(Toplevels),
         NEW x \in Seq(Toplevels), NEW s, Between(s, a, t, b)
  PROVE  /\ Between(s \o x, a, t, b \o x)
         /\ Between(x \o s, x \o a, t, b)
<1> DEFINE m == a \o t
<1>1. m \in Seq(Toplevels) /\ s = m \o b
  BY ConcatProperties DEF Between
<1>2. x \o m = (x \o a) \o t
  <2>1. Associates(x, a, t)
    BY ConcatAssociates
  <2>2. QED
    BY <2>1 DEF Associates
<1> HIDE DEF m
<1>3. (m \o b) \o x = m \o (b \o x)
  <2>1. Associates(m, b, x)
    BY <1>1, ConcatAssociates
  <2>2. QED
    BY <2>1 DEF Associates
<1>4. (x \o m) \o b = x \o (m \o b)
  <2>1. Associates(x, m, b)
    BY <1>1, ConcatAssociates
  <2>2. QED
    BY <2>1 DEF Associates
<1>5. Between(s \o x, a, t, b \o x)
  BY <1>1, <1>3 DEF Between, m
<1>6. Between(x \o s, x \o a, t, b)
  BY <1>1, <1>2, <1>4 DEF Between
<1>7. QED
  BY <1>5, <1>6

LEMMA ExtendsBoth ==
  ASSUME NEW p \in Pos, NEW q \in Pos, Extends(p, q), Extends(q, p)
  PROVE  p = q
<1>1. PICK x \in Pos : q = At(p, x)
  BY DEF Extends, At
<1>2. PICK y \in Pos : p = At(q, y)
  BY DEF Extends, At
<1> DEFINE l == Len(p)
           k == Len(x)
           m == Len(y)
<1>3. Len(q) = l + k /\ l = Len(q) + m
  BY <1>1, <1>2, AtIs
<1>4. l \in Nat /\ k \in Nat /\ m \in Nat /\ Len(q) \in Nat
  BY DEF Pos
<1>5. k = 0 => x = Root
  BY DEF Pos, Root
<1> HIDE DEF l, k, m
<1>6. k = 0
  BY <1>3, <1>4
<1>7. QED
  BY <1>1, <1>5, <1>6, AtIs

\* Trees that differ at p and below read alike before and after it.
LEMMA ReadsAround ==
  ASSUME NEW T, Shape(T), Whole(T), NEW U, Shape(U), Whole(U),
         NEW p \in DOMAIN T, p \in DOMAIN U, Around(T, U, p),
         NEW f, Reads(f, T), NEW g, Reads(g, U)
  PROVE  \E a, b \in Seq(Toplevels) :
           Between(f[Root], a, f[p], b) /\ Between(g[Root], a, g[p], b)
<1>1. DOMAIN T \subseteq Pos /\ p \in Pos /\ 1 \in Side /\ 2 \in Side
  BY DEF Shape, Side
<1>2. /\ \A q \in DOMAIN T : f[q] \in Seq(Toplevels)
      /\ \A q \in DOMAIN U : g[q] \in Seq(Toplevels)
  BY DEF Reads
<1> DEFINE Beside == {q \in DOMAIN T :
             ~Extends(p, q) /\ ~Extends(q, p) => q \in DOMAIN U /\ g[q] = f[q]}
<1>3. ASSUME NEW q \in DOMAIN T,
             \A c \in Side : q \o <<c>> \in DOMAIN T => q \o <<c>> \in Beside
      PROVE  q \in Beside
  <2>1. SUFFICES ASSUME ~Extends(p, q), ~Extends(q, p) PROVE q \in DOMAIN U /\ g[q] = f[q]
    OBVIOUS
  <2>2. /\ q \in Pos /\ q \in DOMAIN U /\ (IsLeaf(T, q) <=> IsLeaf(U, q))
        /\ T[q].toplevel = U[q].toplevel
    BY <1>1, <2>1 DEF Around, Alike, IsLeaf
  <2>3. CASE IsLeaf(T, q)
    BY <2>2, <2>3 DEF Reads
  <2>4. CASE ~IsLeaf(T, q)
    <3> DEFINE q1 == q \o <<1>>
               q2 == q \o <<2>>
    <3>1. q1 \in DOMAIN T /\ q2 \in DOMAIN T
      BY <2>4, BothChildren
    <3>2. q1 \in Beside /\ q2 \in Beside
      BY <1>1, <1>3, <3>1
    <3>3. ASSUME NEW c \in Side PROVE ~Extends(p, q \o <<c>>) /\ ~Extends(q \o <<c>>, p)
      <4>1. ~Extends(q \o <<c>>, p)
        BY <1>1, <2>1, <2>2, ExtendsIs
      <4>2. q \o <<c>> \in Pos
        BY <2>2, ChildPos
      <4>3. p # q \o <<c>>
        <5> DEFINE r == q \o <<c>>
        <5>1. ~Extends(r, p) /\ r \in Pos
          BY <4>1, <4>2
        <5> HIDE DEF r
        <5>2. Extends(r, r)
          BY <5>1, ExtendsIs
        <5>3. p # r
          BY <5>1, <5>2
        <5>4. QED
          BY <5>3 DEF r
      <4>4. ~Extends(p, q \o <<c>>)
        BY <1>1, <2>1, <2>2, <4>3, ExtendsIs
      <4>5. QED
        BY <4>1, <4>4
    <3>4. ~Extends(p, q1) /\ ~Extends(q1, p) /\ ~Extends(p, q2) /\ ~Extends(q2, p)
      BY <1>1, <3>3
    <3>5. f[q] = f[q1] \o f[q2]
      BY <2>4 DEF Reads
    <3>6. g[q] = g[q1] \o g[q2]
      BY <2>2, <2>4 DEF Reads
    <3> HIDE DEF q1, q2
    <3>7. g[q1] = f[q1] /\ g[q2] = f[q2]
      BY <3>2, <3>4
    <3>8. g[q] = f[q]
      BY <3>5, <3>6, <3>7
    <3>9. QED
      BY <2>2, <3>8
  <2>5. QED
    BY <2>3, <2>4
<1>4. \A q \in DOMAIN T :
        ~Extends(p, q) /\ ~Extends(q, p) => q \in DOMAIN U /\ g[q] = f[q]
  <2> HIDE DEF Beside
  <2>1. DOMAIN T \subseteq Beside
    BY <1>3, TreeInduction
  <2>2. QED
    BY <2>1 DEF Beside
<1> HIDE DEF Beside
<1> DEFINE Reached(q) == \E a, b \in Seq(Toplevels) :
                           Between(f[q], a, f[p], b) /\ Between(g[q], a, g[p], b)
           Over == {q \in DOMAIN T : Extends(q, p) => Reached(q)}
<1>5. Reached(p)
  <2> DEFINE e == << >>
  <2>1. e \in Seq(Toplevels)
    OBVIOUS
  <2>2. \A t \in Seq(Toplevels) : Between(t, e, t, e)
    BY ConcatEmptySeq DEF Between
  <2> HIDE DEF e
  <2>3. QED
    BY <1>2, <2>1, <2>2
<1>6. ASSUME NEW q \in DOMAIN T,
             \A c \in Side : q \o <<c>> \in DOMAIN T => q \o <<c>> \in Over
      PROVE  q \in Over
  <2>1. SUFFICES ASSUME Extends(q, p), q # p PROVE Reached(q)
    BY <1>5
  <2>2. q \in Pos
    BY <1>1
  <2>3. ~Extends(p, q)
    BY <1>1, <2>1, <2>2, ExtendsBoth
  <2>4. PICK c \in Side : Extends(q \o <<c>>, p)
    BY <1>1, <2>1, <2>2, ExtendsIs
  <2>5. ~IsLeaf(T, q)
    BY <2>1, <2>2, AboveIs
  <2>6. q \in DOMAIN U /\ ~IsLeaf(U, q)
    BY <2>2, <2>3, <2>5 DEF Around, Alike, IsLeaf
  <2> DEFINE q1 == q \o <<1>>
             q2 == q \o <<2>>
  <2>7. q1 \in DOMAIN T /\ q2 \in DOMAIN T /\ q1 \in DOMAIN U /\ q2 \in DOMAIN U
    BY <2>5, <2>6, BothChildren
  <2>8. q1 \in Over /\ q2 \in Over
    BY <1>1, <1>6, <2>7
  <2>9. ~(Extends(q1, p) /\ Extends(q2, p))
    BY <1>1, <2>2, ExtendsIs
  <2>10. f[q] = f[q1] \o f[q2]
    BY <2>5 DEF Reads
  <2>11. g[q] = g[q1] \o g[q2]
    BY <2>6 DEF Reads
  <2>12. /\ Extends(p, q1) => Extends(q1, p)
         /\ Extends(p, q2) => Extends(q2, p)
    <3>1. ASSUME NEW d \in Side, Extends(p, q \o <<d>>) PROVE Extends(q \o <<d>>, p)
      <4>1. p = q \o <<d>>
        BY <1>1, <2>2, <2>3, <3>1, ExtendsIs
      <4>2. q \o <<d>> \in Pos
        BY <2>2, ChildPos
      <4>3. QED
        BY <4>1, <4>2, ExtendsIs
    <3>2. QED
      BY <1>1, <3>1
  <2>13. Extends(q1, p) \/ Extends(q2, p)
    BY <2>4 DEF Side
  <2> HIDE DEF q1, q2
  <2>14. CASE Extends(q1, p)
    <3>1. PICK a, b \in Seq(Toplevels) :
            Between(f[q1], a, f[p], b) /\ Between(g[q1], a, g[p], b)
      BY <2>8, <2>14
    <3>2. g[q2] = f[q2] /\ f[q2] \in Seq(Toplevels)
      BY <1>2, <1>4, <2>7, <2>9, <2>12, <2>14
    <3> DEFINE x == f[q2]
               bx == b \o x
    <3>3. Between(f[q1] \o x, a, f[p], bx) /\ Between(g[q1] \o x, a, g[p], bx)
      BY <1>2, <3>1, <3>2, BetweenMore
    <3>4. bx \in Seq(Toplevels)
      BY <3>2, ConcatProperties
    <3> HIDE DEF bx
    <3>5. Between(f[q], a, f[p], bx) /\ Between(g[q], a, g[p], bx)
      BY <2>10, <2>11, <3>2, <3>3
    <3>6. QED
      BY <3>4, <3>5
  <2>15. CASE Extends(q2, p)
    <3>1. PICK a, b \in Seq(Toplevels) :
            Between(f[q2], a, f[p], b) /\ Between(g[q2], a, g[p], b)
      BY <2>8, <2>15
    <3>2. g[q1] = f[q1] /\ f[q1] \in Seq(Toplevels)
      BY <1>2, <1>4, <2>7, <2>9, <2>12, <2>15
    <3> DEFINE x == f[q1]
               xa == x \o a
    <3>3. Between(x \o f[q2], xa, f[p], b) /\ Between(x \o g[q2], xa, g[p], b)
      BY <1>2, <3>1, <3>2, BetweenMore
    <3>4. xa \in Seq(Toplevels)
      BY <3>2, ConcatProperties
    <3> HIDE DEF xa
    <3>5. Between(f[q], xa, f[p], b) /\ Between(g[q], xa, g[p], b)
      BY <2>10, <2>11, <3>2, <3>3
    <3>6. QED
      BY <3>4, <3>5
  <2>16. QED
    BY <2>13, <2>14, <2>15
<1> HIDE DEF Reached
<1>7. DOMAIN T \subseteq Over
  <2> HIDE DEF Over
  <2>1. QED
    BY <1>6, TreeInduction
<1>8. Root \in DOMAIN T /\ Extends(Root, p)
  <2>1. T # NoTree
    BY DEF NoTree
  <2>2. QED
    BY <1>1, <2>1, HasRoot, ExtendsIs, TopPos
<1>9. QED
  BY <1>7, <1>8 DEF Reached

\* t is s with a new element, and s without one.
Placed(s, t, tl) ==
  \E i \in 0 .. Len(s) : t = (SubSeq(s, 1, i) \o <<tl>>) \o SubSeq(s, i + 1, Len(s))
Taken(s, t, tl) ==
  \E i \in 1 .. Len(s) : s[i] = tl /\ t = SubSeq(s, 1, i - 1) \o SubSeq(s, i + 1, Len(s))

LEMMA PlacedIs ==
  ASSUME NEW a \in Seq(Toplevels), NEW b \in Seq(Toplevels), NEW tl \in Toplevels,
         NEW s, s = a \o b, NEW t, t = (a \o <<tl>>) \o b
  PROVE  Placed(s, t, tl)
<1> DEFINE i == Len(a)
<1>1. /\ i \in 0 .. Len(s)
      /\ SubSeq(s, 1, i) = a
      /\ SubSeq(s, i + 1, Len(s)) = b
  BY ConcatParts
<1> HIDE DEF i
<1>2. t = (SubSeq(s, 1, i) \o <<tl>>) \o SubSeq(s, i + 1, Len(s))
  BY <1>1
<1>3. QED
  BY <1>1, <1>2 DEF Placed

LEMMA TakenIs ==
  ASSUME NEW a \in Seq(Toplevels), NEW b \in Seq(Toplevels), NEW tl \in Toplevels,
         NEW s, s = (a \o <<tl>>) \o b, NEW t, t = a \o b
  PROVE  Taken(s, t, tl)
<1> DEFINE i == Len(a) + 1
<1>1. /\ i \in 1 .. Len(s)
      /\ s[i] = tl
      /\ SubSeq(s, 1, i - 1) = a
      /\ SubSeq(s, i + 1, Len(s)) = b
  BY BetweenParts
<1> HIDE DEF i
<1>2. t = SubSeq(s, 1, i - 1) \o SubSeq(s, i + 1, Len(s))
  BY <1>1
<1>3. QED
  BY <1>1, <1>2 DEF Taken

\* The order of one window, and of none.
LEMMA SingleOrder ==
  ASSUME NEW tl \in Toplevels
  PROVE  Order(Single(tl)) = <<tl>> /\ Order(NoTree) = << >>
<1>1. Shape(Single(tl)) /\ Whole(Single(tl)) /\ Single(tl) # NoTree
  BY SingleGood
<1>2. PICK f : Reads(f, Single(tl)) /\ Order(Single(tl)) = f[Root]
  BY <1>1, ReadingOf
<1>3. Root \in DOMAIN Single(tl) /\ IsLeaf(Single(tl), Root) /\ Single(tl)[Root].toplevel = tl
  BY DEF Single, Leaf, IsLeaf
<1>4. f[Root] = <<tl>>
  BY <1>2, <1>3 DEF Reads
<1>5. Order(NoTree) = << >>
  BY DEF Order
<1>6. QED
  BY <1>2, <1>4, <1>5

\* A leaf that is split, and what is around it.
LEMMA SplitAround ==
  ASSUME NEW T, Shape(T), NEW p \in DOMAIN T, NEW tl, NEW split
  PROVE  /\ p \in DOMAIN SplitLeaf(T, p, tl, split)
         /\ Around(T, SplitLeaf(T, p, tl, split), p)
<1> DEFINE U == SplitLeaf(T, p, tl, split)
           p1 == p \o <<1>>
           p2 == p \o <<2>>
<1>1. p \in Pos /\ 1 \in Side /\ 2 \in Side
  BY DEF Shape, Side
<1>2. p1 \in Pos /\ p2 \in Pos
  BY <1>1, ChildPos
<1>3. /\ DOMAIN U = DOMAIN T \cup {p1, p2}
      /\ \A q \in DOMAIN T : q \notin {p, p1, p2} => U[q] = T[q]
  BY DEF SplitLeaf
<1>4. Extends(p, p) /\ Extends(p, p1) /\ Extends(p, p2)
  BY <1>1, ExtendsIs
<1> HIDE DEF U, p1, p2
<1>5. ASSUME NEW q \in Pos, ~Extends(p, q)
      PROVE  /\ q \in DOMAIN T <=> q \in DOMAIN U
             /\ q \in DOMAIN T => Alike(T[q], U[q])
  <2>1. q \notin {p, p1, p2}
    BY <1>4, <1>5
  <2>2. QED
    BY <1>3, <2>1 DEF Alike
<1>6. Around(T, U, p) /\ p \in DOMAIN U
  BY <1>3, <1>5 DEF Around
<1>7. QED
  BY <1>6 DEF U

\* A window that splits a leaf comes after the one that was there.
LEMMA SplitOrder ==
  ASSUME NEW T, Shape(T), Whole(T), NEW p \in DOMAIN T, IsLeaf(T, p),
         NEW tl \in Toplevels, tl \notin Tiled(T),
         NEW split \in {"horizontal", "vertical"}
  PROVE  Placed(Order(T), Order(SplitLeaf(T, p, tl, split)), tl)
<1> DEFINE U == SplitLeaf(T, p, tl, split)
           p1 == p \o <<1>>
           p2 == p \o <<2>>
           w == T[p].toplevel
<1>1. /\ Shape(U) /\ Whole(U) /\ U # NoTree
  BY SplitGood
<1>2. DOMAIN T \subseteq Pos /\ p \in Pos /\ 1 \in Side /\ 2 \in Side
  BY DEF Shape, Side
<1>3. /\ p1 \in Pos /\ p2 \in Pos /\ p1 # p /\ p2 # p /\ p1 # p2
  <2>1. /\ p1 \in Pos /\ p2 \in Pos
        /\ Len(p1) = Len(p) + 1 /\ Len(p2) = Len(p) + 1 /\ Len(p) \in Nat
    BY <1>2, ChildPos DEF Pos
  <2>2. Ext!Last(p1) = 1 /\ Ext!Last(p2) = 2
    BY <1>2, ChildPos
  <2> HIDE DEF p1, p2
  <2>3. QED
    BY <2>1, <2>2
<1>4. /\ DOMAIN U = DOMAIN T \cup {p1, p2}
      /\ \A q \in DOMAIN T : q \notin {p, p1, p2} => U[q] = T[q]
      /\ U[p] = [Container(split, Half) EXCEPT !.geometry = T[p].geometry]
      /\ U[p1] = Leaf(w)
      /\ U[p2] = Leaf(tl)
  BY <1>3 DEF SplitLeaf
<1>5. /\ U[p].split = split
      /\ U[p1].split = "none" /\ U[p1].toplevel = w
      /\ U[p2].split = "none" /\ U[p2].toplevel = tl
  BY <1>4 DEF Container, Leaf
<1>6. Around(T, U, p)
  BY SplitAround
<1> HIDE DEF U, p1, p2
<1>7. T # NoTree
  BY DEF NoTree
<1>8. PICK f : Reads(f, T) /\ Order(T) = f[Root]
  BY <1>7, ReadingOf
<1>9. PICK g : Reads(g, U) /\ Order(U) = g[Root]
  BY <1>1, ReadingOf
<1>10. PICK a, b \in Seq(Toplevels) :
         Between(f[Root], a, f[p], b) /\ Between(g[Root], a, g[p], b)
  BY <1>1, <1>4, <1>6, <1>8, <1>9, ReadsAround
<1>11. f[p] = <<w>>
  BY <1>8 DEF Reads
<1>12. p \in DOMAIN U /\ ~IsLeaf(U, p) /\ p1 \in DOMAIN U /\ IsLeaf(U, p1)
       /\ p2 \in DOMAIN U /\ IsLeaf(U, p2)
  BY <1>4, <1>5 DEF IsLeaf
<1>13. g[p] = <<w>> \o <<tl>>
  <2>1. g[p1] = <<w>> /\ g[p2] = <<tl>>
    BY <1>5, <1>9, <1>12 DEF Reads
  <2>2. g[p] = g[p1] \o g[p2]
    BY <1>9, <1>12 DEF Reads, p1, p2
  <2>3. QED
    BY <2>1, <2>2
<1>14. w \in Toplevels
  <2>1. T[p] \in Node
    BY DEF Shape, GoodNode
  <2>2. QED
    BY <2>1 DEF Node, Whole
<1> HIDE DEF w
<1> DEFINE h == <<w>>
           k == <<tl>>
           ah == a \o h
<1>15. h \in Seq(Toplevels) /\ k \in Seq(Toplevels)
  BY <1>14
<1>16. f[Root] = (a \o h) \o b /\ g[Root] = (a \o (h \o k)) \o b
  BY <1>10, <1>11, <1>13 DEF Between
<1> HIDE DEF h, k
<1>17. (a \o h) \o k = a \o (h \o k)
  <2>1. Associates(a, h, k)
    BY <1>15, ConcatAssociates
  <2>2. QED
    BY <2>1 DEF Associates
<1>18. ah \in Seq(Toplevels)
  BY <1>15, ConcatProperties
<1>19. f[Root] = ah \o b /\ g[Root] = (ah \o <<tl>>) \o b
  BY <1>16, <1>17 DEF k
<1> HIDE DEF ah
<1>20. Placed(f[Root], g[Root], tl)
  BY <1>18, <1>19, PlacedIs
<1>21. QED
  BY <1>8, <1>9, <1>20 DEF U

LEMMA InsertOrder ==
  ASSUME NEW T, Shape(T), Whole(T), NEW tl \in Toplevels, tl \notin Tiled(T)
  PROVE  Placed(Order(T), Order(Insert(T, tl)), tl)
<1>1. CASE T = NoTree
  <2>1. Order(T) = << >> /\ Order(Insert(T, tl)) = <<tl>>
    BY <1>1, SingleOrder DEF Insert
  <2> DEFINE e == << >>
  <2>2. e \in Seq(Toplevels) /\ e = e \o e /\ <<tl>> = (e \o <<tl>>) \o e
    OBVIOUS
  <2> HIDE DEF e
  <2>3. Placed(e, <<tl>>, tl)
    BY <2>2, PlacedIs
  <2>4. QED
    BY <2>1, <2>3 DEF e
<1>2. CASE T # NoTree
  <2> DEFINE p == InsertionPoint(T)
  <2>1. p \in DOMAIN T /\ IsLeaf(T, p)
    BY <1>2, InsertionPointIs
  <2>2. Insert(T, tl) = SplitLeaf(T, p, tl, SplitType(p))
    BY <1>2 DEF Insert
  <2>3. SplitType(p) \in {"horizontal", "vertical"}
    BY DEF SplitType
  <2> HIDE DEF p
  <2>4. QED
    BY <2>1, <2>2, <2>3, SplitOrder
<1>3. QED
  BY <1>1, <1>2

\* A window that is taken from between two lists, the rest of its container
\* staying there.
LEMMA TakenBetween ==
  ASSUME NEW a \in Seq(Toplevels), NEW m \in Seq(Toplevels), NEW b \in Seq(Toplevels),
         NEW tl \in Toplevels, NEW s, NEW t, Between(t, a, m, b),
         Between(s, a, <<tl>> \o m, b) \/ Between(s, a, m \o <<tl>>, b)
  PROVE  Taken(s, t, tl)
<1> DEFINE k == <<tl>>
<1>1. k \in Seq(Toplevels)
  OBVIOUS
<1>2. t = (a \o m) \o b /\ (s = (a \o (k \o m)) \o b \/ s = (a \o (m \o k)) \o b)
  BY DEF Between
<1> HIDE DEF k
<1> DEFINE am == a \o m
           mb == m \o b
           ak == a \o k
<1>3. am \in Seq(Toplevels) /\ mb \in Seq(Toplevels) /\ ak \in Seq(Toplevels)
  BY <1>1, ConcatProperties
<1>4. CASE s = (a \o (k \o m)) \o b
  <2>1. a \o (k \o m) = ak \o m
    <3>1. Associates(a, k, m)
      BY <1>1, ConcatAssociates
    <3>2. QED
      BY <3>1 DEF Associates
  <2>2. t = a \o mb
    <3>1. Associates(a, m, b)
      BY ConcatAssociates
    <3>2. QED
      BY <1>2, <3>1 DEF Associates
  <2> HIDE DEF am, mb, ak
  <2>3. (ak \o m) \o b = ak \o (m \o b)
    <3>1. Associates(ak, m, b)
      BY <1>3, ConcatAssociates
    <3>2. QED
      BY <3>1 DEF Associates
  <2>4. s = (a \o <<tl>>) \o mb
    BY <1>4, <2>1, <2>3 DEF mb, ak, k
  <2>5. QED
    BY <1>3, <2>2, <2>4, TakenIs
<1>5. CASE s = (a \o (m \o k)) \o b
  <2>1. a \o (m \o k) = am \o k
    <3>1. Associates(a, m, k)
      BY <1>1, ConcatAssociates
    <3>2. QED
      BY <3>1 DEF Associates
  <2>2. s = (am \o <<tl>>) \o b
    BY <1>5, <2>1 DEF k
  <2>3. t = am \o b
    BY <1>2
  <2> HIDE DEF am
  <2>4. QED
    BY <1>3, <2>2, <2>3, TakenIs
<1>6. QED
  BY <1>2, <1>4, <1>5

\* The sibling S of p is under its parent before, and in its place in G.
Grafted(S, T, p, G) ==
  /\ Shape(S) /\ Whole(S) /\ Root \in DOMAIN S
  /\ \A x \in Pos : At(Sibling(p), x) \in DOMAIN T => x \in DOMAIN S
  /\ Within(S, T, Sibling(p)) /\ Within(S, G, Parent(p))
  /\ Around(T, G, Parent(p)) /\ Parent(p) \in DOMAIN G

LEMMA GraftPlaces ==
  ASSUME NEW T, Shape(T), Whole(T), NEW p \in DOMAIN T, p # Root, Sibling(p) \in DOMAIN T
  PROVE  \E S : Grafted(S, T, p, Graft(T, p))
<1> DEFINE r == Parent(p)
           b == Sibling(p)
           G == Graft(T, p)
<1>1. DOMAIN T \subseteq Pos /\ p \in Pos /\ b \in DOMAIN T /\ b \in Pos
  BY DEF Shape
<1>2. r \in DOMAIN T /\ r \in Pos
  BY <1>1, ParentIs, SiblingIs
<1>3. PICK U : Grafts(U, T, p) /\ G = Replace(T, r, U)
  BY GraftIs
<1>4. /\ Root \in DOMAIN Subtree(T, b)
      /\ \A x : x \in DOMAIN Subtree(T, b) <=> x \in Pos /\ At(b, x) \in DOMAIN T
      /\ \A x \in DOMAIN Subtree(T, b) : Subtree(T, b)[x] = T[At(b, x)]
  BY <1>1, SubtreeGood
<1>5. /\ Shape(U) /\ U # NoTree /\ Whole(U)
      /\ DOMAIN U = DOMAIN Subtree(T, b)
      /\ \A x \in DOMAIN U : Alike(U[x], Subtree(T, b)[x])
      /\ \A q \in DOMAIN T : ~Extends(r, q) /\ IsLeaf(T, q) => T[q].toplevel \notin Tiled(U)
  BY <1>3 DEF Grafts
<1>6. Within(U, T, b)
  BY <1>4, <1>5 DEF Within, Alike
<1> HIDE DEF r, b, G
<1>7. /\ \A q : q \in DOMAIN G <=>
           (q \in DOMAIN T /\ ~Extends(r, q)) \/ \E x \in DOMAIN U : q = At(r, x)
      /\ \A q \in DOMAIN T : ~Extends(r, q) => G[q] = T[q]
      /\ \A x \in DOMAIN U : G[At(r, x)] = U[x]
  <2>1. /\ \A q : q \in DOMAIN Replace(T, r, U) <=>
             (q \in DOMAIN T /\ ~Extends(r, q)) \/ \E x \in DOMAIN U : q = At(r, x)
        /\ \A q \in DOMAIN T : ~Extends(r, q) => Replace(T, r, U)[q] = T[q]
        /\ \A x \in DOMAIN U : Replace(T, r, U)[At(r, x)] = U[x]
    BY <1>2, <1>5, ReplaceGood
  <2>2. QED
    BY <1>3, <2>1
<1>8. Within(U, G, r)
  BY <1>7 DEF Within, Alike
<1>9. DOMAIN U \subseteq Pos /\ Root \in DOMAIN U /\ At(r, Root) = r /\ At(b, Root) = b
  <2>1. Root \in Pos
    BY TopPos DEF Side
  <2>2. QED
    BY <1>1, <1>2, <1>4, <1>5, <2>1, AtIs DEF Shape
<1>10. Around(T, G, r)
  <2>1. ASSUME NEW q \in Pos, ~Extends(r, q)
        PROVE  /\ q \in DOMAIN T <=> q \in DOMAIN G
               /\ q \in DOMAIN T => Alike(T[q], G[q])
    <3>1. ~\E x \in DOMAIN U : q = At(r, x)
      BY <1>2, <1>9, <2>1, AtIs
    <3>2. QED
      BY <1>7, <2>1, <3>1 DEF Alike
  <2>2. QED
    BY <2>1 DEF Around
<1>11. r \in DOMAIN G
  BY <1>7, <1>9
<1>12. \A x \in Pos : At(b, x) \in DOMAIN T => x \in DOMAIN U
  BY <1>4, <1>5
<1>13. Grafted(U, T, p, G)
  BY <1>5, <1>6, <1>8, <1>9, <1>10, <1>11, <1>12 DEF Grafted, r, b
<1>14. QED
  BY <1>13 DEF G

\* A window leaves, its sibling taking their parent's place.
LEMMA GraftOrder ==
  ASSUME NEW T, Shape(T), Whole(T), NEW p \in DOMAIN T, p # Root, IsLeaf(T, p),
         Sibling(p) \in DOMAIN T, NEW tl \in Toplevels, T[p].toplevel = tl
  PROVE  Taken(Order(T), Order(Graft(T, p)), tl)
<1> DEFINE r == Parent(p)
           b == Sibling(p)
           c == Ext!Last(p)
           G == Graft(T, p)
<1>1. DOMAIN T \subseteq Pos /\ p \in Pos /\ b \in DOMAIN T /\ b \in Pos
  BY DEF Shape
<1>2. /\ r \in DOMAIN T /\ r \in Pos /\ ~IsLeaf(T, r) /\ c \in Side
      /\ p = r \o <<c>> /\ b = r \o <<3 - c>>
  BY <1>1, ParentIs, SiblingIs
<1>3. PICK U : Grafted(U, T, p, G)
  BY GraftPlaces
<1>4. Shape(G) /\ Whole(G)
  BY GraftGood
<1> HIDE DEF c, G
<1>5. Shape(U) /\ Whole(U) /\ Root \in DOMAIN U
  BY <1>3 DEF Grafted
<1>6. Within(U, T, b) /\ Within(U, G, r)
  BY <1>3 DEF Grafted
<1>7. Around(T, G, r) /\ r \in DOMAIN G
  BY <1>3 DEF Grafted
<1> HIDE DEF r, b
<1>8. At(r, Root) = r /\ At(b, Root) = b
  <2>1. Root \in Pos
    BY TopPos DEF Side
  <2>2. QED
    BY <1>1, <1>2, <2>1, AtIs
<1>9. T # NoTree /\ G # NoTree
  BY <1>7 DEF NoTree
<1>10. PICK f : Reads(f, T) /\ Order(T) = f[Root]
  BY <1>9, ReadingOf
<1>11. PICK g : Reads(g, G) /\ Order(G) = g[Root]
  BY <1>4, <1>9, ReadingOf
<1>12. PICK h : Reads(h, U)
  BY <1>5, ReadingOf
<1>13. f[b] = h[Root]
  <2>1. \A x \in DOMAIN U : f[At(b, x)] = h[x]
    BY <1>1, <1>5, <1>6, <1>10, <1>12, ReadsWithin
  <2>2. QED
    BY <1>5, <1>8, <2>1
<1>14. g[r] = h[Root]
  <2>1. \A x \in DOMAIN U : g[At(r, x)] = h[x]
    BY <1>2, <1>4, <1>5, <1>6, <1>11, <1>12, ReadsWithin
  <2>2. QED
    BY <1>5, <1>8, <2>1
<1>15. PICK y, z \in Seq(Toplevels) :
         Between(f[Root], y, f[r], z) /\ Between(g[Root], y, g[r], z)
  BY <1>2, <1>4, <1>7, <1>10, <1>11, ReadsAround
<1> DEFINE m == f[b]
<1>16. m \in Seq(Toplevels) /\ g[r] = m
  BY <1>1, <1>10, <1>13, <1>14 DEF Reads
<1>17. f[p] = <<tl>>
  BY <1>10 DEF Reads
<1>18. f[r] = f[r \o <<1>>] \o f[r \o <<2>>]
  BY <1>2, <1>10 DEF Reads
<1> HIDE DEF m
<1>19. f[r] = <<tl>> \o m \/ f[r] = m \o <<tl>>
  <2>1. CASE c = 1
    <3>1. p = r \o <<1>> /\ b = r \o <<2>>
      BY <1>2, <2>1
    <3>2. QED
      BY <1>17, <1>18, <3>1 DEF m
  <2>2. CASE c = 2
    <3>1. p = r \o <<2>> /\ b = r \o <<1>>
      BY <1>2, <2>2
    <3>2. QED
      BY <1>17, <1>18, <3>1 DEF m
  <2>3. QED
    BY <1>2, <2>1, <2>2 DEF Side
<1>20. Taken(f[Root], g[Root], tl)
  BY <1>15, <1>16, <1>19, TakenBetween
<1>21. QED
  BY <1>10, <1>11, <1>20 DEF G

\* The windows of a container are those of its first child and then the others.
LEMMA JoinOrder ==
  ASSUME NEW node \in GoodNode, node.split # "none",
         NEW T1, Shape(T1), Whole(T1), T1 # NoTree,
         NEW T2, Shape(T2), Whole(T2), T2 # NoTree, Tiled(T1) \cap Tiled(T2) = {}
  PROVE  Order(Join(node, T1, T2)) = Order(T1) \o Order(T2)
<1> DEFINE U == Join(node, T1, T2)
           a == <<1>>
           b == <<2>>
<1>1. Shape(U) /\ Whole(U) /\ U # NoTree
  BY JoinGood
<1>2. /\ Root \in Pos /\ a \in Pos /\ b \in Pos /\ Root \o <<1>> = a /\ Root \o <<2>> = b
      /\ 1 \in Side /\ 2 \in Side
  <2>1. 1 \in Side /\ 2 \in Side
    BY DEF Side
  <2>2. QED
    BY <2>1, TopPos, ChildPos
<1>3. DOMAIN T1 \subseteq Pos /\ DOMAIN T2 \subseteq Pos /\ Root \in DOMAIN T1 /\ Root \in DOMAIN T2
  BY HasRoot DEF Shape
<1>4. Root \in DOMAIN U /\ U[Root] = node
  BY DEF Join
<1>5. \A x \in DOMAIN U :
        U[x] = IF x = Root THEN node
               ELSE IF Head(x) = 1 THEN T1[Tail(x)] ELSE T2[Tail(x)]
  BY DEF Join
<1>6. \A q \in DOMAIN T1 : At(a, q) \in DOMAIN U /\ U[At(a, q)] = T1[q]
  <2>1. ASSUME NEW q \in DOMAIN T1 PROVE At(a, q) \in DOMAIN U /\ U[At(a, q)] = T1[q]
    <3>1. At(a, q) # Root /\ Head(At(a, q)) = 1 /\ Tail(At(a, q)) = q
      BY <1>2, <1>3, UnderPos DEF At
    <3>2. At(a, q) \in DOMAIN U
      BY DEF Join, At
    <3>3. QED
      BY <3>1, <3>2 DEF Join
  <2>2. QED
    BY <2>1
<1>7. \A q \in DOMAIN T2 : At(b, q) \in DOMAIN U /\ U[At(b, q)] = T2[q]
  <2>1. ASSUME NEW q \in DOMAIN T2 PROVE At(b, q) \in DOMAIN U /\ U[At(b, q)] = T2[q]
    <3>1. At(b, q) # Root /\ Head(At(b, q)) = 2 /\ Tail(At(b, q)) = q
      BY <1>2, <1>3, UnderPos DEF At
    <3>2. At(b, q) \in DOMAIN U
      <4>1. At(b, q) \in {<<2>> \o r : r \in DOMAIN T2}
        BY DEF At
      <4>2. DOMAIN U = {Root} \cup {<<1>> \o r : r \in DOMAIN T1}
                             \cup {<<2>> \o r : r \in DOMAIN T2}
        BY DEF Join
      <4> HIDE DEF U, b
      <4>3. QED
        BY <4>1, <4>2
    <3> HIDE DEF U, b
    <3>3. U[At(b, q)] = T2[q]
      <4> DEFINE x == At(b, q)
      <4>1. x # Root /\ Head(x) # 1 /\ Tail(x) = q /\ x \in DOMAIN U
        BY <3>1, <3>2
      <4> HIDE DEF x
      <4>2. U[x] = T2[Tail(x)]
        BY <1>5, <4>1
      <4>3. QED
        BY <4>1, <4>2 DEF x
    <3>4. QED
      BY <3>2, <3>3
  <2>2. QED
    BY <2>1
<1> HIDE DEF U, a, b
<1>8. Within(T1, U, a) /\ Within(T2, U, b)
  BY <1>6, <1>7 DEF Within, Alike
<1>9. PICK g : Reads(g, U) /\ Order(U) = g[Root]
  BY <1>1, ReadingOf
<1>10. PICK f1 : Reads(f1, T1) /\ Order(T1) = f1[Root]
  BY ReadingOf
<1>11. PICK f2 : Reads(f2, T2) /\ Order(T2) = f2[Root]
  BY ReadingOf
<1>12. At(a, Root) = a /\ At(b, Root) = b
  BY <1>2, AtIs
<1>13. g[a] = f1[Root]
  <2>1. \A x \in DOMAIN T1 : g[At(a, x)] = f1[x]
    BY <1>1, <1>2, <1>8, <1>9, <1>10, ReadsWithin
  <2>2. QED
    BY <1>3, <1>12, <2>1
<1>14. g[b] = f2[Root]
  <2>1. \A x \in DOMAIN T2 : g[At(b, x)] = f2[x]
    BY <1>1, <1>2, <1>8, <1>9, <1>11, ReadsWithin
  <2>2. QED
    BY <1>3, <1>12, <2>1
<1>15. ~IsLeaf(U, Root)
  BY <1>4 DEF IsLeaf
<1>16. g[Root] = g[a] \o g[b]
  BY <1>2, <1>4, <1>9, <1>15 DEF Reads
<1>17. QED
  BY <1>9, <1>10, <1>11, <1>13, <1>14, <1>16 DEF U

\* What is left of a list, one window more.
LEMMA SuffixCons ==
  ASSUME NEW s \in Seq(Toplevels), NEW i \in 1 .. Len(s)
  PROVE  SubSeq(s, i, Len(s)) = <<s[i]>> \o SubSeq(s, i + 1, Len(s))
<1> DEFINE n == Len(s)
           k == <<s[i]>>
           u == SubSeq(s, i + 1, n)
           t == SubSeq(s, i, n)
<1>1. n \in Nat /\ i \in Nat /\ 1 <= i /\ i <= n /\ s[i] \in Toplevels
  OBVIOUS
<1>2. u \in Seq(Toplevels) /\ Len(u) = n - i /\ \A j \in 1 .. n - i : u[j] = s[i + j]
  BY <1>1, SuffixOf
<1>3. t \in Seq(Toplevels) /\ Len(t) = n - i + 1 /\ \A j \in 1 .. n - i + 1 : t[j] = s[i - 1 + j]
  <2>1. i - 1 \in 0 .. n /\ i - 1 + 1 = i /\ n - (i - 1) = n - i + 1
    BY <1>1
  <2>2. /\ SubSeq(s, i - 1 + 1, n) \in Seq(Toplevels)
        /\ Len(SubSeq(s, i - 1 + 1, n)) = n - (i - 1)
        /\ \A j \in 1 .. n - (i - 1) : SubSeq(s, i - 1 + 1, n)[j] = s[i - 1 + j]
    BY <2>1, SuffixOf
  <2>3. QED
    BY <2>1, <2>2
<1>4. k \in Seq(Toplevels) /\ Len(k) = 1 /\ k[1] = s[i]
  BY <1>1
<1> HIDE DEF k, u, t
<1> DEFINE v == k \o u
<1>5. /\ v \in Seq(Toplevels) /\ Len(v) = Len(k) + Len(u)
      /\ \A j \in 1 .. Len(k) + Len(u) : v[j] = IF j <= Len(k) THEN k[j] ELSE u[j - Len(k)]
  <2>1. k \in Seq(Toplevels) /\ u \in Seq(Toplevels)
    BY <1>2, <1>4
  <2>2. QED
    BY <2>1, ConcatProperties
<1> HIDE DEF v
<1>6. /\ Len(v) = n - i + 1
      /\ \A j \in 1 .. n - i + 1 : v[j] = IF j <= 1 THEN k[j] ELSE u[j - 1]
  <2>1. Len(k) + Len(u) = n - i + 1
    BY <1>1, <1>2, <1>4
  <2>2. QED
    BY <1>4, <1>5, <2>1
<1>7. ASSUME NEW j \in 1 .. n - i + 1 PROVE v[j] = t[j]
  <2>1. CASE j = 1
    <3>1. v[j] = s[i] /\ i - 1 + j = i
      BY <1>1, <1>4, <1>6, <2>1
    <3>2. QED
      BY <1>3, <3>1
  <2>2. CASE j # 1
    <3>1. j - 1 \in 1 .. n - i /\ i + (j - 1) = i - 1 + j /\ ~(j <= 1)
      BY <1>1, <2>2
    <3>2. v[j] = u[j - 1]
      BY <1>6, <3>1
    <3>3. QED
      BY <1>2, <1>3, <3>1, <3>2
  <2>3. QED
    BY <2>1, <2>2
<1>8. v = t
  BY <1>3, <1>5, <1>6, <1>7
<1>9. QED
  BY <1>8 DEF k, u, t, v

\* The spiral keeps the order of the list.
LEMMA DwindleOrder ==
  ASSUME NEW tls \in Seq(Toplevels), IsInjective(tls), NEW cov
  PROVE  Order(RebuildDwindle(tls, cov)) = Shown(tls, cov)
<1> DEFINE s == Shown(tls, cov)
           n == Len(s)
<1>1. s \in Seq(Toplevels) /\ IsInjective(s) /\ n \in Nat
  BY ShownIs
<1>2. PICK spiral : Spiraling(spiral, s, n) /\ RebuildDwindle(tls, cov) = spiral[n]
  BY DwindleIs
<1> HIDE DEF s
<1>3. \A k \in 0 .. n : TreeOf(spiral[k], s, n - k, n)
  BY <1>1, <1>2, SpiralGood
<1> DEFINE from(k) == SubSeq(s, n - k + 1, n)
           Read == {k \in 0 .. n : Order(spiral[k]) = from(k)}
<1>4. 0 \in Read
  <2>1. spiral[0] = NoTree
    BY <1>1, <1>2 DEF Spiraling
  <2>2. from(0) = << >>
    BY <1>1
  <2>3. Order(spiral[0]) = << >>
    BY <2>1 DEF Order
  <2> HIDE DEF from
  <2>4. QED
    BY <1>1, <2>2, <2>3
<1>5. ASSUME NEW k \in 0 .. n, k # 0, k - 1 \in Read PROVE k \in Read
  <2> DEFINE i == n - k + 1
             w == s[i]
  <2>1. i \in 1 .. n /\ n - (k - 1) = i /\ w \in Toplevels
    BY <1>1, <1>5
  <2>2. /\ Order(spiral[k - 1]) = SubSeq(s, i + 1, n)
        /\ TreeOf(spiral[k - 1], s, i, n)
    <3>1. k - 1 \in 0 .. n /\ n - (k - 1) + 1 = i + 1
      BY <2>1, <1>5
    <3>2. Order(spiral[k - 1]) = from(k - 1)
      BY <1>5
    <3>3. from(k - 1) = SubSeq(s, i + 1, n)
      BY <3>1
    <3> HIDE DEF from, i
    <3>4. QED
      BY <1>3, <2>1, <3>1, <3>2, <3>3
  <2>3. spiral[k] = IF k = 1 THEN Single(s[n]) ELSE Join(Turn(n, k), Single(w), spiral[k - 1])
    BY <1>1, <1>2, <1>5 DEF Spiraling
  <2>4. SubSeq(s, i, n) = <<w>> \o SubSeq(s, i + 1, n)
    BY <1>1, <2>1, SuffixCons
  <2>5. Order(Single(w)) = <<w>>
    BY <2>1, SingleOrder
  <2>6. CASE k = 1
    <3>1. i = n
      BY <1>1, <2>6
    <3>2. SubSeq(s, i + 1, n) = << >>
      BY <1>1, <3>1
    <3>3. <<w>> \o << >> = <<w>>
      BY <2>1, ConcatEmptySeq
    <3>4. QED
      BY <2>3, <2>4, <2>5, <2>6, <3>1, <3>2, <3>3
  <2>7. CASE k # 1
    <3>1. i < n
      BY <1>1, <1>5, <2>7
    <3>2. /\ Shape(spiral[k - 1]) /\ Whole(spiral[k - 1]) /\ spiral[k - 1] # NoTree
          /\ Tiled(spiral[k - 1]) = Names(s, i, n)
      BY <2>2, <3>1 DEF TreeOf
    <3>3. /\ Shape(Single(w)) /\ Whole(Single(w))
          /\ Tiled(Single(w)) = {w} /\ Single(w) # NoTree
      BY <2>1, SingleGood
    <3>4. Tiled(Single(w)) \cap Tiled(spiral[k - 1]) = {}
      <4>1. \A j \in i + 1 .. n : s[j] # w
        BY <1>1, <2>1 DEF IsInjective
      <4>2. QED
        BY <3>2, <3>3, <4>1 DEF Names
    <3>5. spiral[k] = Join(Turn(n, k), Single(w), spiral[k - 1])
      BY <2>3, <2>7
    <3>6. Turn(n, k) \in GoodNode /\ Turn(n, k).split # "none"
      BY TurnIs
    <3>7. Order(spiral[k]) = Order(Single(w)) \o Order(spiral[k - 1])
      BY <3>2, <3>3, <3>4, <3>5, <3>6, JoinOrder
    <3>8. QED
      BY <2>2, <2>4, <2>5, <3>7
  <2>8. QED
    BY <2>6, <2>7
<1>6. 0 .. n \subseteq Read
  <2> HIDE DEF Read
  <2>1. QED
    BY <1>1, <1>4, <1>5, UpTo
<1>7. Order(spiral[n]) = from(n)
  <2> HIDE DEF from
  <2>1. QED
    BY <1>1, <1>6
<1>8. from(n) = s
  BY <1>1
<1>9. QED
  BY <1>2, <1>7, <1>8 DEF s

\* A list with each window renamed.
Mapped(s, m) == [i \in 1 .. Len(s) |-> m[s[i]]]

LEMMA MappedConcat ==
  ASSUME NEW m \in [Toplevels -> Toplevels],
         NEW s \in Seq(Toplevels), NEW t \in Seq(Toplevels)
  PROVE  Mapped(s \o t, m) = Mapped(s, m) \o Mapped(t, m)
<1> DEFINE j == Len(s)
           k == Len(t)
           u == s \o t
           ms == Mapped(s, m)
           mt == Mapped(t, m)
           v == ms \o mt
<1>1. j \in Nat /\ k \in Nat
  OBVIOUS
<1>2. /\ Len(u) = j + k
      /\ \A i \in 1 .. j + k : u[i] = IF i <= j THEN s[i] ELSE t[i - j]
  BY ConcatProperties
<1>3. /\ ms \in Seq(Toplevels) /\ Len(ms) = j /\ \A i \in 1 .. j : ms[i] = m[s[i]]
      /\ mt \in Seq(Toplevels) /\ Len(mt) = k /\ \A i \in 1 .. k : mt[i] = m[t[i]]
  BY DEF Mapped
<1> HIDE DEF u, ms, mt
<1>4. /\ v \in Seq(Toplevels) /\ Len(v) = j + k
      /\ \A i \in 1 .. j + k : v[i] = IF i <= j THEN ms[i] ELSE mt[i - j]
  <2>1. /\ v \in Seq(Toplevels) /\ Len(v) = Len(ms) + Len(mt)
        /\ \A i \in 1 .. Len(ms) + Len(mt) :
             v[i] = IF i <= Len(ms) THEN ms[i] ELSE mt[i - Len(ms)]
    <3>1. ms \in Seq(Toplevels) /\ mt \in Seq(Toplevels)
      BY <1>3
    <3>2. QED
      BY <3>1, ConcatProperties
  <2> HIDE DEF v
  <2>2. QED
    BY <1>3, <2>1
<1> HIDE DEF v, j, k
<1>5. ASSUME NEW i \in 1 .. j + k PROVE v[i] = m[u[i]]
  <2>1. CASE i <= j
    <3>1. i \in 1 .. j
      BY <1>1, <2>1
    <3>2. QED
      BY <1>2, <1>3, <1>4, <2>1, <3>1
  <2>2. CASE ~(i <= j)
    <3>1. i - j \in 1 .. k
      BY <1>1, <2>2
    <3>2. QED
      BY <1>2, <1>3, <1>4, <2>2, <3>1
  <2>3. QED
    BY <2>1, <2>2
<1>6. v = [i \in 1 .. j + k |-> v[i]]
  BY <1>4
<1>7. v = [i \in 1 .. j + k |-> m[u[i]]]
  BY <1>5, <1>6
<1>8. Mapped(u, m) = v
  BY <1>2, <1>7 DEF Mapped
<1>9. QED
  BY <1>8 DEF u, v, ms, mt

\* Renaming the windows of a tree renames them in its order.
LEMMA RenamedOrder ==
  ASSUME NEW T, Shape(T), Whole(T), NEW U, Shape(U), Whole(U),
         NEW m \in [Toplevels -> Toplevels], Renamed(U, T, m)
  PROVE  Order(U) = Mapped(Order(T), m)
<1>1. DOMAIN U = DOMAIN T /\ DOMAIN T \subseteq Pos /\ 1 \in Side /\ 2 \in Side
  BY DEF Renamed, Shape, Side
<1>2. PICK f : Reads(f, T) /\ (T # NoTree => Order(T) = f[Root])
  BY ReadingOf
<1>3. PICK g : Reads(g, U) /\ (U # NoTree => Order(U) = g[Root])
  BY ReadingOf
<1> DEFINE Same == {x \in DOMAIN T : g[x] = Mapped(f[x], m)}
<1>4. ASSUME NEW x \in DOMAIN T,
             \A c \in Side : x \o <<c>> \in DOMAIN T => x \o <<c>> \in Same
      PROVE  x \in Same
  <2>1. CASE IsLeaf(T, x)
    <3> DEFINE w == T[x].toplevel
    <3>1. w \in Toplevels
      <4>1. T[x] \in Node
        BY DEF Shape, GoodNode
      <4>2. QED
        BY <2>1, <4>1 DEF Node, Whole
    <3>2. x \in DOMAIN U /\ IsLeaf(U, x) /\ U[x].toplevel = m[w]
      BY <1>1, <2>1, <3>1 DEF Renamed
    <3>3. g[x] = <<m[w]>> /\ f[x] = <<w>>
      BY <1>2, <1>3, <2>1, <3>2 DEF Reads
    <3> HIDE DEF w
    <3>4. Mapped(<<w>>, m) = <<m[w]>>
      BY <3>1 DEF Mapped
    <3>5. QED
      BY <3>3, <3>4
  <2>2. CASE ~IsLeaf(T, x)
    <3> DEFINE x1 == x \o <<1>>
               x2 == x \o <<2>>
    <3>1. x1 \in DOMAIN T /\ x2 \in DOMAIN T
      BY <2>2, BothChildren
    <3>2. x1 \in Same /\ x2 \in Same
      BY <1>1, <1>4, <3>1
    <3>3. x \in DOMAIN U /\ ~IsLeaf(U, x)
      BY <1>1, <2>2 DEF Renamed
    <3>4. g[x] = g[x1] \o g[x2]
      BY <1>3, <3>3 DEF Reads
    <3>5. f[x] = f[x1] \o f[x2]
      BY <1>2, <2>2 DEF Reads
    <3> HIDE DEF x1, x2
    <3>6. f[x1] \in Seq(Toplevels) /\ f[x2] \in Seq(Toplevels)
      BY <1>2, <3>1 DEF Reads
    <3>7. g[x1] = Mapped(f[x1], m) /\ g[x2] = Mapped(f[x2], m)
      BY <3>2
    <3>8. Mapped(f[x1] \o f[x2], m) = Mapped(f[x1], m) \o Mapped(f[x2], m)
      BY <3>6, MappedConcat
    <3>9. g[x] = Mapped(f[x], m)
      BY <3>4, <3>5, <3>7, <3>8
    <3>10. QED
      BY <3>9
  <2>3. QED
    BY <2>1, <2>2
<1> HIDE DEF Same
<1>5. DOMAIN T \subseteq Same
  BY <1>4, TreeInduction
<1>6. CASE T = NoTree
  <2>1. DOMAIN U = {}
    BY <1>1, <1>6 DEF NoTree
  <2>2. U = NoTree
    <3>1. ~(Root \in DOMAIN U)
      BY <2>1
    <3>2. QED
      BY <3>1, HasRoot
  <2>3. Order(T) = << >> /\ Order(U) = << >>
    BY <1>6, <2>2 DEF Order
  <2>4. Mapped(<< >>, m) = << >>
    BY DEF Mapped
  <2>5. QED
    BY <2>3, <2>4
<1>7. CASE T # NoTree
  <2>1. Root \in DOMAIN T
    BY <1>7, HasRoot
  <2>2. U # NoTree
    BY <1>1, <2>1 DEF NoTree
  <2>3. g[Root] = Mapped(f[Root], m)
    BY <1>5, <2>1 DEF Same
  <2>4. QED
    BY <1>2, <1>3, <1>7, <2>2, <2>3
<1>8. QED
  BY <1>6, <1>7

\* A layout or a resize leaves the order as it is.
LEMMA SameOrder ==
  ASSUME NEW T, Shape(T), Whole(T), NEW U, Shape(U), Whole(U), SameLeaves(U, T)
  PROVE  Order(U) = Order(T)
<1> DEFINE m == [w \in Toplevels |-> w]
           s == Order(T)
<1>1. m \in [Toplevels -> Toplevels] /\ Renamed(U, T, m)
  BY DEF SameLeaves, Renamed
<1>2. s \in Seq(Toplevels)
  BY OrderIs
<1>3. \A i \in 1 .. Len(s) : m[s[i]] = s[i]
  <2> HIDE DEF s
  <2>1. QED
    BY <1>2
<1> HIDE DEF m, s
<1>4. Order(U) = Mapped(s, m)
  BY <1>1, RenamedOrder DEF s
<1>5. Mapped(s, m) = [i \in 1 .. Len(s) |-> s[i]]
  BY <1>3 DEF Mapped
<1>6. s = [i \in 1 .. Len(s) |-> s[i]]
  BY <1>2
<1>7. QED
  BY <1>4, <1>5, <1>6 DEF s

\* A swap exchanges two windows of the order.
LEMMA SwapOrder ==
  ASSUME NEW T, Shape(T), Whole(T), NEW a \in Tiled(T), NEW b \in Tiled(T), a # b
  PROVE  \E i, j \in 1 .. Len(Order(T)) :
           Order(Swap(T, a, b)) = [Order(T) EXCEPT ![i] = Order(T)[j], ![j] = Order(T)[i]]
<1> DEFINE m == Exchanged(a, b)
           s == Order(T)
           U == Swap(T, a, b)
<1>1. a \in Toplevels /\ b \in Toplevels
  BY TiledType
<1>2. m \in [Toplevels -> Toplevels]
  BY <1>1 DEF Exchanged
<1>3. Shape(U) /\ Whole(U) /\ Renamed(U, T, m)
  BY SwapGood
<1>4. s \in Seq(Toplevels) /\ IsInjective(s) /\ Range(s) = Tiled(T)
  BY OrderIs
<1>5. \A w \in Toplevels : m[w] = IF w = a THEN b ELSE IF w = b THEN a ELSE w
  BY DEF Exchanged
<1> HIDE DEF m, s, U
<1>6. Order(U) = Mapped(s, m)
  BY <1>2, <1>3, RenamedOrder DEF s
<1>7. PICK i \in 1 .. Len(s) : s[i] = a
  BY <1>4 DEF Range
<1>8. PICK j \in 1 .. Len(s) : s[j] = b
  BY <1>4 DEF Range
<1>9. \A k \in 1 .. Len(s) : s[k] \in Toplevels /\ (s[k] = a => k = i) /\ (s[k] = b => k = j)
  BY <1>4, <1>7, <1>8 DEF IsInjective
<1>10. i # j
  BY <1>7, <1>8
<1> DEFINE e == [s EXCEPT ![i] = s[j], ![j] = s[i]]
<1>11. e = [k \in 1 .. Len(s) |-> IF k = j THEN s[i] ELSE IF k = i THEN s[j] ELSE s[k]]
  <2>1. DOMAIN s = 1 .. Len(s)
    BY <1>4
  <2>2. QED
    BY <2>1
<1>12. \A k \in 1 .. Len(s) :
         m[s[k]] = IF k = j THEN s[i] ELSE IF k = i THEN s[j] ELSE s[k]
  BY <1>5, <1>7, <1>8, <1>9, <1>10
<1> HIDE DEF e
<1>13. Mapped(s, m) = e
  BY <1>11, <1>12 DEF Mapped
<1>14. Order(U) = [s EXCEPT ![i] = s[j], ![j] = s[i]]
  BY <1>6, <1>13 DEF e
<1>15. QED
  BY <1>14 DEF s, U

\* A window leaves the order of the others as it is.
LEMMA RemovedOrder ==
  ASSUME NEW T, Shape(T), Whole(T), NEW tl \in Tiled(T), NEW U \in Removed(T, tl),
         ~ReadsFreed(T, NodeOf(T, tl))
  PROVE  Taken(Order(T), Order(U), tl)
<1> DEFINE p == NodeOf(T, tl)
<1>1. p \in DOMAIN T /\ IsLeaf(T, p) /\ T[p].toplevel = tl /\ p \in Pos
  BY NodeOfIs DEF Shape
<1>2. Holding(T, tl) # {}
  BY TiledIs DEF Shape
<1>3. tl \in Toplevels
  BY TiledType
<1>4. /\ p = Root => U = NoTree
      /\ p # Root /\ Sibling(p) \notin DOMAIN T => U = [T EXCEPT ![p].toplevel = None]
      /\ p # Root /\ Sibling(p) \in DOMAIN T => U = Graft(T, p)
  BY <1>2 DEF Removed
<1> HIDE DEF p
<1>5. CASE p = Root
  <2>1. PICK f : Reads(f, T) /\ (T # NoTree => Order(T) = f[Root])
    BY ReadingOf
  <2>2. T # NoTree
    BY <1>1 DEF NoTree
  <2>3. Order(T) = <<tl>>
    BY <1>1, <1>5, <2>1, <2>2 DEF Reads
  <2>4. Order(U) = << >>
    BY <1>4, <1>5 DEF Order
  <2> DEFINE e == << >>
  <2>5. e \in Seq(Toplevels) /\ <<tl>> = (e \o <<tl>>) \o e /\ e = e \o e
    BY <1>3
  <2> HIDE DEF e
  <2>6. Taken(<<tl>>, e, tl)
    BY <1>3, <2>5, TakenIs
  <2>7. QED
    BY <2>3, <2>4, <2>6 DEF e
<1>6. CASE p # Root
  <2>1. Parent(p) \in DOMAIN T /\ ~IsLeaf(T, Parent(p))
    BY <1>1, <1>6, ParentIs
  <2>2. Sibling(p) \in DOMAIN T
    BY <1>1, <1>6, <2>1, BothChildren, SiblingIs
  <2>3. Taken(Order(T), Order(Graft(T, p)), tl)
    BY <1>1, <1>3, <1>6, <2>2, GraftOrder
  <2>4. QED
    BY <1>4, <1>6, <2>2, <2>3
<1>7. QED
  BY <1>5, <1>6

\* The steps of the abstract specification, of the order that get_toplevels gives.
LEMMA TilingRange ==
  ASSUME NEW T, Shape(T)
  PROVE  Tiling!Range(Order(T)) = Tiled(T)
BY OrderIs DEF Range, Tiling!Range

LEMMA PlaceTiles ==
  ASSUME Shape(tree), ~freed, freed' = freed, method' = method,
         NEW tl \in Toplevels, tl \notin Tiled(tree), Placed(Order(tree), Order(tree'), tl)
  PROVE  Tiling!Place(tl)
<1>1. PICK i \in 0 .. Len(Order(tree)) :
        Order(tree') = (SubSeq(Order(tree), 1, i) \o <<tl>>)
                         \o SubSeq(Order(tree), i + 1, Len(Order(tree)))
  BY DEF Placed
<1>2. tl \notin Tiling!Range(Order(tree))
  BY TilingRange
<1>3. QED
  BY <1>1, <1>2 DEF Tiling!Place, Tiling!Becomes, Tiling!First, Tiling!Others

LEMMA TakeTiles ==
  ASSUME ~freed, freed' = freed, method' = method,
         NEW tl \in Toplevels, Taken(Order(tree), Order(tree'), tl)
  PROVE  Tiling!Take(tl)
BY DEF Taken, Tiling!Take, Tiling!Becomes, Tiling!First, Tiling!Others

LEMMA ArrangeTiles ==
  ASSUME ~freed, freed' = freed, method' = method, method = "grid" \/ tree = NoTree,
         Shape(tree')
  PROVE  Tiling!Arrange
<1>1. Order(tree') \in Seq(Toplevels) /\ IsInjective(Order(tree'))
  BY OrderIs
<1>2. method = "grid" \/ Order(tree) = << >>
  BY DEF Order
<1>3. Tiling!IsInjective(Order(tree'))
  BY <1>1 DEF IsInjective, Tiling!IsInjective
<1>4. QED
  BY <1>1, <1>2, <1>3 DEF Tiling!Arrange

LEMMA AddTiles ==
  ASSUME IInv, ~freed, NEW tl \in Toplevels, Add(tl)
  PROVE  Tiling!Place(tl) \/ Tiling!PlaceLast(tl)
<1>1. Shape(tree) /\ Whole(tree) /\ tl \notin Tiled(tree)
  BY DEF IInv, Add
<1>2. freed' = freed /\ method' = method
  BY DEF Add, Becomes
<1>3. CASE tree' = InsertAt(tree, tl, tl)
  <2>1. tree' = Insert(tree, tl)
    BY <1>1, <1>3, InsertAtGood
  <2>2. Placed(Order(tree), Order(tree'), tl)
    BY <1>1, <2>1, InsertOrder
  <2>3. QED
    BY <1>1, <1>2, <2>2, PlaceTiles
<1>4. ASSUME method = "dwindle", NEW cov \in SUBSET (Tiled(tree) \cup {tl}),
             tree' = InsertAtDwindle(tree, tl, tl, cov)
      PROVE  Tiling!Place(tl) \/ Tiling!PlaceLast(tl)
  <2>1. CASE tree = NoTree
    <3>1. tree' = Insert(tree, tl)
      BY <1>4, <2>1 DEF InsertAtDwindle, Insert
    <3>2. Placed(Order(tree), Order(tree'), tl)
      BY <1>1, <3>1, InsertOrder
    <3>3. QED
      BY <1>1, <1>2, <3>2, PlaceTiles
  <2>2. CASE tree # NoTree
    <3> DEFINE o == Order(tree)
               s == Append(o, tl)
    <3>1. Holding(tree, tl) = {}
      BY <1>1, TiledIs DEF Shape
    <3>2. tree' = RebuildDwindle(s, cov)
      BY <1>4, <2>2, <3>1 DEF InsertAtDwindle
    <3>3. o \in Seq(Toplevels) /\ IsInjective(o) /\ Range(o) = Tiled(tree)
      BY <1>1, OrderIs
    <3>4. s \in Seq(Toplevels) /\ IsInjective(s)
      BY <1>1, <3>3, AppendOnce
    <3> HIDE DEF s, o
    <3>5. Order(tree') = Shown(s, cov)
      BY <3>2, <3>4, DwindleOrder
    <3>6. Shown(s, cov) = Tiling!Filter(s, Toplevels \ cov)
      BY DEF Shown, Filter, Tiling!Filter
    <3>7. Tiling!Range(Order(tree)) = Tiled(tree)
      BY <1>1, TilingRange
    <3>8. Order(tree') = Tiling!Filter(Append(Order(tree), tl), Toplevels \ cov)
      BY <3>5, <3>6 DEF s, o
    <3>9. Tiling!PlaceLast(tl)
      BY <1>1, <1>2, <1>4, <3>7, <3>8 DEF Tiling!PlaceLast, Tiling!Becomes
    <3>10. QED
      BY <3>9
  <2>3. QED
    BY <2>1, <2>2
<1>5. QED
  BY <1>3, <1>4 DEF Add, Becomes

LEMMA RemoveTiles ==
  ASSUME IInv, ~freed, NEW tl \in Toplevels, Remove(tl)
  PROVE  Tiling!Take(tl) \/ Tiling!Lose
<1>1. /\ tl \in Tiled(tree) /\ tree' \in Removed(tree, tl)
      /\ freed' = (freed \/ ReadsFreed(tree, NodeOf(tree, tl))) /\ method' = method
  BY DEF Remove
<1>2. CASE ReadsFreed(tree, NodeOf(tree, tl))
  <2>1. freed' = TRUE
    BY <1>1, <1>2
  <2>2. QED
    BY <1>1, <2>1 DEF Tiling!Lose
<1>3. CASE ~ReadsFreed(tree, NodeOf(tree, tl))
  <2>1. Shape(tree) /\ Whole(tree) /\ freed' = freed
    BY <1>1, <1>3 DEF IInv
  <2>2. Taken(Order(tree), Order(tree'), tl)
    BY <1>1, <1>3, <2>1, RemovedOrder
  <2>3. QED
    BY <1>1, <2>1, <2>2, TakeTiles
<1>4. QED
  BY <1>2, <1>3

LEMMA SwapTiles ==
  ASSUME IInv, ~freed, SwapLeaves
  PROVE  \E i, j \in 1 .. Len(Order(tree)) : Tiling!Exchange(i, j)
<1>1. PICK a, b \in Tiled(tree) : a # b /\ Becomes(Swap(tree, a, b))
  BY DEF SwapLeaves
<1>2. tree' = Swap(tree, a, b) /\ freed' = freed /\ method' = method
  BY <1>1 DEF Becomes
<1>3. Shape(tree) /\ Whole(tree)
  BY DEF IInv
<1>4. PICK i, j \in 1 .. Len(Order(tree)) :
        Order(Swap(tree, a, b)) = [Order(tree) EXCEPT ![i] = Order(tree)[j],
                                                      ![j] = Order(tree)[i]]
  BY <1>1, <1>3, SwapOrder
<1>5. Order(tree') = [Order(tree) EXCEPT ![i] = Order(tree)[j], ![j] = Order(tree)[i]]
  BY <1>2, <1>4
<1>6. QED
  BY <1>2, <1>5 DEF Tiling!Exchange, Tiling!Becomes

\* Each step is one of the abstract specification.
LEMMA StepTiles == IInv /\ [Next]_vars => [Tiling!Next]_(Tiling!vars)
<1> SUFFICES ASSUME IInv, [Next]_vars PROVE Tiling!Next \/ UNCHANGED Tiling!vars
  OBVIOUS
<1>1. CASE freed
  <2>1. freed' = freed /\ method' = method
    BY <1>1 DEF IInv, Next, Add, Restore, Remove, Regrid, ToggleOn, ToggleOff, SwapLeaves,
               Drag, ApplyLayout, Becomes, vars
  <2>2. QED
    BY <1>1, <2>1 DEF Tiling!vars
<1>2. CASE ~freed
  <2>1. Shape(tree) /\ Whole(tree)
    BY <1>2 DEF IInv
  <2>2. IInv'
    BY NextInvariant
  <2>3. ASSUME freed' = freed, method' = method, SameLeaves(tree', tree)
        PROVE  UNCHANGED Tiling!vars
    <3>1. Shape(tree') /\ Whole(tree')
      BY <1>2, <2>2, <2>3 DEF IInv
    <3>2. Order(tree') = Order(tree)
      BY <2>1, <2>3, <3>1, SameOrder
    <3>3. QED
      BY <2>3, <3>2 DEF Tiling!vars
  <2>4. ASSUME NEW tl \in Toplevels, Add(tl) PROVE Tiling!Next
    BY <1>2, <2>4, AddTiles DEF Tiling!Next
  <2>5. ASSUME NEW tl \in Toplevels, Restore(tl) PROVE Tiling!Next
    <3>1. tl \notin Tiled(tree) /\ tree' = Insert(tree, tl) /\ freed' = freed /\ method' = method
      BY <2>5 DEF Restore, Becomes
    <3>2. Placed(Order(tree), Order(tree'), tl)
      BY <2>1, <3>1, InsertOrder
    <3>3. Tiling!Place(tl)
      BY <1>2, <2>1, <3>1, <3>2, PlaceTiles
    <3>4. QED
      BY <3>3 DEF Tiling!Next
  <2>6. ASSUME NEW tl \in Toplevels, Remove(tl) PROVE Tiling!Next
    BY <1>2, <2>6, RemoveTiles DEF Tiling!Next
  <2>7. CASE Regrid \/ ToggleOn
    <3>1. freed' = freed /\ method' = method /\ (method = "grid" \/ tree = NoTree)
      <4>1. method = "bsp" \/ method = "dwindle" \/ method = "grid"
        BY DEF IInv
      <4>2. QED
        BY <2>7, <4>1 DEF Regrid, ToggleOn, Becomes
    <3>2. Shape(tree')
      BY <2>2 DEF IInv
    <3>3. Tiling!Arrange
      BY <1>2, <3>1, <3>2, ArrangeTiles
    <3>4. QED
      BY <3>3 DEF Tiling!Next
  <2>8. CASE ToggleOff
    <3>1. tree' = NoTree /\ freed' = freed /\ method' = method
      BY <2>8 DEF ToggleOff, Becomes
    <3>2. Order(tree') = << >>
      BY <3>1 DEF Order
    <3>3. Tiling!Clear
      BY <1>2, <3>1, <3>2 DEF Tiling!Clear, Tiling!Becomes
    <3>4. QED
      BY <3>3 DEF Tiling!Next
  <2>9. CASE SwapLeaves
    <3>1. PICK i, j \in 1 .. Len(Order(tree)) : Tiling!Exchange(i, j)
      BY <1>2, <2>9, SwapTiles
    <3>2. QED
      BY <1>2, <3>1 DEF Tiling!Next
  <2>10. CASE Drag
    <3>1. PICK tl \in Tiled(tree), e \in Edges, c \in Cursors :
            Becomes(Resize(tree, tl, e, c))
      BY <2>10 DEF Drag
    <3>2. SameLeaves(Resize(tree, tl, e, c), tree)
      BY <2>1, ResizeGood
    <3>3. tree' = Resize(tree, tl, e, c) /\ freed' = freed /\ method' = method
      BY <3>1 DEF Becomes
    <3>4. SameLeaves(tree', tree)
      BY <3>2, <3>3
    <3>5. QED
      BY <2>3, <3>3, <3>4
  <2>11. CASE ApplyLayout
    <3>1. tree' = Layout(tree, Bounds) /\ freed' = freed /\ method' = method
      BY <2>11 DEF ApplyLayout, Becomes
    <3>2. Bounds \in Box
      BY BSPAssumption DEF Box
    <3>3. SameLeaves(Layout(tree, Bounds), tree)
      BY <2>1, <3>2, LayoutGood DEF SameLeaves
    <3>4. SameLeaves(tree', tree)
      BY <3>1, <3>3
    <3>5. QED
      BY <2>3, <3>1, <3>4
  <2>12. CASE UNCHANGED vars
    BY <2>12 DEF vars, Tiling!vars
  <2>13. QED
    BY <2>4, <2>5, <2>6, <2>7, <2>8, <2>9, <2>10, <2>11, <2>12 DEF Next
<1>3. QED
  BY <1>1, <1>2

\* The tree keeps its windows in order: each call of insert*(), remove, swap and
\* rebuild*() is a step of the list that get_toplevels gives, the others none.
THEOREM TreeKeepsOrder == Spec => KeepsOrder
<1>1. Init => Tiling!Init
  <2>1. SUFFICES ASSUME Init PROVE Tiling!Init
    OBVIOUS
  <2>2. Order(NoTree) = << >>
    BY DEF Order
  <2>3. QED
    BY <2>1, <2>2 DEF Init, Tiling!Init
<1>2. IInv /\ [Next]_vars => [Tiling!Next]_(Tiling!vars)
  BY StepTiles
<1>3. QED
  BY <1>1, <1>2, TreeInvariant, PTL DEF Spec, KeepsOrder, Tiling!Spec

-----------------------------------------------------------------------------
(* Room *)

\* The share of a longer length is not shorter, and neither is the rest.
LEMMA ShareGrows ==
  ASSUME NEW w \in Nat, NEW v \in Nat, w <= v, NEW a \in Int, NEW b \in Int, 0 < a, a < b
  PROVE  /\ (w * a) \div b <= (v * a) \div b
         /\ w - (w * a) \div b <= v - (v * a) \div b
<1> DEFINE m == w * a
           n == v * a
           q == m \div b
           r == n \div b
           d == v - w
<1>1. m \in Int /\ n \in Int /\ d \in Nat /\ a \in Nat /\ b \in Nat /\ b - a \in Nat
  OBVIOUS
<1>2. n - m = d * a /\ d * a \in Nat /\ d * (b - a) \in Nat /\ d * (b - a) = b * d - d * a
  <2>1. v * a - w * a = (v - w) * a
    OBVIOUS
  <2>2. d * a \in Nat /\ d * (b - a) \in Nat
    BY <1>1
  <2>3. d * (b - a) = b * d - d * a
    BY <1>1
  <2>4. QED
    BY <2>1, <2>2, <2>3
<1> DEFINE s == d * a
           t == b * d
<1>3. s \in Nat /\ t \in Int /\ s <= t /\ n - m = s
  <2>1. t \in Int
    BY <1>1
  <2>2. t - s \in Nat
    BY <1>2
  <2>3. QED
    BY <1>2, <2>1, <2>2
<1> HIDE DEF m, n, s
<1>4. q \in Int /\ b * q <= m /\ m < b * q + b
  BY <1>1
<1>5. r \in Int /\ b * r <= n /\ n < b * r + b
  BY <1>1
<1> HIDE DEF q, r
<1>6. b * q \in Int /\ b * r \in Int
  BY <1>4, <1>5
<1>7. q <= r
  <2>1. ASSUME r < q PROVE FALSE
    <3>1. q - r - 1 \in Nat
      BY <1>4, <1>5, <2>1
    <3>2. b * (q - r - 1) \in Nat
      BY <1>1, <3>1
    <3>3. b * (q - r - 1) = b * q - b * r - b
      BY <1>4, <1>5
    <3>4. QED
      BY <1>1, <1>3, <1>4, <1>5, <1>6, <3>2, <3>3
  <2>2. QED
    BY <1>4, <1>5, <2>1
<1>8. r - q <= d
  <2>1. ASSUME d < r - q PROVE FALSE
    <3>1. r - q - d - 1 \in Nat
      BY <1>1, <1>4, <1>5, <2>1
    <3>2. b * (r - q - d - 1) \in Nat
      BY <1>1, <3>1
    <3>3. b * (r - q - d - 1) = b * r - b * q - t - b
      BY <1>1, <1>4, <1>5
    <3> HIDE DEF t
    <3>4. QED
      BY <1>1, <1>3, <1>4, <1>5, <1>6, <3>2, <3>3
  <2>2. QED
    BY <1>1, <1>4, <1>5, <2>1
<1>9. w - q <= v - r
  BY <1>1, <1>4, <1>5, <1>8
<1>10. QED
  BY <1>7, <1>9 DEF q, r, m, n

\* b1 fits into b2, wherever they are.
Fits(b1, b2) == b1.width <= b2.width /\ b1.height <= b2.height

\* A part of a smaller box is smaller, and a part fits into the whole.
LEMMA PartFits ==
  ASSUME NEW node \in GoodNode, node.split # "none", NEW b1 \in Box, NEW c \in Side
  PROVE  /\ \A b2 \in Box : Fits(b1, b2) => Fits(Part(node, b1, c), Part(node, b2, c))
         /\ Fits(Part(node, b1, c), b1)
<1>1. /\ node.ratio[1] \in Int /\ node.ratio[2] \in Int
      /\ 0 < node.ratio[1] /\ node.ratio[1] < node.ratio[2]
      /\ node.split = "horizontal" \/ node.split = "vertical"
  BY DEF GoodNode, Node
<1>2. \A l, k \in Nat : l <= k => Cut(node, l) <= Cut(node, k) /\ l - Cut(node, l) <= k - Cut(node, k)
  BY <1>1, ShareGrows DEF Cut
<1>3. \A l \in Nat : Cut(node, l) \in 0 .. l
  BY <1>1, Share DEF Cut
<1>4. \A b \in Box : Sizes(node, b, Part(node, b, 1), Part(node, b, 2))
  BY PartIs
<1>5. \A b \in Box : b.width \in Nat /\ b.height \in Nat
  BY DEF Box
<1>6. c = 1 \/ c = 2
  BY DEF Side
<1>7. ASSUME NEW b2 \in Box, Fits(b1, b2) PROVE Fits(Part(node, b1, c), Part(node, b2, c))
  <2>1. /\ Sizes(node, b1, Part(node, b1, 1), Part(node, b1, 2))
        /\ Sizes(node, b2, Part(node, b2, 1), Part(node, b2, 2))
    BY <1>4
  <2>2. /\ Cut(node, b1.width) <= Cut(node, b2.width)
        /\ b1.width - Cut(node, b1.width) <= b2.width - Cut(node, b2.width)
        /\ Cut(node, b1.height) <= Cut(node, b2.height)
        /\ b1.height - Cut(node, b1.height) <= b2.height - Cut(node, b2.height)
        /\ b1.width <= b2.width /\ b1.height <= b2.height
    BY <1>2, <1>5, <1>7 DEF Fits
  <2>3. CASE c = 1
    BY <1>1, <2>1, <2>2, <2>3 DEF Fits, Sizes
  <2>4. CASE c = 2
    BY <1>1, <2>1, <2>2, <2>4 DEF Fits, Sizes
  <2>5. QED
    BY <1>6, <2>3, <2>4
<1>8. Fits(Part(node, b1, c), b1)
  <2>1. Sizes(node, b1, Part(node, b1, 1), Part(node, b1, 2))
    BY <1>4
  <2>2. /\ Cut(node, b1.width) \in 0 .. b1.width /\ b1.width \in Nat
        /\ Cut(node, b1.height) \in 0 .. b1.height /\ b1.height \in Nat
    BY <1>3, <1>5
  <2>3. CASE c = 1
    BY <1>1, <2>1, <2>2, <2>3 DEF Fits, Sizes
  <2>4. CASE c = 2
    BY <1>1, <2>1, <2>2, <2>4 DEF Fits, Sizes
  <2>5. QED
    BY <1>6, <2>3, <2>4
<1>9. QED
  BY <1>7, <1>8

\* What calculate_layout gives each node, from the root down.
LEMMA BoxesAre ==
  ASSUME NEW T, Shape(T), NEW b \in Box
  PROVE  \E f \in [DOMAIN T -> Box] :
           /\ Root \in DOMAIN T => f[Root] = b
           /\ \A p \in DOMAIN T, c \in Side :
                p \o <<c>> \in DOMAIN T => f[p \o <<c>>] = Part(T[p], f[p], c)
           /\ \A p \in DOMAIN T : Layout(T, b)[p].geometry = f[p]
<1>1. PICK f \in [DOMAIN T -> Box] : Boxes(f, T, b)
  BY LayoutRecursion
<1>2. \A p \in DOMAIN T :
        f[p] = IF p = Root THEN b ELSE Part(T[Parent(p)], f[Parent(p)], Ext!Last(p))
  BY <1>1 DEF Boxes
<1>3. Root \in DOMAIN T => f[Root] = b
  BY <1>2
<1>4. ASSUME NEW p \in DOMAIN T, NEW c \in Side, p \o <<c>> \in DOMAIN T
      PROVE  f[p \o <<c>>] = Part(T[p], f[p], c)
  <2> DEFINE q == p \o <<c>>
  <2>1. p \in Pos
    BY DEF Shape
  <2>2. q \in DOMAIN T /\ q # Root /\ Parent(q) = p /\ Ext!Last(q) = c
    BY <1>4, <2>1, ChildPos
  <2> HIDE DEF q
  <2>3. f[q] = Part(T[p], f[p], c)
    BY <1>2, <2>2
  <2>4. QED
    BY <2>3 DEF q
<1>5. ASSUME NEW p \in DOMAIN T PROVE Layout(T, b)[p].geometry = f[p]
  <2>1. Layout(T, b)[p] = [T[p] EXCEPT !.geometry = f[p]]
    BY <1>1 DEF Boxes
  <2>2. T[p] \in Node
    BY DEF Shape, GoodNode
  <2>3. QED
    BY <2>1, <2>2 DEF Node
<1>6. QED
  BY <1>3, <1>4, <1>5

\* f is those boxes.
BoxesOf(f, T, b) ==
  /\ f \in [DOMAIN T -> Box]
  /\ Root \in DOMAIN T => f[Root] = b
  /\ \A p \in DOMAIN T, c \in Side :
       p \o <<c>> \in DOMAIN T => f[p \o <<c>>] = Part(T[p], f[p], c)
  /\ \A p \in DOMAIN T : Layout(T, b)[p].geometry = f[p]

\* The parts depend on the split and the ratio.
LEMMA PartAlike ==
  ASSUME NEW n1, NEW n2, Alike(n1, n2), NEW b, NEW c
  PROVE  Part(n1, b, c) = Part(n2, b, c)
BY DEF Part, Alike

\* Trees that differ at p and below give the other nodes, and p, the same boxes.
LEMMA BoxesAround ==
  ASSUME NEW T, Shape(T), NEW U, Shape(U), NEW p \in DOMAIN T, p \in DOMAIN U,
         Around(T, U, p), NEW b, NEW f, BoxesOf(f, T, b), NEW g, BoxesOf(g, U, b)
  PROVE  \A q \in DOMAIN T : q = p \/ ~Extends(p, q) => q \in DOMAIN U /\ g[q] = f[q]
<1> DEFINE Same == {q \in DOMAIN T : q = p \/ ~Extends(p, q) => q \in DOMAIN U /\ g[q] = f[q]}
<1>1. DOMAIN T \subseteq Pos /\ p \in Pos
  BY DEF Shape
<1>2. \A q \in DOMAIN T : q = p \/ ~Extends(p, q) => q \in DOMAIN U
  BY <1>1 DEF Around
<1>3. Root \in DOMAIN T => Root \in Same
  BY <1>2 DEF BoxesOf
<1>4. ASSUME NEW q \in DOMAIN T, NEW c \in Side,
             q \in Same, ~IsLeaf(T, q), q \o <<c>> \in DOMAIN T
      PROVE  q \o <<c>> \in Same
  <2> DEFINE k == q \o <<c>>
  <2>1. SUFFICES ASSUME k = p \/ ~Extends(p, k) PROVE g[k] = f[k]
    BY <1>2, <1>4
  <2>2. q \in Pos /\ k \in Pos /\ k # q /\ Extends(q, k)
    <3>1. q \in Pos /\ k \in Pos /\ Len(k) = Len(q) + 1 /\ Len(q) \in Nat
      BY <1>1, ChildPos DEF Pos
    <3>2. Extends(q, q)
      BY <3>1, ExtendsIs
    <3>3. Extends(q, k)
      BY <3>1, <3>2, ExtendsIs
    <3> HIDE DEF k
    <3>4. QED
      BY <3>1, <3>3
  <2>3. ~Extends(p, q)
    <3>1. CASE k = p
      <4>1. Extends(q, p) /\ p # q
        BY <2>2, <3>1
      <4>2. QED
        BY <1>1, <2>2, <4>1, ExtendsBoth
    <3>2. CASE ~Extends(p, k)
      BY <1>1, <2>2, <3>2, ExtendsIs
    <3>3. QED
      BY <2>1, <3>1, <3>2
  <2>4. q \in DOMAIN U /\ g[q] = f[q] /\ Alike(T[q], U[q])
    BY <1>4, <2>2, <2>3 DEF Around
  <2>5. k \in DOMAIN T /\ k \in DOMAIN U
    BY <1>2, <1>4, <2>1
  <2>6. f[k] = Part(T[q], f[q], c) /\ g[k] = Part(U[q], g[q], c)
    BY <2>4, <2>5 DEF BoxesOf
  <2>7. Part(T[q], f[q], c) = Part(U[q], f[q], c)
    BY <2>4, PartAlike
  <2> HIDE DEF k
  <2>8. QED
    BY <2>4, <2>6, <2>7
<1> HIDE DEF Same
<1>5. DOMAIN T \subseteq Same
  BY <1>3, <1>4, RootInduction
<1>6. QED
  BY <1>5 DEF Same

\* A tree inside two others has smaller boxes where its root has a smaller one.
LEMMA BoxesWithin ==
  ASSUME NEW S, Shape(S), NEW T, Shape(T), NEW U, Shape(U), NEW p \in Pos, NEW r \in Pos,
         Within(S, T, p), Within(S, U, r), NEW b, NEW f, BoxesOf(f, T, b),
         NEW g, BoxesOf(g, U, b), Fits(f[p], g[r])
  PROVE  \A x \in DOMAIN S : Fits(f[At(p, x)], g[At(r, x)])
<1> DEFINE Smaller == {x \in DOMAIN S : Fits(f[At(p, x)], g[At(r, x)])}
<1>1. DOMAIN S \subseteq Pos
  BY DEF Shape
<1>2. Root \in DOMAIN S => Root \in Smaller
  <2>1. At(p, Root) = p /\ At(r, Root) = r
    <3>1. Root \in Pos
      BY TopPos DEF Side
    <3>2. QED
      BY <3>1, AtIs
  <2>2. QED
    BY <2>1
<1>3. ASSUME NEW x \in DOMAIN S, NEW c \in Side,
             x \in Smaller, ~IsLeaf(S, x), x \o <<c>> \in DOMAIN S
      PROVE  x \o <<c>> \in Smaller
  <2> DEFINE k == x \o <<c>>
             y == At(p, x)
             z == At(r, x)
             yc == At(p, k)
             zc == At(r, k)
  <2>1. y \o <<c>> = yc /\ z \o <<c>> = zc
    <3>1. y \o <<c>> = yc
      BY <1>1, AtIs
    <3>2. z \o <<c>> = zc
      BY <1>1, AtIs
    <3>3. QED
      BY <3>1, <3>2
  <2>2. /\ y \in DOMAIN T /\ z \in DOMAIN U /\ yc \in DOMAIN T /\ zc \in DOMAIN U
        /\ Alike(T[y], S[x]) /\ Alike(U[z], S[x]) /\ k \in DOMAIN S
    BY <1>3 DEF Within
  <2> HIDE DEF k, y, z, yc, zc
  <2>3. f[yc] = Part(T[y], f[y], c) /\ g[zc] = Part(U[z], g[z], c)
    BY <2>1, <2>2 DEF BoxesOf
  <2>4. f[y] \in Box /\ g[z] \in Box
    BY <2>2 DEF BoxesOf
  <2>5. S[x] \in GoodNode /\ S[x].split # "none"
    BY <1>3 DEF Shape, IsLeaf
  <2>6. Fits(f[y], g[z])
    BY <1>3 DEF y, z
  <2>7. Fits(Part(S[x], f[y], c), Part(S[x], g[z], c))
    BY <2>4, <2>5, <2>6, PartFits
  <2>8. Part(T[y], f[y], c) = Part(S[x], f[y], c) /\ Part(U[z], g[z], c) = Part(S[x], g[z], c)
    BY <2>2, PartAlike
  <2>9. Fits(f[yc], g[zc])
    BY <2>3, <2>7, <2>8
  <2>10. QED
    BY <2>2, <2>9 DEF k, yc, zc
<1> HIDE DEF Smaller
<1>4. DOMAIN S \subseteq Smaller
  BY <1>2, <1>3, RootInduction
<1>5. QED
  BY <1>4 DEF Smaller

\* A window's leaf is where the window is.
LEMMA NodeIs ==
  ASSUME NEW T, Shape(T), NEW q \in DOMAIN T, IsLeaf(T, q), NEW u, T[q].toplevel = u, u # None
  PROVE  u \in Tiled(T) /\ NodeOf(T, u) = q
<1>1. u \in Tiled(T)
  BY TiledIs DEF Shape
<1>2. /\ NodeOf(T, u) \in DOMAIN T /\ IsLeaf(T, NodeOf(T, u))
      /\ T[NodeOf(T, u)].toplevel = u
  BY <1>1, NodeOfIs
<1>3. QED
  BY <1>1, <1>2 DEF Shape, Distinct

\* The boxes of the windows.
LEMMA BoxOfIs ==
  ASSUME NEW T, Shape(T)
  PROVE  \E f : BoxesOf(f, T, Bounds) /\ \A u \in Tiled(T) : BoxOf(T, u) = f[NodeOf(T, u)]
<1>1. Bounds \in Box
  BY BSPAssumption DEF Box
<1>2. PICK f : BoxesOf(f, T, Bounds)
  BY <1>1, BoxesAre DEF BoxesOf
<1>3. \A u \in Tiled(T) : BoxOf(T, u) = f[NodeOf(T, u)]
  BY <1>2, NodeOfIs DEF BoxesOf, BoxOf
<1>4. QED
  BY <1>2, <1>3

\* A leaf that is split leaves all the other windows their boxes.
LEMMA SplitRoom ==
  ASSUME NEW T, Shape(T), NEW p \in DOMAIN T, IsLeaf(T, p),
         NEW tl \in Toplevels, tl \notin Tiled(T),
         NEW split \in {"horizontal", "vertical"},
         NEW u \in Tiled(T), u # T[p].toplevel
  PROVE  BoxOf(SplitLeaf(T, p, tl, split), u) = BoxOf(T, u)
<1> DEFINE U == SplitLeaf(T, p, tl, split)
           q == NodeOf(T, u)
<1>1. Shape(U) /\ Around(T, U, p) /\ p \in DOMAIN U
  BY SplitGood, SplitAround
<1>2. q \in DOMAIN T /\ IsLeaf(T, q) /\ T[q].toplevel = u /\ u # None /\ p \in Pos /\ q \in Pos
  BY NodeOfIs DEF Shape
<1> HIDE DEF U, q
<1>3. q # p /\ ~Extends(p, q)
  <2>1. q # p
    BY <1>2
  <2>2. Extends(p, q) => p = q \/ ~IsLeaf(T, p)
    BY <1>2, AboveIs
  <2>3. QED
    BY <2>1, <2>2
<1>4. q \in DOMAIN U /\ Alike(T[q], U[q])
  BY <1>1, <1>2, <1>3 DEF Around
<1>5. u \in Tiled(U) /\ NodeOf(U, u) = q
  <2>1. IsLeaf(U, q) /\ U[q].toplevel = u
    BY <1>2, <1>4 DEF Alike, IsLeaf
  <2>2. QED
    BY <1>1, <1>2, <1>4, <2>1, NodeIs
<1>6. PICK f : BoxesOf(f, T, Bounds) /\ \A w \in Tiled(T) : BoxOf(T, w) = f[NodeOf(T, w)]
  BY BoxOfIs
<1>7. PICK g : BoxesOf(g, U, Bounds) /\ \A w \in Tiled(U) : BoxOf(U, w) = g[NodeOf(U, w)]
  BY <1>1, BoxOfIs
<1>8. g[q] = f[q]
  BY <1>1, <1>2, <1>3, <1>6, <1>7, BoxesAround
<1>9. BoxOf(U, u) = BoxOf(T, u)
  BY <1>5, <1>6, <1>7, <1>8 DEF q
<1>10. QED
  BY <1>9 DEF U

\* A window that leaves makes no other smaller.
LEMMA GraftRoom ==
  ASSUME NEW T, Shape(T), Whole(T), NEW p \in DOMAIN T, p # Root, IsLeaf(T, p),
         Sibling(p) \in DOMAIN T, NEW u \in Tiled(T), u # T[p].toplevel
  PROVE  Fits(BoxOf(T, u), BoxOf(Graft(T, p), u))
<1> DEFINE r == Parent(p)
           b == Sibling(p)
           c == 3 - Ext!Last(p)
           G == Graft(T, p)
           q == NodeOf(T, u)
<1>1. DOMAIN T \subseteq Pos /\ p \in Pos /\ b \in DOMAIN T /\ b \in Pos
  BY DEF Shape
<1>2. /\ r \in DOMAIN T /\ r \in Pos /\ ~IsLeaf(T, r) /\ c \in Side
      /\ p = r \o <<3 - c>> /\ b = r \o <<c>>
  <2>1. /\ r \in DOMAIN T /\ ~IsLeaf(T, r) /\ p = r \o <<Ext!Last(p)>> /\ Ext!Last(p) \in Side
        /\ r \in Pos /\ c \in Side /\ b = r \o <<c>>
    BY <1>1, ParentIs, SiblingIs
  <2>2. 3 - c = Ext!Last(p)
    BY <2>1 DEF Side
  <2>3. QED
    BY <2>1, <2>2
<1>3. PICK S : Grafted(S, T, p, G)
  BY GraftPlaces
<1>4. Shape(G)
  BY GraftGood
<1>5. q \in DOMAIN T /\ IsLeaf(T, q) /\ T[q].toplevel = u /\ u # None /\ q \in Pos
  BY <1>1, NodeOfIs
<1>6. PICK f : BoxesOf(f, T, Bounds) /\ \A w \in Tiled(T) : BoxOf(T, w) = f[NodeOf(T, w)]
  BY BoxOfIs
<1>7. PICK g : BoxesOf(g, G, Bounds) /\ \A w \in Tiled(G) : BoxOf(G, w) = g[NodeOf(G, w)]
  BY <1>4, BoxOfIs
<1>8. /\ Shape(S) /\ Within(S, T, b) /\ Within(S, G, r)
      /\ Around(T, G, r) /\ r \in DOMAIN G
      /\ \A x \in Pos : At(b, x) \in DOMAIN T => x \in DOMAIN S
  BY <1>3 DEF Grafted
<1> HIDE DEF r, b, c, G, q
<1>9. \A k \in DOMAIN T : k = r \/ ~Extends(r, k) => k \in DOMAIN G /\ g[k] = f[k]
  BY <1>2, <1>4, <1>6, <1>7, <1>8, BoxesAround
<1>10. \A k \in DOMAIN T : f[k] \in Box
  BY <1>6 DEF BoxesOf
<1>11. \A bx \in Box : Fits(bx, bx)
  BY DEF Box, Fits
<1>12. CASE ~Extends(r, q)
  <2>1. q \in DOMAIN G /\ g[q] = f[q] /\ Alike(T[q], G[q])
    BY <1>5, <1>8, <1>9, <1>12 DEF Around
  <2>2. IsLeaf(G, q) /\ G[q].toplevel = u
    BY <1>5, <2>1 DEF Alike, IsLeaf
  <2>3. u \in Tiled(G) /\ NodeOf(G, u) = q
    BY <1>4, <1>5, <2>1, <2>2, NodeIs
  <2>4. BoxOf(T, u) = f[q] /\ BoxOf(G, u) = g[q]
    BY <1>6, <1>7, <2>3 DEF q
  <2>5. QED
    BY <1>5, <1>10, <1>11, <2>1, <2>4 DEF G
<1>13. CASE Extends(r, q)
  <2>1. q # r
    BY <1>2, <1>5
  <2>2. Extends(b, q)
    <3>1. PICK d \in Side : Extends(r \o <<d>>, q)
      BY <1>2, <1>5, <1>13, <2>1, ExtendsIs
    <3>2. ~Extends(p, q)
      <4>1. Extends(p, q) => p = q \/ ~IsLeaf(T, p)
        BY <1>1, <1>5, AboveIs
      <4>2. p # q
        BY <1>5
      <4>3. QED
        BY <4>1, <4>2
    <3>3. d = c \/ d = 3 - c
      BY <1>2 DEF Side
    <3>4. QED
      BY <1>2, <3>1, <3>2, <3>3
  <2>3. PICK x \in Pos : q = At(b, x)
    BY <2>2 DEF Extends, At
  <2>4. x \in DOMAIN S
    BY <1>5, <1>8, <2>3
  <2> DEFINE k == At(r, x)
  <2>5. k \in DOMAIN G /\ Alike(G[k], S[x]) /\ Alike(T[q], S[x])
    BY <1>8, <2>3, <2>4 DEF Within
  <2> HIDE DEF k
  <2>6. IsLeaf(G, k) /\ G[k].toplevel = u
    BY <1>5, <2>5 DEF Alike, IsLeaf
  <2>7. u \in Tiled(G) /\ NodeOf(G, u) = k
    BY <1>4, <1>5, <2>5, <2>6, NodeIs
  <2>8. Fits(f[b], g[r])
    <3>1. f[r] \in Box /\ g[r] = f[r]
      BY <1>2, <1>9, <1>10
    <3>2. f[b] = Part(T[r], f[r], c)
      BY <1>1, <1>2, <1>6 DEF BoxesOf
    <3>3. T[r] \in GoodNode /\ T[r].split # "none"
      BY <1>2 DEF Shape, IsLeaf
    <3>4. Fits(Part(T[r], f[r], c), f[r])
      BY <1>2, <3>1, <3>3, PartFits
    <3>5. QED
      BY <3>1, <3>2, <3>4
  <2>9. Fits(f[q], g[k])
    <3>1. \A y \in DOMAIN S : Fits(f[At(b, y)], g[At(r, y)])
      BY <1>1, <1>2, <1>4, <1>6, <1>7, <1>8, <2>8, BoxesWithin
    <3>2. QED
      BY <2>3, <2>4, <3>1 DEF k
  <2>10. BoxOf(T, u) = f[q] /\ BoxOf(G, u) = g[k]
    BY <1>6, <1>7, <2>7 DEF q
  <2>11. QED
    BY <2>9, <2>10 DEF G
<1>14. QED
  BY <1>12, <1>13

\* At most one window gives room to a new one.
LEMMA InsertRoom ==
  ASSUME NEW T, Shape(T), NEW tl \in Toplevels, tl \notin Tiled(T)
  PROVE  Cardinality({u \in Tiled(T) : BoxOf(T, u) # BoxOf(Insert(T, tl), u)}) <= 1
<1> DEFINE Smaller == {u \in Tiled(T) : BoxOf(T, u) # BoxOf(Insert(T, tl), u)}
<1>1. \E e : Smaller \subseteq {e}
  <2>1. CASE T = NoTree
    BY <2>1, NoTreeGood
  <2>2. CASE T # NoTree
    <3> DEFINE p == InsertionPoint(T)
    <3>1. p \in DOMAIN T /\ IsLeaf(T, p)
      BY <2>2, InsertionPointIs
    <3>2. Insert(T, tl) = SplitLeaf(T, p, tl, SplitType(p))
      BY <2>2 DEF Insert
    <3>3. SplitType(p) \in {"horizontal", "vertical"}
      BY DEF SplitType
    <3> HIDE DEF p
    <3>4. \A u \in Tiled(T) : u # T[p].toplevel =>
            BoxOf(SplitLeaf(T, p, tl, SplitType(p)), u) = BoxOf(T, u)
      BY <3>1, <3>3, SplitRoom
    <3>5. Smaller \subseteq {T[p].toplevel}
      BY <3>2, <3>4
    <3>6. QED
      BY <3>5
  <2>3. QED
    BY <2>1, <2>2
<1>2. PICK e : Smaller \subseteq {e}
  BY <1>1
<1> HIDE DEF Smaller
<1>3. IsFiniteSet({e}) /\ Cardinality({e}) = 1
  BY FS_Singleton
<1>4. Cardinality(Smaller) <= Cardinality({e})
  BY <1>2, <1>3, FS_Subset
<1>5. IsFiniteSet(Smaller)
  BY <1>2, <1>3, FS_Subset
<1>6. Cardinality(Smaller) <= 1
  BY <1>3, <1>4
<1>7. QED
  BY <1>6 DEF Smaller

\* A window that leaves makes no other smaller, and a new one takes its room from one
\* other at most: remove, insert and insert_at.
THEOREM WindowsShareRoom == Spec => RoomIsShared
<1> DEFINE Shared ==
      ~freed' =>
        \A tl \in Toplevels :
          /\ Remove(tl) =>
               \A u \in Tiled(tree) \ {tl} :
                 /\ BoxOf(tree, u).width <= BoxOf(tree', u).width
                 /\ BoxOf(tree, u).height <= BoxOf(tree', u).height
          /\ (Restore(tl) \/ (Add(tl) /\ method = "bsp")) =>
               Cardinality({u \in Tiled(tree) : BoxOf(tree, u) # BoxOf(tree', u)}) <= 1
<1>1. ASSUME IInv, ~freed', NEW tl \in Toplevels, Remove(tl), NEW u \in Tiled(tree) \ {tl}
      PROVE  /\ BoxOf(tree, u).width <= BoxOf(tree', u).width
             /\ BoxOf(tree, u).height <= BoxOf(tree', u).height
  <2> DEFINE p == NodeOf(tree, tl)
  <2>1. tl \in Tiled(tree) /\ tree' \in Removed(tree, tl) /\ ~freed /\ ~ReadsFreed(tree, p)
    BY <1>1 DEF Remove
  <2>2. Shape(tree) /\ Whole(tree)
    BY <1>1, <2>1 DEF IInv
  <2>3. p \in DOMAIN tree /\ IsLeaf(tree, p) /\ tree[p].toplevel = tl /\ p \in Pos
    BY <2>1, <2>2, NodeOfIs DEF Shape
  <2>4. Holding(tree, tl) # {}
    BY <2>1, <2>2, TiledIs DEF Shape
  <2>5. p # Root
    <3>1. ASSUME p = Root PROVE FALSE
      <4> DEFINE q == NodeOf(tree, u)
      <4>1. q \in DOMAIN tree /\ IsLeaf(tree, q) /\ tree[q].toplevel = u /\ q \in Pos
        BY <1>1, <2>2, NodeOfIs DEF Shape
      <4> HIDE DEF p, q
      <4>2. Extends(Root, q)
        BY <4>1, ExtendsIs
      <4>3. p = q
        BY <2>2, <2>3, <3>1, <4>1, <4>2, AboveIs
      <4>4. QED
        BY <1>1, <2>3, <4>1, <4>3
    <3>2. QED
      BY <3>1
  <2> HIDE DEF p
  <2>6. Sibling(p) \in DOMAIN tree
    <3>1. Parent(p) \in DOMAIN tree /\ ~IsLeaf(tree, Parent(p))
      BY <2>2, <2>3, <2>5, ParentIs
    <3>2. Parent(p) \o <<1>> \in DOMAIN tree /\ Parent(p) \o <<2>> \in DOMAIN tree
      BY <2>2, <3>1, BothChildren
    <3>3. Sibling(p) \in {Parent(p) \o <<1>>, Parent(p) \o <<2>>}
      BY <2>3, <2>5, SiblingIs
    <3>4. QED
      BY <3>2, <3>3
  <2>7. tree' = Graft(tree, p)
    BY <2>1, <2>4, <2>5, <2>6 DEF Removed, p
  <2>8. Fits(BoxOf(tree, u), BoxOf(Graft(tree, p), u))
    BY <1>1, <2>2, <2>3, <2>5, <2>6, GraftRoom
  <2>9. QED
    BY <2>7, <2>8 DEF Fits
<1>2. ASSUME IInv, NEW tl \in Toplevels, Restore(tl) \/ (Add(tl) /\ method = "bsp")
      PROVE  Cardinality({u \in Tiled(tree) : BoxOf(tree, u) # BoxOf(tree', u)}) <= 1
  <2>1. Shape(tree) /\ tl \notin Tiled(tree)
    BY <1>2 DEF IInv, Restore, Add
  <2>2. tree' = Insert(tree, tl)
    <3>1. InsertAt(tree, tl, tl) = Insert(tree, tl)
      BY <2>1, InsertAtGood
    <3>2. QED
      BY <1>2, <3>1 DEF Restore, Add, Becomes
  <2>3. QED
    BY <2>1, <2>2, InsertRoom
<1>3. IInv => Shared
  BY <1>1, <1>2
<1>4. IInv /\ [Next]_vars => [Shared]_vars
  BY <1>3
<1>5. QED
  BY <1>4, TreeInvariant, PTL DEF Spec, RoomIsShared
=============================================================================
