----------------------------- MODULE ListProofs -----------------------------
(***************************************************************************)
(* What Filter keeps, for any list.                                        *)
(***************************************************************************)
EXTENDS Lists, Integers, SequenceTheorems, WellFoundedInduction, TLAPS

-----------------------------------------------------------------------------
(* Induction *)

LessThan == {ss \in Nat \X Nat : ss[1] < ss[2]}

\* Concatenation is associative, named so that a proof rewrites where it says.
Associates(s, t, u) == (s \o t) \o u = s \o (t \o u)

LEMMA ConcatAssociates ==
  ASSUME NEW S, NEW s \in Seq(S), NEW t \in Seq(S), NEW u \in Seq(S)
  PROVE  Associates(s, t, u)
BY ConcatAssociative DEF Associates

\* A set of natural numbers has a least element.
LEMMA Least ==
  ASSUME NEW S, S \subseteq Nat, S # {}
  PROVE  \E m \in S : \A k \in S : m <= k
<1>1. IsWellFoundedOn(LessThan, Nat)
  BY NatLessThanWellFounded DEF OpToRel, LessThan
<1>2. PICK m \in S : \A k \in S : <<k, m>> \notin LessThan
  BY <1>1, WFMin
<1>3. ASSUME NEW k \in S PROVE m <= k
  <2>1. k \in Nat /\ m \in Nat
    OBVIOUS
  <2>2. ~(k < m)
    <3>1. CASE k < m
      <4>1. <<k, m>> \in LessThan
        BY <2>1, <3>1 DEF LessThan
      <4>2. QED
        BY <4>1, <1>2
    <3>2. QED
      BY <3>1
  <2>3. QED
    BY <2>1, <2>2
<1>4. QED
  BY <1>3

\* Induction up to a number, the property given by the set of those that have it.
LEMMA UpTo ==
  ASSUME NEW n \in Nat, NEW S, 0 \in S,
         \A i \in 0 .. n : i # 0 /\ i - 1 \in S => i \in S
  PROVE  0 .. n \subseteq S
<1>1. SUFFICES ASSUME NEW j \in 0 .. n, j \notin S PROVE FALSE
  OBVIOUS
<1> DEFINE Out == {i \in 0 .. n : i \notin S}
<1>2. PICK m \in Out : \A k \in Out : m <= k
  <2>1. Out \subseteq Nat /\ j \in Out
    BY <1>1
  <2> HIDE DEF Out
  <2>2. QED
    BY <2>1, Least
<1>3. m \in 0 .. n /\ m # 0
  BY <1>2
<1>4. m - 1 \in 0 .. n /\ ~(m <= m - 1)
  BY <1>3
<1>5. m - 1 \in S
  BY <1>2, <1>4
<1>6. QED
  BY <1>2, <1>3, <1>5

-----------------------------------------------------------------------------
(* Filter *)

\* f solves the recursion in Filter for the first n elements.
Keeping(f, s, S, n) ==
  f = [i \in 0 .. n |-> IF i = 0 THEN << >>
                        ELSE IF s[i] \in S THEN Append(f[i - 1], s[i])
                        ELSE f[i - 1]]

\* The recursion in Filter has a solution.
LEMMA FilterRecursion ==
  ASSUME NEW s, NEW S, Len(s) \in Nat
  PROVE  \E kept : Keeping(kept, s, S, Len(s)) /\ Filter(s, S) = kept[Len(s)]
<1> DEFINE n == Len(s)
           Solves(f, m) == Keeping(f, s, S, m)
           Solved == {m \in 0 .. n : \E f : Solves(f, m)}
<1>1. 0 \in Solved
  <2>1. Solves([i \in 0 .. 0 |-> << >>], 0)
    BY DEF Keeping
  <2> HIDE DEF Solves
  <2>2. QED
    BY <2>1
<1>2. ASSUME NEW m \in 0 .. n, m # 0, m - 1 \in Solved PROVE m \in Solved
  <2>1. PICK f : Solves(f, m - 1)
    BY <1>2
  <2> DEFINE next == IF s[m] \in S THEN Append(f[m - 1], s[m]) ELSE f[m - 1]
             g == [i \in 0 .. m |-> IF i = m THEN next ELSE f[i]]
  <2>2. Solves(g, m)
    <3>1. ASSUME NEW i \in 0 .. m
          PROVE  g[i] = IF i = 0 THEN << >>
                        ELSE IF s[i] \in S THEN Append(g[i - 1], s[i])
                        ELSE g[i - 1]
      <4>1. \A j \in 0 .. m - 1 :
              f[j] = IF j = 0 THEN << >>
                     ELSE IF s[j] \in S THEN Append(f[j - 1], s[j])
                     ELSE f[j - 1]
        BY <2>1 DEF Keeping
      <4>2. i # 0 => g[i - 1] = f[i - 1]
        BY <1>2
      <4>3. CASE i = m
        BY <1>2, <4>2, <4>3
      <4>4. CASE i # m
        <5>1. i \in 0 .. m - 1 /\ g[i] = f[i]
          BY <4>4
        <5>2. QED
          BY <4>1, <4>2, <5>1
      <4>5. QED
        BY <4>3, <4>4
    <3>2. QED
      BY <3>1 DEF Keeping
  <2> HIDE DEF Solves, g
  <2>3. QED
    BY <2>2
<1>3. \E f : Solves(f, n)
  <2> HIDE DEF Solves
  <2>1. 0 .. n \subseteq Solved
    BY <1>1, <1>2, UpTo
  <2>2. QED
    BY <2>1
<1>4. Solves(CHOOSE f : Solves(f, n), n)
  <2> HIDE DEF Solves
  <2>1. QED
    BY <1>3
<1>5. Filter(s, S) = (CHOOSE f : Solves(f, n))[n]
  BY DEF Filter, Keeping
<1>6. QED
  BY <1>4, <1>5

\* What is kept of the first i elements, and of those only.
KeptOf(t, s, S, i, T) ==
  /\ t \in Seq(T)
  /\ \A j \in 1 .. i : s[j] \in S => \E k \in 1 .. Len(t) : t[k] = s[j]
  /\ \A k \in 1 .. Len(t) : t[k] \in S /\ \E j \in 1 .. i : t[k] = s[j]
  /\ IsInjective(s) => \A j, k \in 1 .. Len(t) : t[j] = t[k] => j = k
  /\ t # << >> =>
       \E j \in 1 .. i : t[1] = s[j] /\ \A k \in 1 .. j - 1 : s[k] \notin S
  /\ \A j, k \in 1 .. Len(t) :
       j < k => \E a, b \in 1 .. i : a < b /\ t[j] = s[a] /\ t[k] = s[b]

\* One more element, kept or not.
LEMMA KeptNext ==
  ASSUME NEW T, NEW s \in Seq(T), NEW S, NEW i \in 1 .. Len(s), NEW t,
         KeptOf(t, s, S, i - 1, T)
  PROVE  KeptOf(IF s[i] \in S THEN Append(t, s[i]) ELSE t, s, S, i, T)
<1>1. t \in Seq(T)
  BY DEF KeptOf
<1>2. \A j \in 1 .. i - 1 : s[j] \in S => \E k \in 1 .. Len(t) : t[k] = s[j]
  BY DEF KeptOf
<1>3. \A k \in 1 .. Len(t) : t[k] \in S /\ \E j \in 1 .. i - 1 : t[k] = s[j]
  BY DEF KeptOf
<1>4. IsInjective(s) => \A j, k \in 1 .. Len(t) : t[j] = t[k] => j = k
  BY DEF KeptOf
<1>5. t # << >> =>
        \E j \in 1 .. i - 1 : t[1] = s[j] /\ \A k \in 1 .. j - 1 : s[k] \notin S
  BY DEF KeptOf
<1>6. \A j, k \in 1 .. Len(t) :
        j < k => \E x, y \in 1 .. i - 1 : x < y /\ t[j] = s[x] /\ t[k] = s[y]
  BY DEF KeptOf
<1>7. s[i] \in T /\ Len(s) \in Nat /\ i \in Nat /\ DOMAIN s = 1 .. Len(s)
  OBVIOUS
<1>8. 1 .. i = (1 .. i - 1) \cup {i}
  BY <1>7
<1>9. CASE s[i] \notin S
  <2>1. \A j \in 1 .. i : s[j] \in S => \E k \in 1 .. Len(t) : t[k] = s[j]
    BY <1>8, <1>9, <1>2
  <2>2. \A k \in 1 .. Len(t) : t[k] \in S /\ \E j \in 1 .. i : t[k] = s[j]
    BY <1>8, <1>3
  <2>3. t # << >> =>
          \E j \in 1 .. i : t[1] = s[j] /\ \A k \in 1 .. j - 1 : s[k] \notin S
    BY <1>8, <1>5
  <2>4. \A j, k \in 1 .. Len(t) :
          j < k => \E x, y \in 1 .. i : x < y /\ t[j] = s[x] /\ t[k] = s[y]
    BY <1>8, <1>6
  <2>5. KeptOf(t, s, S, i, T)
    BY <1>1, <1>4, <2>1, <2>2, <2>3, <2>4 DEF KeptOf
  <2>6. QED
    BY <1>9, <2>5
<1>10. CASE s[i] \in S
  <2> DEFINE a == Append(t, s[i])
  <2>1. /\ a \in Seq(T) /\ Len(a) = Len(t) + 1 /\ Len(t) \in Nat
        /\ \A k \in 1 .. Len(t) : a[k] = t[k]
        /\ a[Len(t) + 1] = s[i]
    BY <1>7, <1>1, AppendProperties
  <2> HIDE DEF a
  <2>2. 1 .. Len(a) = (1 .. Len(t)) \cup {Len(t) + 1}
    BY <2>1
  <2>3. ASSUME NEW j \in 1 .. i, s[j] \in S
        PROVE  \E k \in 1 .. Len(a) : a[k] = s[j]
    <3>1. CASE j = i
      BY <2>1, <2>2, <3>1
    <3>2. CASE j \in 1 .. i - 1
      <4>1. PICK k \in 1 .. Len(t) : t[k] = s[j]
        BY <2>3, <3>2, <1>2
      <4>2. QED
        BY <4>1, <2>1, <2>2
    <3>3. QED
      BY <1>8, <3>1, <3>2
  <2>4. ASSUME NEW k \in 1 .. Len(a)
        PROVE  a[k] \in S /\ \E j \in 1 .. i : a[k] = s[j]
    <3>1. CASE k = Len(t) + 1
      BY <1>7, <1>10, <2>1, <3>1
    <3>2. CASE k \in 1 .. Len(t)
      <4>1. t[k] \in S /\ a[k] = t[k]
        BY <1>3, <2>1, <3>2
      <4>2. PICK j \in 1 .. i - 1 : t[k] = s[j]
        BY <1>3, <3>2
      <4>3. j \in 1 .. i
        BY <1>8
      <4>4. QED
        BY <4>1, <4>2, <4>3
    <3>3. QED
      BY <2>2, <3>1, <3>2
  <2>5. ASSUME IsInjective(s), NEW j \in 1 .. Len(a), NEW k \in 1 .. Len(a), a[j] = a[k]
        PROVE  j = k
    <3>1. ASSUME NEW m \in 1 .. Len(t) PROVE a[m] # s[i]
      <4>1. PICK n \in 1 .. i - 1 : t[m] = s[n]
        BY <1>3
      <4>2. n \in DOMAIN s /\ i \in DOMAIN s /\ n # i
        BY <1>7
      <4>3. QED
        BY <4>1, <4>2, <2>1, <2>5 DEF IsInjective
    <3>2. CASE j \in 1 .. Len(t) /\ k \in 1 .. Len(t)
      BY <1>4, <2>1, <2>5, <3>2
    <3>3. CASE j \in 1 .. Len(t) /\ k = Len(t) + 1
      BY <2>1, <2>5, <3>1, <3>3
    <3>4. CASE j = Len(t) + 1 /\ k \in 1 .. Len(t)
      BY <2>1, <2>5, <3>1, <3>4
    <3>5. QED
      BY <2>2, <2>5, <3>2, <3>3, <3>4
  <2>6. \E j \in 1 .. i : a[1] = s[j] /\ \A k \in 1 .. j - 1 : s[k] \notin S
    <3>1. CASE t = << >>
      <4>1. Len(t) = 0
        BY <3>1
      <4>2. a[1] = s[i]
        BY <2>1, <4>1
      <4>3. \A k \in 1 .. i - 1 : s[k] \notin S
        BY <4>1, <1>2
      <4>4. QED
        BY <1>7, <4>2, <4>3
    <3>2. CASE t # << >>
      <4>1. 1 \in 1 .. Len(t)
        BY <1>1, <3>2
      <4>2. PICK j \in 1 .. i - 1 : t[1] = s[j] /\ \A k \in 1 .. j - 1 : s[k] \notin S
        BY <1>5, <3>2
      <4>3. QED
        BY <1>8, <2>1, <4>1, <4>2
    <3>3. QED
      BY <3>1, <3>2
  <2>7. ASSUME NEW j \in 1 .. Len(a), NEW k \in 1 .. Len(a), j < k
        PROVE  \E x, y \in 1 .. i : x < y /\ a[j] = s[x] /\ a[k] = s[y]
    <3>1. j \in 1 .. Len(t)
      BY <2>1, <2>2, <2>7
    <3>2. CASE k = Len(t) + 1
      <4>1. PICK x \in 1 .. i - 1 : t[j] = s[x]
        BY <1>3, <3>1
      <4>2. x < i /\ x \in 1 .. i /\ i \in 1 .. i
        BY <1>7
      <4>3. QED
        BY <2>1, <3>1, <3>2, <4>1, <4>2
    <3>3. CASE k \in 1 .. Len(t)
      <4>1. PICK x, y \in 1 .. i - 1 : x < y /\ t[j] = s[x] /\ t[k] = s[y]
        BY <1>6, <2>7, <3>1, <3>3
      <4>2. x \in 1 .. i /\ y \in 1 .. i
        BY <1>7
      <4>3. QED
        BY <2>1, <3>1, <3>3, <4>1, <4>2
    <3>4. QED
      BY <2>2, <3>2, <3>3
  <2>8. KeptOf(a, s, S, i, T)
    BY <2>1, <2>3, <2>4, <2>5, <2>6, <2>7 DEF KeptOf
  <2>9. QED
    BY <1>10, <2>8 DEF a
<1>11. QED
  BY <1>9, <1>10

\* Filter keeps what it should of the whole list.
LEMMA FilterKept ==
  ASSUME NEW T, NEW s \in Seq(T), NEW S
  PROVE  KeptOf(Filter(s, S), s, S, Len(s), T)
<1> Len(s) \in Nat
  OBVIOUS
<1>1. PICK kept : Keeping(kept, s, S, Len(s)) /\ Filter(s, S) = kept[Len(s)]
  BY FilterRecursion
<1> DEFINE Good == {i \in 0 .. Len(s) : KeptOf(kept[i], s, S, i, T)}
<1>2. 0 \in Good
  <2>1. kept[0] = << >>
    BY <1>1 DEF Keeping
  <2>2. KeptOf(<< >>, s, S, 0, T)
    BY DEF KeptOf
  <2>3. QED
    BY <2>1, <2>2
<1>3. ASSUME NEW i \in 0 .. Len(s), i # 0, i - 1 \in Good PROVE i \in Good
  <2>1. i \in 1 .. Len(s) /\ KeptOf(kept[i - 1], s, S, i - 1, T)
    BY <1>3
  <2>2. kept[i] = IF s[i] \in S THEN Append(kept[i - 1], s[i]) ELSE kept[i - 1]
    BY <1>1, <1>3 DEF Keeping
  <2>3. QED
    BY <2>1, <2>2, KeptNext
<1>4. 0 .. Len(s) \subseteq Good
  <2> HIDE DEF Good
  <2>1. Len(s) \in Nat
    OBVIOUS
  <2>2. QED
    BY <1>2, <1>3, <2>1, UpTo
<1>5. QED
  BY <1>1, <1>4

\* The result is a list of the elements of s that are in S, each as often at most.
LEMMA FilterElements ==
  ASSUME NEW T, NEW s \in Seq(T), NEW S
  PROVE  /\ Filter(s, S) \in Seq(T)
         /\ Range(Filter(s, S)) = Range(s) \cap S
         /\ IsInjective(s) => IsInjective(Filter(s, S))
<1> DEFINE t == Filter(s, S)
<1>1. KeptOf(t, s, S, Len(s), T)
  BY FilterKept
<1> HIDE DEF t
<1>2. /\ t \in Seq(T) /\ DOMAIN t = 1 .. Len(t) /\ DOMAIN s = 1 .. Len(s)
  BY <1>1 DEF KeptOf
<1>3. Range(t) = Range(s) \cap S
  <2>1. ASSUME NEW e \in Range(t) PROVE e \in Range(s) \cap S
    <3>1. PICK k \in 1 .. Len(t) : e = t[k]
      BY <1>2 DEF Range
    <3>2. PICK j \in 1 .. Len(s) : t[k] = s[j]
      BY <1>1, <3>1 DEF KeptOf
    <3>3. e \in S
      BY <1>1, <3>1 DEF KeptOf
    <3>4. QED
      BY <1>2, <3>1, <3>2, <3>3 DEF Range
  <2>2. ASSUME NEW e \in Range(s) \cap S PROVE e \in Range(t)
    <3>1. PICK j \in 1 .. Len(s) : e = s[j]
      BY <1>2 DEF Range
    <3>2. PICK k \in 1 .. Len(t) : t[k] = e
      BY <1>1, <2>2, <3>1 DEF KeptOf
    <3>3. QED
      BY <1>2, <3>2 DEF Range
  <2>3. QED
    BY <2>1, <2>2
<1>4. IsInjective(s) => IsInjective(t)
  BY <1>1, <1>2 DEF KeptOf, IsInjective
<1>5. QED
  BY <1>2, <1>3, <1>4 DEF t

\* e is the first element of s that is in S.
IsFirst(e, s, S) ==
  \E j \in DOMAIN s : /\ s[j] = e /\ e \in S
                      /\ \A k \in 1 .. j - 1 : s[k] \notin S

\* There is one first element at most.
LEMMA FirstUnique ==
  ASSUME NEW T, NEW s \in Seq(T), NEW S, NEW d, NEW e, IsFirst(d, s, S), IsFirst(e, s, S)
  PROVE  d = e
BY DEF IsFirst

\* The result begins with the first element of s that is in S.
LEMMA FilterFirst ==
  ASSUME NEW T, NEW s \in Seq(T), NEW S, Filter(s, S) # << >>
  PROVE  IsFirst(Head(Filter(s, S)), s, S)
<1> DEFINE t == Filter(s, S)
<1>1. KeptOf(t, s, S, Len(s), T)
  BY FilterKept
<1> HIDE DEF t
<1>2. t # << >> /\ t \in Seq(T)
  BY <1>1 DEF t, KeptOf
<1>3. Head(t) = t[1] /\ 1 \in 1 .. Len(t) /\ DOMAIN s = 1 .. Len(s)
  BY <1>2
<1>4. IsFirst(Head(t), s, S)
  <2>1. PICK j \in 1 .. Len(s) : t[1] = s[j] /\ \A k \in 1 .. j - 1 : s[k] \notin S
    BY <1>1, <1>2 DEF KeptOf
  <2>2. t[1] \in S
    BY <1>1, <1>3 DEF KeptOf
  <2>3. QED
    BY <1>3, <2>1, <2>2 DEF IsFirst
<1>5. QED
  BY <1>4 DEF t

\* What comes first in U does so among the elements that are kept.
LEMMA FilterKeepsFirst ==
  ASSUME NEW T, NEW s \in Seq(T), NEW S, NEW U, NEW e \in S,
         IsInjective(s), IsFirst(e, s, U)
  PROVE  IsFirst(e, Filter(s, S), U)
<1> DEFINE t == Filter(s, S)
<1>1. KeptOf(t, s, S, Len(s), T)
  BY FilterKept
<1> HIDE DEF t
<1>2. t \in Seq(T) /\ DOMAIN t = 1 .. Len(t) /\ DOMAIN s = 1 .. Len(s)
  BY <1>1 DEF KeptOf
<1>3. PICK n \in 1 .. Len(s) : s[n] = e /\ e \in U /\ \A k \in 1 .. n - 1 : s[k] \notin U
  BY <1>2 DEF IsFirst
<1>4. PICK m \in 1 .. Len(t) : t[m] = e
  BY <1>1, <1>3 DEF KeptOf
<1>5. ASSUME NEW k \in 1 .. m - 1 PROVE t[k] \notin U
  <2>1. k \in 1 .. Len(t) /\ k < m
    BY <1>2, <1>4
  <2>2. PICK a, b \in 1 .. Len(s) : a < b /\ t[k] = s[a] /\ t[m] = s[b]
    BY <1>1, <2>1 DEF KeptOf
  <2>3. b = n
    BY <1>2, <1>3, <1>4, <2>2 DEF IsInjective
  <2>4. a \in 1 .. n - 1
    BY <2>2, <2>3
  <2>5. QED
    BY <1>3, <2>2, <2>4
<1>6. IsFirst(e, t, U)
  BY <1>2, <1>3, <1>4, <1>5 DEF IsFirst
<1>7. QED
  BY <1>6 DEF t

\* Of a list with nothing of S nothing is kept, and of one with something of S,
\* something.
LEMMA FilterEmpty ==
  ASSUME NEW T, NEW s \in Seq(T), NEW S
  PROVE  Filter(s, S) = << >> <=> Range(s) \cap S = {}
<1> DEFINE t == Filter(s, S)
<1>1. t \in Seq(T) /\ Range(t) = Range(s) \cap S
  BY FilterElements
<1> HIDE DEF t
<1>2. t = << >> <=> Range(t) = {}
  <2>1. DOMAIN t = 1 .. Len(t)
    BY <1>1
  <2>2. CASE t = << >>
    BY <2>1, <2>2 DEF Range
  <2>3. CASE t # << >>
    <3>1. 1 \in DOMAIN t
      BY <1>1, <2>1, <2>3
    <3>2. QED
      BY <2>3, <3>1 DEF Range
  <2>4. QED
    BY <2>2, <2>3
<1>3. QED
  BY <1>1, <1>2 DEF t

\* e is the first of the list that Filter returns exactly when it is the first of
\* s that is in S.
LEMMA HeadOfFilter ==
  ASSUME NEW T, NEW s \in Seq(T), NEW S, NEW e, IsFirst(e, s, S)
  PROVE  Filter(s, S) # << >> /\ Head(Filter(s, S)) = e
<1>1. e \in Range(s) \cap S
  BY DEF IsFirst, Range
<1>2. Filter(s, S) # << >>
  BY <1>1, FilterEmpty
<1>3. QED
  BY <1>2, FilterFirst, FirstUnique

\* s without e.
LEMMA WithoutElements ==
  ASSUME NEW T, NEW s \in Seq(T), NEW e
  PROVE  /\ Without(s, e) \in Seq(T)
         /\ Range(Without(s, e)) = Range(s) \ {e}
         /\ IsInjective(s) => IsInjective(Without(s, e))
<1>1. QED
  BY FilterElements DEF Without

\* What comes first in U, and is not e, still does so without e.
LEMMA WithoutKeepsFirst ==
  ASSUME NEW T, NEW s \in Seq(T), NEW U, NEW d, NEW e, d # e,
         IsInjective(s), IsFirst(d, s, U)
  PROVE  IsFirst(d, Without(s, e), U)
<1>1. d \in Range(s) \ {e}
  BY DEF IsFirst, Range
<1>2. QED
  BY <1>1, FilterKeepsFirst DEF Without

-----------------------------------------------------------------------------
(* Concatenation *)

\* Two lists without a common element, each injective.
LEMMA ConcatElements ==
  ASSUME NEW T, NEW s \in Seq(T), NEW t \in Seq(T)
  PROVE  /\ s \o t \in Seq(T)
         /\ Range(s \o t) = Range(s) \cup Range(t)
         /\ IsInjective(s) /\ IsInjective(t) /\ Range(s) \cap Range(t) = {}
              => IsInjective(s \o t)
<1> DEFINE c == s \o t
<1>1. /\ c \in Seq(T) /\ Len(c) = Len(s) + Len(t)
      /\ \A i \in 1 .. Len(s) + Len(t) :
           c[i] = IF i <= Len(s) THEN s[i] ELSE t[i - Len(s)]
  BY ConcatProperties
<1>2. Range(c) = Range(s) \cup Range(t)
  BY RangeConcatenation
<1> HIDE DEF c
<1>3. /\ Len(s) \in Nat /\ Len(t) \in Nat /\ DOMAIN c = 1 .. Len(c)
      /\ DOMAIN s = 1 .. Len(s) /\ DOMAIN t = 1 .. Len(t)
  BY <1>1
<1>4. ASSUME IsInjective(s), IsInjective(t), Range(s) \cap Range(t) = {},
             NEW i \in DOMAIN c, NEW j \in DOMAIN c, c[i] = c[j]
      PROVE  i = j
  <2>1. CASE i <= Len(s) /\ j <= Len(s)
    BY <1>1, <1>3, <1>4, <2>1 DEF IsInjective
  <2>2. CASE ~(i <= Len(s)) /\ ~(j <= Len(s))
    <3>1. i - Len(s) \in DOMAIN t /\ j - Len(s) \in DOMAIN t
      BY <1>1, <1>3, <2>2
    <3>2. t[i - Len(s)] = t[j - Len(s)]
      BY <1>1, <1>3, <1>4, <2>2
    <3>3. QED
      BY <1>1, <1>3, <1>4, <3>1, <3>2 DEF IsInjective
  <2>3. ASSUME NEW x \in DOMAIN c, NEW y \in DOMAIN c, x <= Len(s), ~(y <= Len(s))
        PROVE  c[x] # c[y]
    <3>1. c[x] \in Range(s)
      BY <1>1, <1>3, <2>3 DEF Range
    <3>2. y - Len(s) \in DOMAIN t /\ c[y] = t[y - Len(s)]
      BY <1>1, <1>3, <2>3
    <3>3. QED
      BY <1>4, <3>1, <3>2 DEF Range
  <2>4. QED
    BY <1>4, <2>1, <2>2, <2>3
<1>5. QED
  BY <1>1, <1>2, <1>4 DEF c, IsInjective

\* The list of one element.
LEMMA OneElement ==
  ASSUME NEW T, NEW e \in T
  PROVE  <<e>> \in Seq(T) /\ Range(<<e>>) = {e} /\ IsInjective(<<e>>)
BY DEF Range, IsInjective

\* A list with a new head.
LEMMA ConsElements ==
  ASSUME NEW T, NEW e \in T, NEW s \in Seq(T)
  PROVE  /\ <<e>> \o s \in Seq(T)
         /\ Range(<<e>> \o s) = {e} \cup Range(s)
         /\ IsInjective(s) /\ e \notin Range(s) => IsInjective(<<e>> \o s)
<1>1. <<e>> \in Seq(T) /\ Range(<<e>>) = {e} /\ IsInjective(<<e>>)
  BY OneElement
<1>2. e \notin Range(s) => Range(<<e>>) \cap Range(s) = {}
  BY <1>1
<1> DEFINE h == <<e>>
<1> HIDE DEF h
<1>3. h \in Seq(T) /\ Range(h) = {e} /\ IsInjective(h)
  BY <1>1 DEF h
<1>4. /\ h \o s \in Seq(T)
      /\ Range(h \o s) = {e} \cup Range(s)
      /\ IsInjective(s) /\ e \notin Range(s) => IsInjective(h \o s)
  BY <1>3, ConcatElements
<1>5. QED
  BY <1>4 DEF h

\* What comes first in U comes first after a list with nothing of U.
LEMMA ConcatFirst ==
  ASSUME NEW T, NEW s \in Seq(T), NEW t \in Seq(T), NEW U, NEW e,
         Range(s) \cap U = {}, IsFirst(e, t, U)
  PROVE  IsFirst(e, s \o t, U)
<1> DEFINE c == s \o t
<1>1. /\ c \in Seq(T) /\ Len(c) = Len(s) + Len(t)
      /\ \A i \in 1 .. Len(s) + Len(t) :
           c[i] = IF i <= Len(s) THEN s[i] ELSE t[i - Len(s)]
  BY ConcatProperties
<1> HIDE DEF c
<1>2. /\ Len(s) \in Nat /\ Len(t) \in Nat /\ DOMAIN c = 1 .. Len(c)
      /\ DOMAIN s = 1 .. Len(s) /\ DOMAIN t = 1 .. Len(t)
  BY <1>1
<1>3. PICK j \in DOMAIN t : t[j] = e /\ e \in U /\ \A k \in 1 .. j - 1 : t[k] \notin U
  BY DEF IsFirst
<1> DEFINE n == Len(s) + j
<1>4. n \in DOMAIN c /\ c[n] = e
  BY <1>1, <1>2, <1>3
<1>5. ASSUME NEW k \in 1 .. n - 1 PROVE c[k] \notin U
  <2>1. CASE k <= Len(s)
    <3>1. k \in DOMAIN s /\ c[k] = s[k]
      BY <1>1, <1>2, <1>3, <2>1
    <3>2. QED
      BY <3>1 DEF Range
  <2>2. CASE ~(k <= Len(s))
    <3>1. k - Len(s) \in 1 .. j - 1 /\ c[k] = t[k - Len(s)]
      BY <1>1, <1>2, <1>3, <2>2
    <3>2. QED
      BY <1>3, <3>1
  <2>3. QED
    BY <2>1, <2>2
<1> HIDE DEF n
<1>6. IsFirst(e, c, U)
  BY <1>3, <1>4, <1>5 DEF IsFirst
<1>7. QED
  BY <1>6 DEF c

\* The head of a list comes first.
LEMMA HeadFirst ==
  ASSUME NEW T, NEW s \in Seq(T), NEW U, NEW e \in T, e \in U
  PROVE  IsFirst(e, <<e>> \o s, U)
<1> DEFINE c == <<e>> \o s
<1>1. c[1] = e /\ 1 \in DOMAIN c
  OBVIOUS
<1> HIDE DEF c
<1>2. IsFirst(e, c, U)
  BY <1>1 DEF IsFirst
<1>3. QED
  BY <1>2 DEF c

\* What was put together is taken apart.
LEMMA ConcatParts ==
  ASSUME NEW T, NEW s \in Seq(T), NEW t \in Seq(T)
  PROVE  /\ Len(s) \in 0 .. Len(s \o t)
         /\ SubSeq(s \o t, 1, Len(s)) = s
         /\ SubSeq(s \o t, Len(s) + 1, Len(s \o t)) = t
<1> DEFINE c == s \o t
           n == Len(s)
           m == Len(t)
<1>1. /\ c \in Seq(T) /\ Len(c) = n + m /\ n \in Nat /\ m \in Nat
      /\ \A i \in 1 .. n + m : c[i] = IF i <= n THEN s[i] ELSE t[i - n]
  BY ConcatProperties
<1>2. /\ \A i \in 1 .. n : s[i] \in T
      /\ \A i \in 1 .. m : t[i] \in T
  OBVIOUS
<1> DEFINE a == SubSeq(c, 1, n)
           b == SubSeq(c, n + 1, n + m)
<1> HIDE DEF c, n, m
<1>3. a \in Seq(T) /\ Len(a) = n /\ \A i \in 1 .. n : a[i] = c[i]
  <2>1. \A i \in 1 .. n : c[i] \in T
    BY <1>1, <1>2
  <2>2. /\ a \in Seq(T) /\ Len(a) = IF 1 <= n THEN n - 1 + 1 ELSE 0
        /\ \A i \in 1 .. n - 1 + 1 : a[i] = c[1 + i - 1]
    BY <1>1, <2>1, SubSeqProperties
  <2>3. n - 1 + 1 = n
    BY <1>1
  <2>4. \A i \in 1 .. n : 1 + i - 1 = i
    BY <1>1
  <2>5. Len(a) = n
    BY <1>1, <2>2
  <2> HIDE DEF a
  <2>6. QED
    BY <2>2, <2>3, <2>4, <2>5
<1>4. b \in Seq(T) /\ Len(b) = m /\ \A i \in 1 .. m : b[i] = c[n + i]
  <2>1. \A i \in n + 1 .. n + m : c[i] \in T
    BY <1>1, <1>2
  <2> DEFINE lo == n + 1
             hi == n + m
  <2>2. lo \in Int /\ hi \in Int /\ \A i \in lo .. hi : c[i] \in T
    BY <1>1, <2>1
  <2>3. hi - lo + 1 = m /\ (lo <= hi \/ m = 0)
    BY <1>1
  <2>4. \A i \in 1 .. m : lo + i - 1 = n + i
    BY <1>1
  <2>5. b = SubSeq(c, lo, hi)
    OBVIOUS
  <2> HIDE DEF lo, hi, b
  <2>6. /\ b \in Seq(T) /\ Len(b) = IF lo <= hi THEN hi - lo + 1 ELSE 0
        /\ \A i \in 1 .. hi - lo + 1 : b[i] = c[lo + i - 1]
    BY <2>5, <2>2, SubSeqProperties
  <2>7. Len(b) = m
    BY <2>6, <2>3
  <2>8. QED
    BY <2>6, <2>3, <2>4, <2>7
<1> HIDE DEF a, b
<1>5. a = s
  <2>1. \A i \in 1 .. n : a[i] = s[i]
    BY <1>1, <1>3
  <2>2. QED
    BY <1>3, <2>1, SeqEqual DEF n
<1>6. b = t
  <2>1. \A i \in 1 .. m : b[i] = t[i]
    BY <1>1, <1>4
  <2>2. QED
    BY <1>4, <2>1, SeqEqual DEF m
<1>7. n \in 0 .. Len(c)
  BY <1>1
<1>8. QED
  BY <1>1, <1>5, <1>6, <1>7 DEF a, b, c, n

\* An element between two lists.
LEMMA BetweenParts ==
  ASSUME NEW T, NEW s \in Seq(T), NEW t \in Seq(T), NEW e \in T,
         NEW c, c = (s \o <<e>>) \o t, NEW i, i = Len(s) + 1
  PROVE  /\ i \in 1 .. Len(c)
         /\ c[i] = e
         /\ SubSeq(c, 1, i - 1) = s
         /\ SubSeq(c, i + 1, Len(c)) = t
<1> DEFINE h == <<e>>
<1>1. h \in Seq(T) /\ Len(h) = 1 /\ h[1] = e /\ c = (s \o h) \o t
  OBVIOUS
<1> HIDE DEF h
<1>2. /\ s \o h \in Seq(T) /\ Len(s \o h) = i /\ h \o t \in Seq(T)
      /\ (s \o h)[i] = e /\ Len(s) \in Nat
  <2>1. Len(s) \in Nat /\ i \in 1 .. Len(s) + 1 /\ ~(i <= Len(s)) /\ i - Len(s) = 1
    OBVIOUS
  <2>2. /\ s \o h \in Seq(T) /\ Len(s \o h) = Len(s) + Len(h)
        /\ \A k \in 1 .. Len(s) + Len(h) :
             (s \o h)[k] = IF k <= Len(s) THEN s[k] ELSE h[k - Len(s)]
    BY <1>1, ConcatProperties
  <2>3. h \o t \in Seq(T)
    BY <1>1, ConcatProperties
  <2>4. Len(s \o h) = i
    BY <1>1, <2>2
  <2>5. (s \o h)[i] = e
    BY <1>1, <2>1, <2>2
  <2>6. QED
    BY <2>1, <2>2, <2>3, <2>4, <2>5
<1>3. c = s \o (h \o t)
  <2>1. h \in Seq(T)
    BY <1>1
  <2>2. (s \o h) \o t = s \o (h \o t)
    <3>1. Associates(s, h, t)
      BY <2>1, ConcatAssociates
    <3>2. QED
      BY <3>1 DEF Associates
  <2>3. QED
    BY <1>1, <2>2
<1>4. /\ i \in 0 .. Len(c)
      /\ SubSeq(c, i + 1, Len(c)) = t
  BY <1>1, <1>2, ConcatParts
<1>5. SubSeq(c, 1, Len(s)) = s
  BY <1>2, <1>3, ConcatParts
<1>6. c[i] = e
  <2>1. i \in 1 .. Len(s \o h) + Len(t) /\ i <= Len(s \o h)
    BY <1>2
  <2>2. QED
    BY <1>1, <1>2, <2>1, ConcatProperties
<1>7. i - 1 = Len(s) /\ i \in 1 .. Len(c)
  BY <1>2, <1>4
<1>8. QED
  BY <1>4, <1>5, <1>6, <1>7
=============================================================================
