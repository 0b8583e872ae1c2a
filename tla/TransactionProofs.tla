------------------------- MODULE TransactionProofs -------------------------
(***************************************************************************)
(* Proofs about Transaction.  Every operator of that module that takes a   *)
(* world to a world is shown to preserve one invariant, and the handlers   *)
(* follow by composition.  The second half is what a handler does: a       *)
(* layout is applied as a whole, the last answer ends it.                  *)
(***************************************************************************)
EXTENDS Transaction, TLAPS

Typed(w) ==
  /\ w \in World
  /\ \A t \in TxnId : ~w.txns[t].live => w.txns[t] = FreeTxn

\* EveryTransactionPending, leaving out the transaction being built.
PendingBut(w, T) ==
  /\ \A t \in TxnId \ T : w.txns[t].live =>
       /\ w.txns[t].committed
       /\ w.txns[t].armed
       /\ ~Empty(w.txns[t])
  /\ w.active # None => w.txns[w.active].live

\* InTransactionCovered, leaving out a toplevel that is being removed.
CoveredBut(w, S) ==
  \A tl \in Toplevels \ S : w.tops[tl].in_transaction =>
    \E t \in TxnId : w.txns[t].live /\ w.txns[t].entries[tl] # None

\* The inductive invariant, of a world in the middle of a handler.
Sound(w, S) == Typed(w) /\ PendingBut(w, {}) /\ CoveredBut(w, S)

Inv == Sound(W, {})

-----------------------------------------------------------------------------

LEMMA FreeTxnType == FreeTxn \in Txn /\ ~FreeTxn.live /\ Empty(FreeTxn)
  BY DEF FreeTxn, Txn, Empty, Members

LEMMA MembersType == ASSUME NEW x PROVE Members(x) \subseteq Toplevels
  BY DEF Members

\* apply() and delete, field by field.
LEMMA ApplyFields ==
  ASSUME NEW w \in World, NEW t \in TxnId
  PROVE  /\ Apply(w, t) \in World
         /\ Apply(w, t).active = w.active
         /\ \A u \in TxnId :
              /\ Apply(w, t).txns[u].live = w.txns[u].live
              /\ Apply(w, t).txns[u].entries = w.txns[u].entries
              /\ u # t => Apply(w, t).txns[u] = w.txns[u]
         /\ \A tl \in Toplevels : Apply(w, t).tops[tl].in_transaction =>
              w.tops[tl].in_transaction /\ w.txns[t].entries[tl] = None
<1> DEFINE x == w.txns[t]
           y == [x EXCEPT !.armed = FALSE, !.waiting = {}]
           top(tl) == IF tl \in Movable(w, x) THEN Moved(w.tops[tl], x.entries[tl])
                      ELSE IF tl \in Members(x)
                           THEN [w.tops[tl] EXCEPT !.in_transaction = FALSE]
                           ELSE w.tops[tl]
<1>1. x \in Txn
  BY DEF World
<1>2. y \in Txn /\ y.live = x.live /\ y.entries = x.entries
  BY <1>1 DEF Txn
<1>3. ASSUME NEW tl \in Toplevels
      PROVE  top(tl) \in Toplevel
  <2>1. w.tops[tl] \in Toplevel
    BY DEF World
  <2>2. tl \in Movable(w, x) => x.entries[tl] \in Geoms
    BY <1>1 DEF Movable, Members, Txn
  <2>3. QED
    BY <2>1, <2>2 DEF Toplevel, Moved
<1>4. ASSUME NEW tl \in Toplevels, top(tl).in_transaction
      PROVE  w.tops[tl].in_transaction /\ x.entries[tl] = None
  <2>1. w.tops[tl] \in Toplevel
    BY DEF World
  <2>2. QED
    BY <1>4, <2>1 DEF Toplevel, Moved, Movable, Members
<1>5. /\ Apply(w, t).active = w.active
      /\ Apply(w, t).tops = [tl \in Toplevels |-> top(tl)]
      /\ Apply(w, t).txns = [w.txns EXCEPT ![t] = y]
      /\ Apply(w, t) \in [txns : {Apply(w, t).txns}, active : {w.active},
                          tops : {Apply(w, t).tops}]
  BY DEF Apply, World
<1> HIDE DEF top, y
<1>6. QED
  BY <1>2, <1>3, <1>4, <1>5 DEF World

LEMMA DeleteFields ==
  ASSUME NEW w \in World, NEW t \in TxnId
  PROVE  /\ Delete(w, t) \in World
         /\ Delete(w, t).active = w.active
         /\ Delete(w, t).tops = w.tops
         /\ Delete(w, t).txns[t] = FreeTxn
         /\ \A u \in TxnId \ {t} :
              /\ Delete(w, t).txns[u] = Unordered(w.txns[u], t)
              /\ Delete(w, t).txns[u].live = w.txns[u].live
              /\ Delete(w, t).txns[u].entries = w.txns[u].entries
<1> DEFINE y(u) == Unordered(w.txns[u], t)
<1>1. ASSUME NEW u \in TxnId
      PROVE  y(u) \in Txn /\ y(u).live = w.txns[u].live
                          /\ y(u).entries = w.txns[u].entries
  <2>1. w.txns[u] \in Txn
    BY DEF World
  <2>2. QED
    BY <2>1 DEF Txn, Unordered
<1>2. /\ Delete(w, t).active = w.active
      /\ Delete(w, t).tops = w.tops
      /\ Delete(w, t).txns = [u \in TxnId |-> IF u = t THEN FreeTxn ELSE y(u)]
      /\ Delete(w, t) \in [txns : {Delete(w, t).txns}, active : {w.active},
                           tops : {w.tops}]
  BY DEF Delete, World
<1> HIDE DEF y
<1>3. Delete(w, t).txns \in [TxnId -> Txn]
  BY <1>1, <1>2, FreeTxnType
<1>4. Delete(w, t) \in World
  BY <1>2, <1>3 DEF World
<1> USE DEF y
<1>5. QED
  BY <1>1, <1>2, <1>4

\* A timer leaving the order changes nothing else.
LEMMA UnorderedFields ==
  ASSUME NEW x \in Txn, NEW t
  PROVE  /\ Unordered(x, t).live = x.live
         /\ Unordered(x, t).committed = x.committed
         /\ Unordered(x, t).armed = x.armed
         /\ Unordered(x, t).entries = x.entries
         /\ Unordered(x, t).holes = x.holes
         /\ x = FreeTxn => Unordered(x, t) = FreeTxn
<1>1. x = FreeTxn => Unordered(x, t) = FreeTxn
  <2>1. FreeTxn.before = {} /\ {} \ {t} = {}
    BY DEF FreeTxn
  <2>2. FreeTxn = [FreeTxn EXCEPT !.before = {}]
    <3>1. FreeTxn = [FreeTxn EXCEPT !.before = FreeTxn.before]
      BY FreeTxnType DEF Txn
    <3>2. QED
      BY <2>1, <3>1
  <2>3. Unordered(FreeTxn, t) = [FreeTxn EXCEPT !.before = {} \ {t}]
    BY <2>1, Zenon DEF Unordered
  <2>4. QED
    BY <2>1, <2>2, <2>3
<1>2. QED
  BY <1>1 DEF Unordered, Txn

\* The end of a transaction, field by field.
LEMMA FinishFields ==
  ASSUME NEW w \in World, NEW t \in TxnId
  PROVE  /\ Finish(w, t) \in World
         /\ Finish(w, t).active = IF w.active = t THEN None ELSE w.active
         /\ Finish(w, t).txns[t] = FreeTxn
         /\ \A u \in TxnId \ {t} :
              Finish(w, t).txns[u] = Unordered(w.txns[u], t)
         /\ \A tl \in Toplevels : Finish(w, t).tops[tl].in_transaction =>
              w.tops[tl].in_transaction /\ w.txns[t].entries[tl] = None
<1> DEFINE w1 == [w EXCEPT !.active = IF @ = t THEN None ELSE @]
<1>1. /\ w1 \in World
      /\ w1.active = IF w.active = t THEN None ELSE w.active
      /\ w1.txns = w.txns /\ w1.tops = w.tops
  BY DEF World
<1>2. Finish(w, t) = Delete(Apply(w1, t), t)
  BY DEF Finish
<1> DEFINE a == Apply(w1, t)
<1> HIDE DEF w1
<1>3. /\ a \in World
      /\ a.active = w1.active
      /\ \A u \in TxnId \ {t} : a.txns[u] = w.txns[u]
      /\ \A tl \in Toplevels : a.tops[tl].in_transaction =>
           w.tops[tl].in_transaction /\ w.txns[t].entries[tl] = None
  BY <1>1, ApplyFields
<1> HIDE DEF a
<1>4. /\ Delete(a, t) \in World
      /\ Delete(a, t).active = a.active
      /\ Delete(a, t).tops = a.tops
      /\ Delete(a, t).txns[t] = FreeTxn
      /\ \A u \in TxnId \ {t} :
           Delete(a, t).txns[u] = Unordered(a.txns[u], t)
  BY <1>3, DeleteFields
<1>5. Finish(w, t) = Delete(a, t)
  BY <1>2 DEF a
<1>6. QED
  BY <1>1, <1>3, <1>4, <1>5

\* The end of a transaction preserves the invariant: what its members lose is
\* the mark, and no other transaction loses anything.
LEMMA FinishSound ==
  ASSUME NEW w, NEW S, Sound(w, S), NEW t \in TxnId
  PROVE  Sound(Finish(w, t), S)
<1> DEFINE f == Finish(w, t)
<1>1. w \in World
  BY DEF Sound, Typed
<1>2. /\ f \in World
      /\ f.active = IF w.active = t THEN None ELSE w.active
      /\ f.txns[t] = FreeTxn
      /\ \A u \in TxnId \ {t} : f.txns[u] = Unordered(w.txns[u], t)
      /\ \A tl \in Toplevels : f.tops[tl].in_transaction =>
           w.tops[tl].in_transaction /\ w.txns[t].entries[tl] = None
  BY <1>1, FinishFields
<1> HIDE DEF f
<1>3. \A u \in TxnId \ {t} :
        /\ f.txns[u].live = w.txns[u].live
        /\ f.txns[u].committed = w.txns[u].committed
        /\ f.txns[u].armed = w.txns[u].armed
        /\ f.txns[u].entries = w.txns[u].entries
        /\ f.txns[u].holes = w.txns[u].holes
        /\ w.txns[u] = FreeTxn => f.txns[u] = FreeTxn
  BY <1>1, <1>2, UnorderedFields DEF World
<1>4. Typed(f)
  BY <1>2, <1>3 DEF Sound, Typed
<1>5. PendingBut(f, {})
  <2>1. ASSUME NEW u \in TxnId, f.txns[u].live
        PROVE  f.txns[u].committed /\ f.txns[u].armed /\ ~Empty(f.txns[u])
    <3>1. u # t
      BY <1>2, <2>1, FreeTxnType
    <3>2. QED
      BY <1>3, <2>1, <3>1 DEF Sound, PendingBut, Empty, Members
  <2>2. f.active # None => f.txns[f.active].live
    BY <1>1, <1>2, <1>3, NoneAssumption DEF Sound, PendingBut, World
  <2>3. QED
    BY <2>1, <2>2 DEF PendingBut
<1>6. CoveredBut(f, S)
  BY <1>2, <1>3 DEF Sound, CoveredBut
<1>7. QED
  BY <1>4, <1>5, <1>6 DEF Sound, f

-----------------------------------------------------------------------------

\* One transaction of a world is replaced.
LEMMA UpdateTxn ==
  ASSUME NEW w \in World, NEW t \in TxnId, NEW x \in Txn
  PROVE  LET v == [w EXCEPT !.txns[t] = x]
         IN /\ v \in World
            /\ v.active = w.active /\ v.tops = w.tops
            /\ v.txns[t] = x
            /\ \A u \in TxnId \ {t} : v.txns[u] = w.txns[u]
  BY DEF World

\* ... by one that is alive as before and lost no entry but that of S2.
LEMMA UpdateTxnSound ==
  ASSUME NEW w, NEW S, NEW S2, Sound(w, S), S \subseteq S2,
         NEW t \in TxnId, w.txns[t].live, NEW x \in Txn,
         x.live, x.committed, x.armed, ~Empty(x),
         \A tl \in Toplevels \ S2 :
           w.txns[t].entries[tl] # None => x.entries[tl] # None
  PROVE  Sound([w EXCEPT !.txns[t] = x], S2)
<1> DEFINE v == [w EXCEPT !.txns[t] = x]
<1>1. w \in World
  BY DEF Sound, Typed
<1>2. /\ v \in World
      /\ v.active = w.active /\ v.tops = w.tops
      /\ v.txns[t] = x
      /\ \A u \in TxnId \ {t} : v.txns[u] = w.txns[u]
  BY <1>1, UpdateTxn
<1> HIDE DEF v
<1>3. Typed(v)
  BY <1>2 DEF Sound, Typed
<1>4. PendingBut(v, {})
  <2>1. \A u \in TxnId : v.txns[u].live =>
          v.txns[u].committed /\ v.txns[u].armed /\ ~Empty(v.txns[u])
    BY <1>2 DEF Sound, PendingBut
  <2>2. v.active # None => v.txns[v.active].live
    BY <1>1, <1>2 DEF Sound, PendingBut, World
  <2>3. QED
    BY <2>1, <2>2 DEF PendingBut
<1>5. CoveredBut(v, S2)
  BY <1>2 DEF Sound, CoveredBut
<1>6. QED
  BY <1>3, <1>4, <1>5 DEF Sound, v

\* Only toplevels change, and none outside S2 is newly marked.
LEMMA TopsSound ==
  ASSUME NEW w, NEW S, NEW S2, Sound(w, S), NEW v \in World,
         v.txns = w.txns, v.active = w.active,
         \A tl \in Toplevels \ S2 :
           v.tops[tl].in_transaction => tl \notin S /\ w.tops[tl].in_transaction
  PROVE  Sound(v, S2)
<1>1. Typed(v)
  BY DEF Sound, Typed
<1>2. PendingBut(v, {})
  BY DEF Sound, PendingBut
<1>3. CoveredBut(v, S2)
  BY DEF Sound, CoveredBut
<1>4. QED
  BY <1>1, <1>2, <1>3 DEF Sound

\* One toplevel of a world is replaced.
LEMMA UpdateTop ==
  ASSUME NEW w \in World, NEW tl \in Toplevels, NEW top \in Toplevel
  PROVE  LET v == [w EXCEPT !.tops[tl] = top]
         IN /\ v \in World
            /\ v.active = w.active /\ v.txns = w.txns
            /\ v.tops[tl] = top
            /\ \A u \in Toplevels \ {tl} : v.tops[u] = w.tops[u]
  BY DEF World

LEMMA UpdateTopSound ==
  ASSUME NEW w, NEW S, Sound(w, S), NEW tl \in Toplevels, NEW top \in Toplevel,
         top.in_transaction => w.tops[tl].in_transaction
  PROVE  /\ Sound([w EXCEPT !.tops[tl] = top], S)
         /\ ~top.in_transaction => Sound([w EXCEPT !.tops[tl] = top], S \ {tl})
<1> DEFINE v == [w EXCEPT !.tops[tl] = top]
<1>1. w \in World
  BY DEF Sound, Typed
<1>2. /\ v \in World
      /\ v.active = w.active /\ v.txns = w.txns
      /\ v.tops[tl] = top
      /\ \A u \in Toplevels \ {tl} : v.tops[u] = w.tops[u]
  BY <1>1, UpdateTop
<1> HIDE DEF v
<1>3. Sound(v, S)
  BY <1>2, TopsSound
<1>4. ~top.in_transaction => Sound(v, S \ {tl})
  BY <1>2, TopsSound
<1>5. QED
  BY <1>3, <1>4 DEF v

-----------------------------------------------------------------------------

\* handle_commit preserves the invariant, whether or not it ends the transaction.
LEMMA HandleCommitSound ==
  ASSUME NEW w, NEW S, Sound(w, S), NEW tl, w.active # None
  PROVE  Sound(HandleCommit(w, w.active, tl), S)
<1> DEFINE t == w.active
           x == [w.txns[t] EXCEPT !.waiting = @ \ {tl}]
           w1 == [w EXCEPT !.txns[t] = x]
<1>1. w \in World /\ t \in TxnId /\ w.txns[t] \in Txn
  BY DEF Sound, Typed, World
<1>2. w.txns[t].live /\ w.txns[t].committed /\ w.txns[t].armed /\ ~Empty(w.txns[t])
  BY <1>1 DEF Sound, PendingBut
<1>3. /\ x \in Txn /\ x.live /\ x.committed /\ x.armed
      /\ x.entries = w.txns[t].entries /\ x.holes = w.txns[t].holes
  BY <1>1, <1>2 DEF Txn
<1>4. ~Empty(x)
  BY <1>2, <1>3 DEF Empty, Members
<1>5. Sound(w1, S)
  <2> HIDE DEF x
  <2>1. /\ t \in TxnId /\ w.txns[t].live
        /\ x \in Txn /\ x.live /\ x.committed /\ x.armed
    BY <1>1, <1>2, <1>3
  <2>2. \A u \in Toplevels \ S : w.txns[t].entries[u] # None => x.entries[u] # None
    BY <1>3
  <2> HIDE DEF t
  <2>3. QED
    BY <1>4, <2>1, <2>2, UpdateTxnSound
<1>6. Sound(Finish(w1, t), S)
  BY <1>1, <1>5, FinishSound
<1>7. HandleCommit(w, t, tl) \in {w, w1, Finish(w1, t)}
  <2>1. w1 = [w EXCEPT !.txns[t].waiting = @ \ {tl}]
    BY <1>1 DEF World, Txn
  <2>2. QED
    BY <2>1 DEF HandleCommit
<1>8. QED
  BY <1>5, <1>6, <1>7

\* remove_toplevel keeps the entry as a hole: the transaction is not empty.
LEMMA WithoutFields ==
  ASSUME NEW x \in Txn, NEW tl \in Toplevels
  PROVE  /\ Without(x, tl) \in Txn
         /\ Without(x, tl).live = x.live
         /\ Without(x, tl).committed = x.committed
         /\ Without(x, tl).armed = x.armed
         /\ ~Empty(x) => ~Empty(Without(x, tl))
         /\ \A u \in Toplevels \ {tl} : Without(x, tl).entries[u] = x.entries[u]
<1> DEFINE y == Without(x, tl)
<1>1. /\ y \in Txn /\ y.live = x.live /\ y.committed = x.committed
      /\ y.armed = x.armed
      /\ y.entries = [x.entries EXCEPT ![tl] = None]
      /\ y.holes = (x.holes \/ x.entries[tl] # None)
  BY DEF Without, Txn
<1>2. \A u \in Toplevels \ {tl} : y.entries[u] = x.entries[u]
  BY <1>1 DEF Txn
<1> HIDE DEF y
<1>3. ~Empty(x) => ~Empty(y)
  BY <1>1, <1>2 DEF Empty, Members
<1>4. QED
  BY <1>1, <1>2, <1>3 DEF y

\* remove_toplevel leaves nobody but the toplevel it removes without a
\* transaction.
LEMMA RemoveToplevelSound ==
  ASSUME NEW w, NEW S, Sound(w, S), NEW tl \in Toplevels
  PROVE  Sound(RemoveToplevel(w, tl), S \cup {tl})
<1>1. CASE w.active = None
  <2>1. Sound(w, S \cup {tl})
    BY DEF Sound, CoveredBut
  <2>2. QED
    BY <1>1, <2>1 DEF RemoveToplevel
<1>2. CASE w.active # None
  <2> DEFINE t == w.active
             x == Without(w.txns[t], tl)
             w1 == [w EXCEPT !.txns[t] = x]
  <2>1. w \in World /\ t \in TxnId /\ w.txns[t] \in Txn
    BY <1>2 DEF Sound, Typed, World
  <2>2. w.txns[t].live /\ w.txns[t].committed /\ w.txns[t].armed /\ ~Empty(w.txns[t])
    BY <1>2, <2>1 DEF Sound, PendingBut
  <2>3. /\ x \in Txn /\ x.live /\ x.committed /\ x.armed /\ ~Empty(x)
        /\ \A u \in Toplevels \ {tl} : x.entries[u] = w.txns[t].entries[u]
    BY <2>1, <2>2, WithoutFields
  <2> HIDE DEF x
  <2>4. Sound(w1, S \cup {tl})
    <3>1. /\ S \subseteq S \cup {tl}
          /\ \A u \in Toplevels \ (S \cup {tl}) :
               w.txns[t].entries[u] # None => x.entries[u] # None
      BY <2>3
    <3>2. QED
      BY <2>1, <2>2, <2>3, <3>1, UpdateTxnSound
  <2>5. Sound(Finish(w1, t), S \cup {tl})
    BY <2>1, <2>4, FinishSound
  <2>6. RemoveToplevel(w, tl) \in {w1, Finish(w1, t)}
    BY <1>2 DEF RemoveToplevel, x
  <2>7. QED
    BY <2>4, <2>5, <2>6
<1>3. QED
  BY <1>1, <1>2

\* The toplevel that leaves loses its mark.
LEMMA LeaveTransactionSound ==
  ASSUME NEW w, NEW S, Sound(w, S), NEW tl \in Toplevels
  PROVE  Sound(LeaveTransaction(w, tl), S)
<1>1. CASE ~w.tops[tl].in_transaction
  BY <1>1 DEF LeaveTransaction
<1>2. CASE w.tops[tl].in_transaction
  <2> DEFINE r == RemoveToplevel(w, tl)
             top == [r.tops[tl] EXCEPT !.in_transaction = FALSE]
             v == [r EXCEPT !.tops[tl] = top]
  <2>1. Sound(r, S \cup {tl})
    BY RemoveToplevelSound
  <2>2. r \in World /\ r.tops[tl] \in Toplevel
    BY <2>1 DEF Sound, Typed, World
  <2>3. LeaveTransaction(w, tl) = v
    <3> HIDE DEF r
    <3>1. v = [r EXCEPT !.tops[tl].in_transaction = FALSE]
      BY <2>2 DEF World, Toplevel
    <3>2. LeaveTransaction(w, tl) = [r EXCEPT !.tops[tl].in_transaction = FALSE]
      BY <1>2 DEF LeaveTransaction, r
    <3>3. QED
      BY <3>1, <3>2
  <2> HIDE DEF r
  <2>4. top \in Toplevel /\ ~top.in_transaction
    BY <2>2 DEF Toplevel
  <2> HIDE DEF top
  <2>5. Sound(v, (S \cup {tl}) \ {tl})
    BY <2>1, <2>4, UpdateTopSound
  <2>6. Sound(v, S)
    BY <2>5 DEF Sound, CoveredBut
  <2>7. QED
    BY <2>3, <2>6
<1>3. QED
  BY <1>1, <1>2

-----------------------------------------------------------------------------

\* add_change to a committed transaction: it gains an entry.
LEMMA AddChangeSound ==
  ASSUME NEW w, NEW S, Sound(w, S), w.active # None,
         NEW tl \in Toplevels, NEW g \in Geoms
  PROVE  Sound(AddChange(w, w.active, tl, g), S)
<1> DEFINE t == w.active
           e == w.txns[t]
           x == [e EXCEPT !.entries[tl] = g,
                          !.late = IF e.committed /\ e.entries[tl] = None
                                   THEN @ \cup {tl} ELSE @]
<1>1. w \in World /\ t \in TxnId /\ e \in Txn
  BY DEF Sound, Typed, World
<1>2. e.live /\ e.committed /\ e.armed /\ ~Empty(e)
  BY <1>1 DEF Sound, PendingBut
<1>3. /\ x \in Txn /\ x.live /\ x.committed /\ x.armed /\ x.holes = e.holes
      /\ x.entries = [e.entries EXCEPT ![tl] = g]
  BY <1>1, <1>2 DEF Txn
<1>4. AddChange(w, t, tl, g) = [w EXCEPT !.txns[t] = x]
  BY DEF AddChange
<1> HIDE DEF x
<1>5. g # None /\ e.entries \in [Toplevels -> Geoms \cup {None}]
  BY <1>1, GeomsAssumption DEF Txn
<1>6. \A u \in Toplevels : e.entries[u] # None => x.entries[u] # None
  BY <1>3, <1>5
<1>7. ~Empty(x)
  BY <1>2, <1>3, <1>6 DEF Empty, Members
<1>8. Sound([w EXCEPT !.txns[t] = x], S)
  <2>1. \A u \in Toplevels \ S :
          w.txns[t].entries[u] # None => x.entries[u] # None
    BY <1>6
  <2>2. S \subseteq S
    OBVIOUS
  <2> HIDE DEF t
  <2>3. QED
    BY <1>1, <1>2, <1>3, <1>7, <2>1, <2>2, UpdateTxnSound
<1>9. QED
  BY <1>4, <1>8

\* set_position_size, with a current transaction and without one.
LEMMA SetPositionSound ==
  ASSUME NEW w, NEW S, Sound(w, S), NEW tl \in Toplevels, NEW g \in Geoms
  PROVE  Sound(SetPosition(w, tl, g), S)
<1>1. CASE w.active # None
  BY <1>1, AddChangeSound DEF SetPosition
<1>2. CASE w.active = None
  <2> DEFINE top == Place(w.tops[tl], Clamped(g))
  <2>1. w \in World /\ w.tops[tl] \in Toplevel
    BY DEF Sound, Typed, World
  <2>2. Clamped(g) \in Geoms
    BY GeomsAssumption DEF Clamped
  <2>3. top \in Toplevel /\ top.in_transaction = w.tops[tl].in_transaction
    BY <2>1, <2>2 DEF Place, Toplevel
  <2>4. SetPosition(w, tl, g) \in {w, [w EXCEPT !.tops[tl] = top]}
    BY <1>2 DEF SetPosition
  <2> HIDE DEF top
  <2>5. Sound([w EXCEPT !.tops[tl] = top], S)
    BY <2>3, UpdateTopSound
  <2>6. QED
    BY <2>4, <2>5
<1>3. QED
  BY <1>1, <1>2

-----------------------------------------------------------------------------

\* Between begin() and commit(): the invariant holds of the rest, and the new
\* transaction t is still being filled.
Building(w, t) ==
  /\ Typed(w)
  /\ PendingBut(w, {t})
  /\ CoveredBut(w, {})
  /\ t \in TxnId
  /\ w.active = t
  /\ w.txns[t].live
  /\ ~w.txns[t].committed
  /\ ~w.txns[t].holes

\* Between two handlers commit() has nothing to do: the current transaction has
\* been committed.
LEMMA ManagerCommitIdle ==
  ASSUME NEW w, NEW S, Sound(w, S)
  PROVE  ManagerCommit(w) = w
<1>1. CASE w.active = None
  BY <1>1 DEF ManagerCommit
<1>2. CASE w.active # None
  <2>1. w.active \in TxnId
    BY <1>2 DEF Sound, Typed, World
  <2>2. w.txns[w.active].committed /\ ~Empty(w.txns[w.active])
    BY <1>2, <2>1 DEF Sound, PendingBut
  <2>3. QED
    BY <2>2 DEF ManagerCommit, TxnCommit
<1>3. QED
  BY <1>1, <1>2

LEMMA OverlappedFields ==
  ASSUME NEW x \in Txn, NEW b \in BOOLEAN
  PROVE  /\ Overlapped(x, b) \in Txn
         /\ Overlapped(x, b).live = x.live
         /\ Overlapped(x, b).committed = x.committed
         /\ Overlapped(x, b).armed = x.armed
         /\ Overlapped(x, b).holes = x.holes
         /\ Overlapped(x, b).entries = x.entries
  BY DEF Overlapped, Txn

\* begin() leaves the transactions there are as they were.
LEMMA BeginBuilding ==
  ASSUME NEW w, Sound(w, {}), NEW t \in TxnId, ~w.txns[t].live
  PROVE  Building(Begin(w, t), t)
<1> DEFINE b == Begin(w, t)
           fresh == [FreeTxn EXCEPT !.live = TRUE]
           y(u) == IF u = t THEN Overlapped(fresh, Live(w) # {})
                   ELSE Overlapped(w.txns[u], u \in Live(w))
<1>1. w \in World
  BY DEF Sound, Typed
<1>2. /\ fresh \in Txn /\ fresh.live /\ ~fresh.committed /\ ~fresh.holes
  BY FreeTxnType DEF Txn, FreeTxn
<1>3. /\ b.active = t /\ b.tops = w.tops
      /\ b.txns = [u \in TxnId |-> y(u)]
      /\ b \in [txns : {b.txns}, active : {t}, tops : {w.tops}]
  BY <1>1, ManagerCommitIdle DEF Begin, World
<1>4. ASSUME NEW u \in TxnId, u # t
      PROVE  /\ y(u) \in Txn
             /\ y(u).live = w.txns[u].live
             /\ y(u).committed = w.txns[u].committed
             /\ y(u).armed = w.txns[u].armed
             /\ y(u).holes = w.txns[u].holes
             /\ y(u).entries = w.txns[u].entries
             /\ ~w.txns[u].live => y(u) = FreeTxn
  <2>1. w.txns[u] \in Txn
    BY <1>1 DEF World
  <2>2. (u \in Live(w)) \in BOOLEAN
    OBVIOUS
  <2>3. ~w.txns[u].live => w.txns[u] = FreeTxn /\ ~(u \in Live(w))
    BY DEF Sound, Typed, Live
  <2>4. Overlapped(FreeTxn, FALSE) = FreeTxn
    <3>1. Overlapped(FreeTxn, FALSE) = [FreeTxn EXCEPT !.overlapped = FALSE]
      <4>1. (FreeTxn.overlapped \/ FALSE) = FALSE
        BY DEF FreeTxn
      <4>2. QED
        BY <4>1, Zenon DEF Overlapped
    <3>2. QED
      BY <3>1 DEF FreeTxn
  <2> HIDE DEF Live
  <2>5. QED
    BY <1>4, <2>1, <2>2, <2>3, <2>4, OverlappedFields
<1>5. /\ y(t) \in Txn /\ y(t).live /\ ~y(t).committed /\ ~y(t).holes
  <2>1. (Live(w) # {}) \in BOOLEAN
    OBVIOUS
  <2> HIDE DEF fresh
  <2>2. QED
    BY <1>2, <2>1, OverlappedFields
<1> HIDE DEF y, b
<1>6. b \in World
  BY <1>1, <1>3, <1>4, <1>5 DEF World
<1>7. Typed(b)
  BY <1>3, <1>4, <1>5, <1>6 DEF Typed
<1>8. PendingBut(b, {t})
  BY <1>3, <1>4, <1>5 DEF Sound, PendingBut, Empty, Members
<1>9. CoveredBut(b, {})
  <2>1. \A u \in TxnId : w.txns[u].live => u # t
    OBVIOUS
  <2>2. QED
    BY <1>3, <1>4, <2>1 DEF Sound, CoveredBut
<1>10. QED
  BY <1>3, <1>5, <1>7, <1>8, <1>9 DEF Building, b

\* The transaction that is being filled gains entries.
LEMMA AddChangesBuilding ==
  ASSUME NEW w, NEW t, Building(w, t), NEW layout \in Layouts(Toplevels)
  PROVE  Building(AddChanges(w, t, layout), t)
<1> DEFINE e == [tl \in Toplevels |-> IF tl \in DOMAIN layout THEN layout[tl]
                                      ELSE w.txns[t].entries[tl]]
           x == [w.txns[t] EXCEPT !.entries = e]
           v == [w EXCEPT !.txns[t] = x]
<1>1. w \in World /\ t \in TxnId /\ w.txns[t] \in Txn
  BY DEF Building, Typed, World
<1>2. \A tl \in DOMAIN layout : layout[tl] \in Geoms /\ layout[tl] # None
  BY GeomsAssumption DEF Layouts
<1>3. /\ e \in [Toplevels -> Geoms \cup {None}]
      /\ \A tl \in Toplevels : w.txns[t].entries[tl] # None => e[tl] # None
  BY <1>1, <1>2 DEF Txn
<1>4. AddChanges(w, t, layout) = v
  BY <1>1 DEF AddChanges, World, Txn
<1> HIDE DEF e
<1>5. /\ x \in Txn /\ x.live /\ ~x.committed /\ ~x.holes /\ x.entries = e
  BY <1>1, <1>3 DEF Building, Txn
<1> HIDE DEF x
<1>6. /\ v \in World
      /\ v.active = w.active /\ v.tops = w.tops
      /\ v.txns[t] = x
      /\ \A u \in TxnId \ {t} : v.txns[u] = w.txns[u]
  BY <1>1, <1>5, UpdateTxn
<1> HIDE DEF v
<1>7. Typed(v)
  BY <1>5, <1>6 DEF Building, Typed
<1>8. PendingBut(v, {t})
  BY <1>5, <1>6 DEF Building, PendingBut
<1>9. CoveredBut(v, {})
  BY <1>3, <1>5, <1>6 DEF Building, CoveredBut
<1>10. QED
  BY <1>4, <1>5, <1>6, <1>7, <1>8, <1>9 DEF Building

\* commit() of a transaction nothing was added to: it is deleted.
LEMMA EmptyCommitFields ==
  ASSUME NEW w, NEW t, Building(w, t), Empty(w.txns[t])
  PROVE  LET f == ManagerCommit(w)
         IN /\ f \in World /\ f.active = None /\ f.tops = w.tops
            /\ f.txns[t] = FreeTxn
            /\ \A u \in TxnId \ {t} : f.txns[u] = Unordered(w.txns[u], t)
<1> DEFINE x == [w.txns[t] EXCEPT !.committed = TRUE]
           c == [w EXCEPT !.txns[t] = x]
           d == [c EXCEPT !.active = None]
           f == Delete(d, t)
<1>1. w \in World /\ t \in TxnId /\ w.txns[t] \in Txn /\ t # None
  BY NoneAssumption DEF Building, Typed, World
<1>2. x \in Txn /\ x.entries = w.txns[t].entries /\ x.holes = w.txns[t].holes
  BY <1>1 DEF Txn
<1>3. TxnCommit(w, t) = c
  <2>1. TxnCommit(w, t) = [w EXCEPT !.txns[t].committed = TRUE]
    BY DEF Building, TxnCommit
  <2>2. QED
    BY <1>1, <2>1 DEF World, Txn
<1>4. Empty(x)
  BY <1>2 DEF Empty, Members
<1> HIDE DEF x
<1>5. /\ c \in World /\ c.active = t /\ c.tops = w.tops
      /\ c.txns[t] = x
      /\ \A u \in TxnId \ {t} : c.txns[u] = w.txns[u]
  BY <1>1, <1>2, UpdateTxn DEF Building
<1> HIDE DEF c
<1>6. ManagerCommit(w) = f
  BY <1>1, <1>3, <1>4, <1>5 DEF Building, ManagerCommit
<1>7. d \in World /\ d.active = None /\ d.tops = w.tops /\ d.txns = c.txns
  BY <1>5 DEF World
<1> HIDE DEF d
<1>8. /\ f \in World /\ f.active = None /\ f.tops = w.tops
      /\ f.txns[t] = FreeTxn
      /\ \A u \in TxnId \ {t} : f.txns[u] = Unordered(w.txns[u], t)
  <2>1. /\ f \in World /\ f.active = d.active /\ f.tops = d.tops
        /\ f.txns[t] = FreeTxn
        /\ \A u \in TxnId \ {t} : f.txns[u] = Unordered(d.txns[u], t)
    BY <1>1, <1>7, DeleteFields
  <2>2. QED
    BY <1>5, <1>7, <2>1
<1>9. QED
  BY <1>6, <1>8

LEMMA EmptyCommitSound ==
  ASSUME NEW w, NEW t, Building(w, t), Empty(w.txns[t])
  PROVE  Sound(ManagerCommit(w), {})
<1> DEFINE f == ManagerCommit(w)
<1>1. w \in World /\ t \in TxnId
  BY DEF Building, Typed
<1>2. /\ f \in World /\ f.active = None /\ f.tops = w.tops
      /\ f.txns[t] = FreeTxn
      /\ \A u \in TxnId \ {t} : f.txns[u] = Unordered(w.txns[u], t)
  BY EmptyCommitFields
<1> HIDE DEF f
<1>3. \A u \in TxnId \ {t} :
        /\ f.txns[u].live = w.txns[u].live
        /\ f.txns[u].committed = w.txns[u].committed
        /\ f.txns[u].armed = w.txns[u].armed
        /\ f.txns[u].entries = w.txns[u].entries
        /\ f.txns[u].holes = w.txns[u].holes
        /\ w.txns[u] = FreeTxn => f.txns[u] = FreeTxn
  BY <1>1, <1>2, UnorderedFields DEF World
<1>4. Typed(f)
  BY <1>2, <1>3 DEF Building, Typed
<1>5. PendingBut(f, {})
  BY <1>2, <1>3, FreeTxnType DEF Building, PendingBut, Empty, Members
<1>6. CoveredBut(f, {})
  <2>1. \A tl \in Toplevels : w.txns[t].entries[tl] = None
    BY DEF Empty, Members
  <2>2. QED
    BY <1>2, <1>3, <2>1 DEF Building, CoveredBut
<1>7. QED
  BY <1>4, <1>5, <1>6 DEF Sound, f

LEMMA AskedFields ==
  ASSUME NEW top \in Toplevel, NEW g \in Geoms
  PROVE  Asked(top, g) \in Toplevel
<1>1. (IF g \notin NoBox THEN g ELSE top.configured) \in Geoms
  BY DEF Toplevel
<1>2. QED
  BY <1>1 DEF Asked, Toplevel

\* A toplevel as commit() leaves it: the members of e are marked.
Committed(e, tl, top) ==
  IF tl \notin Members(e) THEN top ELSE Asked(top, e.entries[tl])

\* commit() of a transaction with entries: it is committed and armed.
LEMMA FilledCommitFields ==
  ASSUME NEW w, NEW t, Building(w, t), ~Empty(w.txns[t])
  PROVE  LET v == ManagerCommit(w)
             e == w.txns[t]
         IN /\ v \in World /\ v.active = t
            /\ \A tl \in Toplevels : v.tops[tl] = Committed(e, tl, w.tops[tl])
            /\ \A u \in TxnId \ {t} : v.txns[u] = w.txns[u]
            /\ v.txns[t].live /\ v.txns[t].committed /\ v.txns[t].armed
            /\ v.txns[t].entries = e.entries /\ v.txns[t].holes = e.holes
            /\ v.txns[t].late = e.late /\ v.txns[t].overlapped = e.overlapped
<1> DEFINE e == w.txns[t]
           asked == {tl \in Members(e) : e.entries[tl] \notin NoBox}
           x1 == [e EXCEPT !.committed = TRUE, !.waiting = @ \cup asked]
           top(tl) == Committed(e, tl, w.tops[tl])
           w1 == [w EXCEPT !.txns[t] = x1, !.tops = [tl \in Toplevels |-> top(tl)]]
           older == {u \in TxnId \ {t} : w1.txns[u].armed}
           x == [x1 EXCEPT !.armed = TRUE, !.before = older]
           v == Arm(w1, t)
<1>1. w \in World /\ t \in TxnId /\ e \in Txn
  BY DEF Building, Typed, World
<1>2. TxnCommit(w, t) = v
  BY DEF Building, TxnCommit, Committed
<1>3. /\ x1 \in Txn /\ x1.live /\ x1.committed
      /\ x1.entries = e.entries /\ x1.holes = e.holes
      /\ x1.late = e.late /\ x1.overlapped = e.overlapped
  <2>1. asked \subseteq Toplevels
    BY DEF Members
  <2> HIDE DEF asked
  <2>2. QED
    BY <1>1, <2>1 DEF Building, Txn
<1>4. ASSUME NEW tl \in Toplevels PROVE top(tl) \in Toplevel
  <2>1. w.tops[tl] \in Toplevel
    BY <1>1 DEF World
  <2>2. tl \in Members(e) => e.entries[tl] \in Geoms
    BY <1>1 DEF Members, Txn
  <2>3. QED
    BY <2>1, <2>2, AskedFields DEF Committed
<1> HIDE DEF x1, top
<1>5. /\ w1.active = t
      /\ w1.txns = [w.txns EXCEPT ![t] = x1]
      /\ w1.tops = [tl \in Toplevels |-> top(tl)]
      /\ w1 \in [txns : {w1.txns}, active : {t}, tops : {w1.tops}]
  BY <1>1 DEF Building, World
<1>6. w1 \in World
  BY <1>1, <1>3, <1>4, <1>5 DEF World
<1>7. /\ w1.txns[t] = x1
      /\ \A u \in TxnId \ {t} : w1.txns[u] = w.txns[u]
  BY <1>1, <1>5 DEF World
<1> HIDE DEF w1
<1>8. /\ x \in Txn /\ x.live /\ x.committed /\ x.armed
      /\ x.entries = e.entries /\ x.holes = e.holes
      /\ x.late = e.late /\ x.overlapped = e.overlapped
  <2>1. older \in SUBSET TxnId
    OBVIOUS
  <2> HIDE DEF older
  <2>2. QED
    BY <1>3, <2>1 DEF Txn
<1>9. v = [w1 EXCEPT !.txns[t] = x]
  BY <1>1, <1>6, <1>7 DEF Arm, World, Txn
<1> HIDE DEF x, v
<1>10. /\ v \in World /\ v.active = t /\ v.tops = w1.tops
       /\ v.txns[t] = x
       /\ \A u \in TxnId \ {t} : v.txns[u] = w.txns[u]
  <2>1. /\ v \in World /\ v.active = w1.active /\ v.tops = w1.tops
        /\ v.txns[t] = x
        /\ \A u \in TxnId \ {t} : v.txns[u] = w1.txns[u]
    BY <1>1, <1>6, <1>8, <1>9, UpdateTxn
  <2>2. QED
    BY <1>5, <1>7, <2>1
<1>11. ~Empty(x)
  BY <1>8 DEF Empty, Members
<1>12. ManagerCommit(w) = v
  <2>1. t # None
    BY <1>1, NoneAssumption
  <2>2. QED
    BY <1>2, <1>10, <1>11, <2>1 DEF Building, ManagerCommit
<1>13. QED
  BY <1>5, <1>8, <1>10, <1>12 DEF top

\* It covers every toplevel that commit() marks.
LEMMA FilledCommitSound ==
  ASSUME NEW w, NEW t, Building(w, t), ~Empty(w.txns[t])
  PROVE  Sound(ManagerCommit(w), {})
<1> DEFINE v == ManagerCommit(w)
           e == w.txns[t]
           x == v.txns[t]
<1>1. w \in World /\ t \in TxnId /\ e \in Txn
  BY DEF Building, Typed, World
<1>2. /\ v \in World /\ v.active = t
      /\ \A tl \in Toplevels : v.tops[tl] = Committed(e, tl, w.tops[tl])
      /\ \A u \in TxnId \ {t} : v.txns[u] = w.txns[u]
      /\ x.live /\ x.committed /\ x.armed
      /\ x.entries = e.entries /\ x.holes = e.holes
  BY FilledCommitFields
<1> HIDE DEF v
<1>3. ~Empty(x)
  BY <1>2 DEF Empty, Members
<1>4. Typed(v)
  BY <1>2 DEF Building, Typed
<1>5. PendingBut(v, {})
  <2>1. \A u \in TxnId : v.txns[u].live =>
          v.txns[u].committed /\ v.txns[u].armed /\ ~Empty(v.txns[u])
    BY <1>2, <1>3 DEF Building, PendingBut
  <2>2. QED
    BY <1>2, <2>1 DEF PendingBut
<1>6. CoveredBut(v, {})
  <2>1. ASSUME NEW tl \in Toplevels, v.tops[tl].in_transaction
        PROVE  \E u \in TxnId : v.txns[u].live /\ v.txns[u].entries[tl] # None
    <3>1. CASE e.entries[tl] # None
      BY <1>1, <1>2, <3>1
    <3>2. CASE e.entries[tl] = None
      <4>1. w.tops[tl].in_transaction
        BY <1>2, <2>1, <3>2 DEF Committed, Members
      <4>2. PICK u \in TxnId : w.txns[u].live /\ w.txns[u].entries[tl] # None
        BY <4>1 DEF Building, CoveredBut
      <4>3. u # t
        BY <3>2, <4>2
      <4>4. QED
        BY <1>2, <4>2, <4>3
    <3>3. QED
      BY <3>1, <3>2
  <2>2. QED
    BY <2>1 DEF CoveredBut
<1>7. QED
  BY <1>4, <1>5, <1>6 DEF Sound, v

\* A whole batch, begin() to commit().
LEMMA BatchSound ==
  ASSUME NEW w, Sound(w, {}), NEW t \in TxnId, ~w.txns[t].live,
         NEW layout \in Layouts(Toplevels)
  PROVE  Sound(Batch(w, t, layout), {})
<1> DEFINE b == AddChanges(Begin(w, t), t, layout)
<1>1. Building(b, t)
  BY BeginBuilding, AddChangesBuilding
<1>2. Sound(ManagerCommit(b), {})
  BY <1>1, EmptyCommitSound, FilledCommitSound
<1>3. QED
  BY <1>2 DEF Batch

-----------------------------------------------------------------------------

\* Neither call takes a free cell: Batch may use one that was free before.
LEMMA SetPositionFree ==
  ASSUME NEW w, NEW S, Sound(w, S), NEW tl \in Toplevels, NEW g \in Geoms,
         NEW t \in TxnId, ~w.txns[t].live
  PROVE  ~SetPosition(w, tl, g).txns[t].live
<1>1. CASE w.active = None
  BY <1>1 DEF SetPosition, Sound, Typed, World
<1>2. CASE w.active # None
  <2>1. w \in World /\ w.active \in TxnId /\ w.active # t
    BY <1>2 DEF Sound, Typed, PendingBut, World
  <2>2. SetPosition(w, tl, g).txns[t] = w.txns[t]
    BY <1>2, <2>1 DEF SetPosition, AddChange, World
  <2>3. QED
    BY <2>2
<1>3. QED
  BY <1>1, <1>2

LEMMA LeaveTransactionFree ==
  ASSUME NEW w, NEW S, Sound(w, S), NEW tl \in Toplevels,
         NEW t \in TxnId, ~w.txns[t].live
  PROVE  ~LeaveTransaction(w, tl).txns[t].live
<1>1. w \in World
  BY DEF Sound, Typed
<1> DEFINE r == RemoveToplevel(w, tl)
<1>2. ~r.txns[t].live
  <2>1. CASE w.active = None
    BY <2>1 DEF RemoveToplevel
  <2>2. CASE w.active # None
    <3> DEFINE a == w.active
               x == Without(w.txns[a], tl)
               w1 == [w EXCEPT !.txns[a] = x]
    <3>1. a \in TxnId /\ a # t /\ w.txns[a] \in Txn
      BY <1>1, <2>2 DEF Sound, PendingBut, World
    <3>2. x \in Txn
      BY <3>1, WithoutFields
    <3>3. r \in {w1, Finish(w1, a)}
      BY <2>2 DEF RemoveToplevel
    <3> HIDE DEF x
    <3>4. w1 \in World /\ w1.txns[t] = w.txns[t]
      BY <1>1, <3>1, <3>2, UpdateTxn
    <3> HIDE DEF w1
    <3>5. Finish(w1, a).txns[t] = Unordered(w.txns[t], a)
      BY <3>1, <3>4, FinishFields
    <3>6. w.txns[t] \in Txn
      BY <1>1 DEF World
    <3>7. QED
      BY <3>3, <3>4, <3>5, <3>6, UnorderedFields
  <2>3. QED
    BY <2>1, <2>2
<1>3. CASE w.tops[tl].in_transaction
  <2>1. LeaveTransaction(w, tl).txns = r.txns
    <3>1. Sound(r, S \cup {tl})
      BY RemoveToplevelSound
    <3>2. r \in World
      BY <3>1 DEF Sound, Typed
    <3> HIDE DEF r
    <3>3. LeaveTransaction(w, tl) = [r EXCEPT !.tops[tl].in_transaction = FALSE]
      BY <1>3 DEF LeaveTransaction, r
    <3>4. QED
      BY <3>2, <3>3 DEF World
  <2>2. QED
    BY <1>2, <2>1
<1>4. CASE ~w.tops[tl].in_transaction
  BY <1>4 DEF LeaveTransaction
<1>5. QED
  BY <1>3, <1>4

LEMMA LayoutsMonotone ==
  ASSUME NEW S, NEW T, S \subseteq T
  PROVE  Layouts(S) \subseteq Layouts(T)
  BY DEF Layouts

\* What an interactive grab writes touches no mark and no transaction.
LEMMA ByHandSound ==
  ASSUME NEW w, NEW S, Sound(w, S), NEW tl \in Toplevels,
         NEW g \in Geoms, NEW c \in Geoms
  PROVE  Sound(ByHand(w, tl, g, c), S) /\ ByHand(w, tl, g, c).txns = w.txns
<1> DEFINE top == [w.tops[tl] EXCEPT !.geometry = g, !.configured = c]
<1>1. w \in World /\ w.tops[tl] \in Toplevel
  BY DEF Sound, Typed, World
<1>2. top \in Toplevel /\ top.in_transaction = w.tops[tl].in_transaction
  BY <1>1 DEF Toplevel
<1>3. ByHand(w, tl, g, c) = [w EXCEPT !.tops[tl] = top]
  BY DEF ByHand
<1> HIDE DEF top
<1>4. Sound([w EXCEPT !.tops[tl] = top], S)
  BY <1>2, UpdateTopSound
<1>5. QED
  BY <1>1, <1>3, <1>4 DEF World

\* map_notify touches no mark, and neither it nor the end of unmap_notify takes a
\* free cell.
LEMMA AppearSound ==
  ASSUME NEW w, NEW S, Sound(w, S), NEW tl \in Toplevels, NEW hide \in BOOLEAN,
         NEW g \in Geoms
  PROVE  /\ Sound(Appear(w, tl, hide, g), S)
         /\ \A t \in TxnId :
              ~w.txns[t].live => ~Appear(w, tl, hide, g).txns[t].live
<1> DEFINE top == Entered(w.tops[tl], hide)
           w1 == [w EXCEPT !.tops[tl] = top]
<1>1. w \in World /\ w.tops[tl] \in Toplevel
  BY DEF Sound, Typed, World
<1>2. top \in Toplevel /\ top.in_transaction = w.tops[tl].in_transaction
  BY <1>1 DEF Toplevel, Entered
<1>3. Appear(w, tl, hide, g) \in
        {ByHand(w1, tl, g, w.tops[tl].configured), ByHand(w1, tl, g, g),
         SetPosition(w1, tl, g)}
  <2>1. w1 = [w EXCEPT !.tops[tl] = Entered(@, hide)]
    OBVIOUS
  <2> HIDE DEF w1
  <2>2. QED
    BY <2>1 DEF Appear
<1> HIDE DEF top
<1>4. Sound(w1, S) /\ w1.txns = w.txns
  BY <1>1, <1>2, UpdateTopSound, UpdateTop, ZenonT(60)
<1>5. w.tops[tl].configured \in Geoms
  BY <1>1 DEF Toplevel
<1> HIDE DEF w1
<1>6. /\ Sound(ByHand(w1, tl, g, w.tops[tl].configured), S)
      /\ ByHand(w1, tl, g, w.tops[tl].configured).txns = w.txns
      /\ Sound(ByHand(w1, tl, g, g), S) /\ ByHand(w1, tl, g, g).txns = w.txns
  BY <1>4, <1>5, ByHandSound
<1>7. /\ Sound(SetPosition(w1, tl, g), S)
      /\ \A t \in TxnId : ~w.txns[t].live => ~SetPosition(w1, tl, g).txns[t].live
  BY <1>4, SetPositionSound, SetPositionFree
<1>8. QED
  BY <1>3, <1>6, <1>7

LEMMA UnlinkedSound ==
  ASSUME NEW w, NEW S, Sound(w, S), NEW tl \in Toplevels
  PROVE  Sound(Unlinked(w, tl), S)
<1> DEFINE top == [w.tops[tl] EXCEPT !.homed = FALSE]
<1>1. w \in World /\ w.tops[tl] \in Toplevel
  BY DEF Sound, Typed, World
<1>2. top \in Toplevel /\ top.in_transaction = w.tops[tl].in_transaction
  BY <1>1 DEF Toplevel
<1>3. Unlinked(w, tl) = [w EXCEPT !.tops[tl] = top]
  BY <1>1 DEF Unlinked, World, Toplevel
<1> HIDE DEF top
<1>4. Sound([w EXCEPT !.tops[tl] = top], S)
  BY <1>2, UpdateTopSound
<1>5. QED
  BY <1>3, <1>4

\* The removal that starts unmap_notify.
LEMMA UnmappingSound ==
  ASSUME Inv, NEW tl \in Toplevels
  PROVE  /\ Sound(Unmapping(tl), {})
         /\ \A t \in FreeCells : ~Unmapping(tl).txns[t].live
<1> DEFINE top == [W.tops[tl] EXCEPT !.phase = "unmapped"]
           v == [W EXCEPT !.tops[tl] = top]
<1>1. W \in World /\ W.tops[tl] \in Toplevel /\ Sound(W, {})
  BY DEF Inv, Sound, Typed, World
<1>2. top \in Toplevel /\ top.in_transaction = W.tops[tl].in_transaction
  BY <1>1 DEF Toplevel
<1>3. Unmapping(tl) = LeaveTransaction(v, tl)
  <2>1. v = [W EXCEPT !.tops[tl].phase = "unmapped"]
    BY <1>1 DEF World, Toplevel
  <2>2. QED
    BY <2>1 DEF Unmapping
<1> HIDE DEF top
<1>4. Sound(v, {})
  BY <1>1, <1>2, UpdateTopSound
<1>5. v.txns = txns
  BY <1>1, <1>2, UpdateTop DEF W
<1> HIDE DEF v
<1>6. \A t \in FreeCells : ~LeaveTransaction(v, tl).txns[t].live
  BY <1>4, <1>5, LeaveTransactionFree DEF FreeCells
<1>7. QED
  BY <1>3, <1>4, <1>6, LeaveTransactionSound

\* What a commit means for the current transaction.
LEMMA AnsweredSound ==
  ASSUME Inv, NEW tl \in Toplevels
  PROVE  Sound(Answered(tl), {})
<1>1. Sound(W, {}) /\ W.active = active
  BY DEF Inv, W
<1>2. QED
  BY <1>1, HandleCommitSound DEF Answered

\* A handler that ends in a sound world preserves the invariant.
LEMMA StepSound ==
  ASSUME NEW w, Sound(w, {}), Step(w)
  PROVE  Inv'
<1>1. W' = w
  BY DEF Sound, Typed, World, Step, W
<1>2. Sound(W', {})
  BY <1>1
<1>3. QED
  BY <1>2 DEF Inv, Sound, Typed, PendingBut, CoveredBut

-----------------------------------------------------------------------------

LEMMA InitInv == Init => Inv
<1> SUFFICES ASSUME Init PROVE Inv
  OBVIOUS
<1>1. NewToplevel \in Toplevel /\ ~NewToplevel.in_transaction
  BY GeomsAssumption DEF NewToplevel, Toplevel
<1>2. /\ W.txns = [t \in TxnId |-> FreeTxn] /\ W.active = None
      /\ W.tops = [tl \in Toplevels |-> NewToplevel]
      /\ W \in [txns : {W.txns}, active : {None}, tops : {W.tops}]
  BY DEF Init, W
<1> HIDE DEF W
<1>3. W \in World
  BY <1>1, <1>2, FreeTxnType DEF World
<1>4. Typed(W) /\ PendingBut(W, {}) /\ CoveredBut(W, {})
  BY <1>1, <1>2, <1>3, FreeTxnType DEF Typed, PendingBut, CoveredBut
<1>5. QED
  BY <1>4 DEF Inv, Sound

LEMMA NextInv == Inv /\ [Next]_vars => Inv'
<1> SUFFICES ASSUME Inv, [Next]_vars PROVE Inv'
  OBVIOUS
<1>1. Sound(W, {}) /\ W \in World /\ W.txns = txns /\ W.tops = tops /\ W.active = active
  BY DEF Inv, Sound, Typed, W
<1> USE <1>1
<1>2. /\ Tileable \subseteq Toplevels
      /\ Layouts(Tileable) \subseteq Layouts(Toplevels)
      /\ \A tl \in Toplevels : Layouts(Tileable \cup {tl}) \subseteq Layouts(Toplevels)
  <2>1. Tileable \subseteq Toplevels
    BY DEF Tileable, Mapped
  <2>2. \A tl \in Toplevels : Tileable \cup {tl} \subseteq Toplevels
    BY <2>1
  <2>3. QED
    BY <2>1, <2>2, LayoutsMonotone
<1>3. \A t \in FreeCells : t \in TxnId /\ ~txns[t].live
  BY DEF FreeCells
<1> HIDE DEF W
<1>4. CASE Tile
  <2>1. PICK t \in FreeCells, layout \in Layouts(Tileable) : Step(Batch(W, t, layout))
    BY <1>4 DEF Tile
  <2>2. QED
    BY <1>2, <1>3, <2>1, BatchSound, StepSound
<1>5. CASE MoveOne
  <2>1. PICK tl \in Toplevels, g \in Geoms : Step(SetPosition(W, tl, g))
    BY <1>5, Zenon DEF MoveOne
  <2>2. QED
    BY <2>1, SetPositionSound, StepSound
<1>6. CASE MoveOneAndTile
  <2>1. PICK tl \in Mapped, g \in Geoms, t \in FreeCells, layout \in Layouts(Tileable) :
          Step(Batch(SetPosition(W, tl, g), t, layout))
    BY <1>6 DEF MoveOneAndTile
  <2> DEFINE w == SetPosition(W, tl, g)
  <2>2. tl \in Toplevels
    BY DEF Mapped
  <2>3. Sound(w, {}) /\ ~w.txns[t].live
    BY <1>3, <2>2, SetPositionSound, SetPositionFree
  <2> HIDE DEF w
  <2>4. Sound(Batch(w, t, layout), {})
    BY <1>2, <1>3, <2>3, BatchSound
  <2>5. QED
    BY <2>1, <2>4, StepSound DEF w
<1>7. CASE ResizeTree
  <2>1. PICK layout \in Layouts(Tileable) :
          Step([W EXCEPT !.tops = [tl \in Toplevels |-> 
                 IF tl \in DOMAIN layout
                 THEN [@[tl] EXCEPT !.geometry = layout[tl], !.configured = layout[tl]]
                 ELSE @[tl]]])
    BY <1>7 DEF ResizeTree
  <2> DEFINE top(tl) ==
               IF tl \in DOMAIN layout
               THEN [W.tops[tl] EXCEPT !.geometry = layout[tl], !.configured = layout[tl]]
               ELSE W.tops[tl]
             v == [W EXCEPT !.tops = [tl \in Toplevels |-> top(tl)]]
  <2>2. \A tl \in DOMAIN layout : layout[tl] \in Geoms
    BY DEF Layouts
  <2>3. ASSUME NEW tl \in Toplevels
        PROVE  top(tl) \in Toplevel /\ top(tl).in_transaction = W.tops[tl].in_transaction
    <3>1. W.tops[tl] \in Toplevel
      BY DEF World
    <3>2. QED
      BY <2>2, <3>1 DEF Toplevel
  <2>4. Step(v)
    BY <2>1
  <2> HIDE DEF top
  <2>5. v \in World /\ v.txns = W.txns /\ v.active = W.active
        /\ v.tops = [tl \in Toplevels |-> top(tl)]
    BY <2>3 DEF World
  <2> HIDE DEF v
  <2>6. Sound(v, {})
    BY <2>3, <2>5, TopsSound
  <2>7. QED
    BY <2>4, <2>6, StepSound
<1>8. CASE MapOnly \/ MapFloating
  <2>1. Natural \in Geoms /\ \A hide \in BOOLEAN : Boxes(hide) \subseteq Geoms
    BY GeomsAssumption DEF Boxes
  <2>2. ASSUME NEW tl \in Toplevels, NEW hide \in BOOLEAN, NEW g \in Boxes(hide),
               NEW g2 \in Geoms
        PROVE  /\ Sound(Appear(W, tl, hide, g), {})
               /\ Sound(SetPosition(Appear(W, tl, hide, g), tl, g2), {})
    BY <2>1, AppearSound, SetPositionSound
  <2>3. CASE MapOnly
    <3>1. PICK tl \in Toplevels, hide \in BOOLEAN : \E g \in Boxes(hide) :
            Step(Appear(W, tl, hide, g))
      BY <2>3 DEF MapOnly
    <3>2. QED
      BY <2>1, <2>2, <3>1, StepSound
  <2>4. CASE MapFloating
    <3>1. PICK tl \in Toplevels, hide \in BOOLEAN, g2 \in Geoms :
            \E g \in Boxes(hide) : Step(SetPosition(Appear(W, tl, hide, g), tl, g2))
      BY <2>4 DEF MapFloating
    <3>2. QED
      BY <2>2, <3>1, StepSound
  <2>5. QED
    BY <1>8, <2>3, <2>4
<1>9. CASE MapTiled
  <2>1. PICK tl \in Toplevels, hide \in BOOLEAN, t \in FreeCells, g2 \in Geoms :
          /\ tops[tl].phase = "unmapped"
          /\ \E g \in Boxes(hide), layout \in Layouts(Tileable \cup {tl}) :
               LET w == Appear(W, tl, hide, g)
                   b == Batch(SetPosition(w, tl, g2), t, layout)
               IN /\ IF tl \in DOMAIN layout THEN g2 = layout[tl] ELSE ~hide
                  /\ \/ Step(b)
                     \/ tl \in DOMAIN layout /\ Step(Batch(w, t, layout))
                     \/ ~hide /\ \E g3 \in Geoms : Step(SetPosition(b, tl, g3))
    BY <1>9 DEF MapTiled
  <2> PICK g \in Boxes(hide), layout \in Layouts(Tileable \cup {tl}) :
            LET w == Appear(W, tl, hide, g)
                b == Batch(SetPosition(w, tl, g2), t, layout)
            IN \/ Step(b)
               \/ Step(Batch(w, t, layout))
               \/ \E g3 \in Geoms : Step(SetPosition(b, tl, g3))
    BY <2>1
  <2> DEFINE w == Appear(W, tl, hide, g)
             b == Batch(SetPosition(w, tl, g2), t, layout)
  <2>2. g \in Geoms /\ layout \in Layouts(Toplevels)
    BY <1>2, GeomsAssumption DEF Boxes
  <2>3. Sound(w, {}) /\ ~w.txns[t].live
    BY <1>3, <2>2, AppearSound
  <2> HIDE DEF w
  <2>4. Sound(SetPosition(w, tl, g2), {}) /\ ~SetPosition(w, tl, g2).txns[t].live
    BY <1>3, <2>3, SetPositionSound, SetPositionFree
  <2>5. Sound(b, {}) /\ Sound(Batch(w, t, layout), {})
    BY <1>3, <2>2, <2>3, <2>4, BatchSound
  <2>6. \/ Step(b)
        \/ Step(Batch(w, t, layout))
        \/ \E g3 \in Geoms : Step(SetPosition(b, tl, g3))
    BY DEF w
  <2> HIDE DEF b
  <2>7. \A g3 \in Geoms : Sound(SetPosition(b, tl, g3), {})
    BY <2>5, SetPositionSound
  <2>8. QED
    BY <2>5, <2>6, <2>7, StepSound
<1>10. CASE OutputChange
  <2>1. PICK S \in SUBSET Mapped \ {{}}, there \in BOOLEAN :
          Step([W EXCEPT !.tops = [tl \in Toplevels |->
                 IF tl \in S THEN [@[tl] EXCEPT !.homed = there] ELSE @[tl]]])
    BY <1>10 DEF OutputChange
  <2> DEFINE top(tl) == IF tl \in S THEN [W.tops[tl] EXCEPT !.homed = there]
                        ELSE W.tops[tl]
             v == [W EXCEPT !.tops = [tl \in Toplevels |-> top(tl)]]
  <2>2. ASSUME NEW tl \in Toplevels
        PROVE  top(tl) \in Toplevel /\ top(tl).in_transaction = W.tops[tl].in_transaction
    <3>1. W.tops[tl] \in Toplevel
      BY DEF World
    <3>2. QED
      BY <3>1 DEF Toplevel
  <2>3. Step(v)
    BY <2>1
  <2> HIDE DEF top
  <2>4. v \in World /\ v.txns = W.txns /\ v.active = W.active
        /\ v.tops = [tl \in Toplevels |-> top(tl)]
    BY <2>2 DEF World
  <2> HIDE DEF v
  <2>5. Sound(v, {})
    BY <2>2, <2>4, TopsSound
  <2>6. QED
    BY <2>3, <2>5, StepSound
<1>11. ASSUME NEW tl \in Toplevels, SurfaceCommit(tl)
       PROVE  Inv'
  BY <1>11, AnsweredSound, StepSound DEF SurfaceCommit
<1>12. ASSUME NEW tl \in Toplevels, Unmap(tl)
      PROVE  Inv'
  <2>1. Sound(Unlinked(Unmapping(tl), tl), {})
    BY UnmappingSound, UnlinkedSound
  <2>2. QED
    BY <1>12, <2>1, StepSound DEF Unmap
<1>13. ASSUME NEW tl \in Toplevels, UnmapGrabbed(tl)
       PROVE  Inv'
  <2> DEFINE w == Unmapping(tl)
  <2>1. Sound(w, {}) /\ \A t \in FreeCells : ~w.txns[t].live
    BY UnmappingSound
  <2>2. \/ \E g \in Geoms : Step(Unlinked(SetPosition(w, tl, g), tl))
        \/ \E t \in FreeCells, layout \in Layouts(Tileable) :
             Step(Unlinked(Batch(w, t, layout), tl))
    BY <1>13 DEF UnmapGrabbed
  <2> HIDE DEF w
  <2>3. ASSUME NEW g \in Geoms, Step(Unlinked(SetPosition(w, tl, g), tl))
        PROVE  Inv'
    <3>1. Sound(SetPosition(w, tl, g), {})
      BY <2>1, SetPositionSound
    <3>2. Sound(Unlinked(SetPosition(w, tl, g), tl), {})
      BY <3>1, UnlinkedSound
    <3>3. QED
      BY <2>3, <3>2, StepSound
  <2>4. ASSUME NEW t \in FreeCells, NEW layout \in Layouts(Tileable),
               Step(Unlinked(Batch(w, t, layout), tl))
        PROVE  Inv'
    <3>1. Sound(Batch(w, t, layout), {})
      BY <1>2, <1>3, <2>1, BatchSound
    <3>2. Sound(Unlinked(Batch(w, t, layout), tl), {})
      BY <3>1, UnlinkedSound
    <3>3. QED
      BY <2>4, <3>2, StepSound
  <2>5. QED
    BY <2>2, <2>3, <2>4
<1>14. ASSUME NEW tl \in Toplevels, Destroy(tl)
       PROVE  Inv'
  <2> DEFINE w == LeaveTransaction(W, tl)
             top == [NewToplevel EXCEPT !.phase = "freed"]
  <2>1. Sound(w, {})
    BY LeaveTransactionSound
  <2>2. top \in Toplevel /\ ~top.in_transaction
    BY GeomsAssumption DEF NewToplevel, Toplevel
  <2>3. Step([w EXCEPT !.tops[tl] = top])
    BY <1>14 DEF Destroy
  <2> HIDE DEF w, top
  <2>4. Sound([w EXCEPT !.tops[tl] = top], {})
    BY <2>1, <2>2, UpdateTopSound
  <2>5. QED
    BY <2>3, <2>4, StepSound
<1>15. ASSUME NEW t \in TxnId, Timeout(t)
       PROVE  Inv'
  BY <1>15, FinishSound, StepSound DEF Timeout
<1>16. ASSUME NEW tl \in Toplevels, MoveByHand(tl)
       PROVE  Inv'
  BY <1>16, ByHandSound, StepSound DEF MoveByHand
<1>17. ASSUME NEW tl \in Toplevels, DragOver(tl)
       PROVE  Inv'
  <2>1. PICK g \in Geoms :
          LET w == ByHand(W, tl, g, tops[tl].configured) IN
          \/ \E g2 \in Geoms : Step(SetPosition(w, tl, g2))
          \/ \E t \in FreeCells, layout \in Layouts(Tileable) :
               /\ tl \in DOMAIN layout
               /\ \/ Step(Batch(SetPosition(w, tl, layout[tl]), t, layout))
                  \/ Step(Batch(w, t, layout))
    BY <1>17, Zenon DEF DragOver
  <2> DEFINE w == ByHand(W, tl, g, tops[tl].configured)
  <2>2. tops[tl].configured \in Geoms
    BY DEF World, Toplevel
  <2>3. Sound(w, {}) /\ w.txns = W.txns
    BY <2>2, ByHandSound
  <2>4. \/ \E g2 \in Geoms : Step(SetPosition(w, tl, g2))
        \/ \E t \in FreeCells, layout \in Layouts(Tileable) :
             /\ tl \in DOMAIN layout
             /\ \/ Step(Batch(SetPosition(w, tl, layout[tl]), t, layout))
                \/ Step(Batch(w, t, layout))
    BY <2>1
  <2> HIDE DEF w
  <2>5. CASE \E g2 \in Geoms : Step(SetPosition(w, tl, g2))
    BY <2>3, <2>5, SetPositionSound, StepSound
  <2>6. ASSUME NEW t \in FreeCells, NEW layout \in Layouts(Tileable), tl \in DOMAIN layout,
               \/ Step(Batch(SetPosition(w, tl, layout[tl]), t, layout))
               \/ Step(Batch(w, t, layout))
        PROVE  Inv'
    <3>1. layout[tl] \in Geoms /\ layout \in Layouts(Toplevels)
      BY <1>2, <2>6 DEF Layouts
    <3>2. /\ Sound(SetPosition(w, tl, layout[tl]), {})
          /\ ~SetPosition(w, tl, layout[tl]).txns[t].live
      BY <1>3, <2>3, <3>1, SetPositionSound, SetPositionFree
    <3>3. /\ Sound(Batch(SetPosition(w, tl, layout[tl]), t, layout), {})
          /\ Sound(Batch(w, t, layout), {})
      BY <1>3, <2>3, <3>1, <3>2, BatchSound
    <3>4. QED
      BY <2>6, <3>3, StepSound
  <2>7. QED
    BY <2>4, <2>5, <2>6
<1>18. ASSUME NEW tl \in Toplevels, XSurfaceCommit(tl)
       PROVE  Inv'
  <2> DEFINE w == Answered(tl)
             v(g) == [w EXCEPT !.tops[tl].geometry = g]
  <2>1. PICK g \in Geoms : Step(SetPosition(v(g), tl, g))
    BY <1>18 DEF XSurfaceCommit
  <2>2. Sound(w, {})
    BY AnsweredSound
  <2> HIDE DEF w
  <2>3. v(g) = ByHand(w, tl, g, w.tops[tl].configured) /\ w.tops[tl].configured \in Geoms
    <3>1. w \in World /\ w.tops[tl] \in Toplevel
      BY <2>2 DEF Sound, Typed, World
    <3>2. QED
      BY <3>1 DEF ByHand, World, Toplevel
  <2>4. Sound(v(g), {})
    BY <2>2, <2>3, ByHandSound
  <2> HIDE DEF v
  <2>5. QED
    BY <2>1, <2>4, SetPositionSound, StepSound
<1>19. CASE UNCHANGED vars
  BY <1>19 DEF Inv, Sound, Typed, PendingBut, CoveredBut, W, vars
<1>20. QED
  BY <1>4, <1>5, <1>6, <1>7, <1>8, <1>9, <1>10, <1>11, <1>12, <1>13, <1>14, <1>15, <1>16,
     <1>17, <1>18, <1>19 DEF Next

LEMMA AlwaysInv == Spec => []Inv
  BY InitInv, NextInv, PTL DEF Spec

\* Type correctness: a cell that holds no transaction keeps nothing of the last
\* one (~Transaction, Transaction.cpp:287).
THEOREM TypeCorrect == Spec => []TypeOK
<1>1. Inv => TypeOK
  BY DEF Inv, Sound, Typed, TypeOK, W
<1>2. QED
  BY <1>1, AlwaysInv, PTL

\* Whatever begins, ends and unmaps in whatever order, no handler returns with a
\* transaction that is uncommitted, empty or without a timer.
THEOREM NoTransactionLeaks == Spec => []EveryTransactionPending
<1>1. Inv => EveryTransactionPending
  BY DEF Inv, Sound, Typed, PendingBut, EveryTransactionPending, World, W, Live
<1>2. QED
  BY <1>1, AlwaysInv, PTL

\* A toplevel marked in_transaction is a member of a live transaction.
THEOREM MarkedAreCovered == Spec => []InTransactionCovered
<1>1. Inv => InTransactionCovered
  BY DEF Inv, Sound, CoveredBut, InTransactionCovered, W, Live
<1>2. QED
  BY <1>1, AlwaysInv, PTL

-----------------------------------------------------------------------------
(* What a handler does to the windows and to the transactions it does not  *)
(* end: a layout is applied as a whole, the last answer ends it, and it    *)
(* does not keep a window that is freed.                                   *)

\* The current transaction has been alone since it began.
Exclusive(w) == w.active # None /\ ~w.txns[w.active].overlapped

\* No other transaction is alive beside one that has been alone.
Alone(w) == Exclusive(w) => \A u \in TxnId : w.txns[u].live => u = w.active

\* Its members are marked, but those that joined it after its commit.
Marked(w) ==
  Exclusive(w) => \A tl \in Toplevels :
    w.txns[w.active].entries[tl] # None =>
      tl \in w.txns[w.active].late \/ w.tops[tl].in_transaction

\* A freed toplevel has no mark.
FreedUnmarked(w) ==
  \A tl \in Toplevels : w.tops[tl].phase = "freed" => ~w.tops[tl].in_transaction

\* The inductive strengthening of FreedHasLeft.
Loyal(w) == Alone(w) /\ Marked(w) /\ FreedUnmarked(w)

-----------------------------------------------------------------------------
(* Effects *)

\* The transactions that end on the way from w to v.
Gone(w, v) == {t \in TxnId : w.txns[t].live /\ ~v.txns[t].live}

\* The toplevel stays on its workspace.
Homed(w, tl) == w.tops[tl].phase = "mapped" /\ w.tops[tl].homed

\* The toplevel is where it was, as visible and as mapped as it was.
Unmoved(w, v, tl) ==
  /\ v.tops[tl].geometry = w.tops[tl].geometry
  /\ v.tops[tl].hidden = w.tops[tl].hidden
  /\ v.tops[tl].phase = w.tops[tl].phase
  /\ v.tops[tl].homed = w.tops[tl].homed

\* A transaction that ends gives the toplevel its box, if it can have it.
Given(w, v, t, tl) ==
  w.txns[t].entries[tl] # None /\ Homed(w, tl) =>
    v.tops[tl].geometry = w.txns[t].entries[tl] /\ ~v.tops[tl].hidden

\* A transaction that waited and is still alive waits; one that is not current
\* waits for the same toplevels.
StillWaits(w, v, t) ==
  /\ v.txns[t].waiting = {} => w.txns[t].waiting = {}
  /\ t # w.active => v.txns[t].waiting = w.txns[t].waiting

\* No transaction but those of T begins, ends or is answered, and no toplevel but
\* those of S is touched.
Quiet(w, v, T, S) ==
  /\ \A t \in TxnId \ T :
       v.txns[t].live = w.txns[t].live /\ v.txns[t].waiting = w.txns[t].waiting
  /\ \A tl \in Toplevels \ S : Unmoved(w, v, tl)

\* What a handler does to all transactions but those of T, which it begins, and all
\* toplevels but those of S.
Handled(w, v, T, S) ==
  /\ \A t \in TxnId \ T : v.txns[t].live => w.txns[t].live /\ StillWaits(w, v, t)
  /\ \A t \in Gone(w, v) \ T, tl \in Toplevels \ S : Given(w, v, t, tl)
  /\ Gone(w, v) \ T = {} => \A tl \in Toplevels \ S :
       v.tops[tl].geometry = w.tops[tl].geometry

\* One transaction at most ends, and nothing else happens, but to the toplevels of S.
Ending(w, v, S) ==
  /\ Handled(w, v, {}, S)
  /\ \A tl \in Toplevels \ S : /\ v.tops[tl].phase = w.tops[tl].phase
                               /\ v.tops[tl].homed = w.tops[tl].homed

\* The current transaction alone ends, and waits for nobody but one toplevel of A.
Early(w, v, A) ==
  \A t \in Gone(w, v) :
    t = w.active /\ \E tl \in A : w.txns[t].waiting \subseteq {tl}

\* LastAnswerEnds of a transaction that does not end in a step from w to v.
Responded(w, v) ==
  \A t \in TxnId : w.txns[t].live /\ v.txns[t].live => StillWaits(w, v, t)

\* AtomicLayout of the step: who ends gives, and where nothing ends nobody moves, but
\* for the toplevels of M.
Applied(w, v, M) ==
  \A t \in Gone(w, v), tl \in Toplevels \ M :
    Homed(w, tl) /\ Homed(v, tl) => Given(w, v, t, tl)

Still(w, v, M) ==
  w.active # None /\ Gone(w, v) = {} => \A tl \in Toplevels \ M :
    Homed(w, tl) /\ Homed(v, tl) => v.tops[tl].geometry = w.tops[tl].geometry

Whole(w, v, M) == Responded(w, v) /\ Applied(w, v, M) /\ Still(w, v, M)

LEMMA QuietHandled ==
  ASSUME NEW w, NEW v, NEW T, NEW S, Quiet(w, v, T, S)
  PROVE  Handled(w, v, T, S)
BY DEF Quiet, Handled, Gone, StillWaits, Unmoved

\* What is quiet after the end of a transaction takes nothing of it back.
LEMMA EndingThenQuiet ==
  ASSUME NEW w, NEW v, NEW z, NEW T, NEW S, Ending(w, v, S), Quiet(v, z, T, S),
         \A t \in T : ~w.txns[t].live
  PROVE  Handled(w, z, T, S)
<1>1. \A t \in TxnId \ T : z.txns[t].live => w.txns[t].live /\ StillWaits(w, z, t)
  BY DEF Ending, Handled, Quiet, StillWaits
<1>2. Gone(w, z) \ T = Gone(w, v) \ T
  BY DEF Quiet, Gone
<1>3. \A t \in Gone(w, z) \ T, tl \in Toplevels \ S : Given(w, z, t, tl)
  BY <1>2 DEF Ending, Handled, Quiet, Unmoved, Given
<1>4. ASSUME Gone(w, z) \ T = {}, NEW tl \in Toplevels \ S
      PROVE  z.tops[tl].geometry = w.tops[tl].geometry
  <2>1. Gone(w, v) \ {} = {}
    BY <1>2, <1>4 DEF Gone
  <2>2. QED
    BY <2>1 DEF Ending, Handled, Quiet, Unmoved
<1>5. QED
  BY <1>1, <1>3, <1>4 DEF Handled

LEMMA QuietTwice ==
  ASSUME NEW w, NEW v, NEW z, NEW T, NEW S, Quiet(w, v, T, S), Quiet(v, z, T, S)
  PROVE  Quiet(w, z, T, S)
BY DEF Quiet, Unmoved

\* What is quiet after the end of a transaction ends no other.
LEMMA EarlyThenQuiet ==
  ASSUME NEW w, NEW v, NEW z, NEW T, NEW S, NEW A, Early(w, v, A), Quiet(v, z, T, S),
         \A t \in T : ~w.txns[t].live
  PROVE  Early(w, z, A)
BY DEF Early, Quiet, Gone

LEMMA QuietEarly ==
  ASSUME NEW w, NEW v, NEW T, NEW S, NEW A, Quiet(w, v, T, S),
         \A t \in T : ~w.txns[t].live
  PROVE  Early(w, v, A)
BY DEF Early, Quiet, Gone

LEMMA EndingMore ==
  ASSUME NEW w, NEW v, NEW S, NEW S2, Ending(w, v, S), S \subseteq S2
  PROVE  Ending(w, v, S2)
BY DEF Ending, Handled

\* A handler that begins its transactions in free cells, and moves nobody it
\* should not but the toplevels of M, is whole.
LEMMA HandledWhole ==
  ASSUME NEW w, NEW v, NEW T, NEW S, NEW M, Handled(w, v, T, S),
         \A t \in T : ~w.txns[t].live,
         \A tl \in S \ M : ~Homed(w, tl) \/ ~Homed(v, tl)
  PROVE  Whole(w, v, M)
<1>1. Gone(w, v) \ T = Gone(w, v)
  BY DEF Gone
<1>2. QED
  BY <1>1 DEF Handled, Whole, Responded, Applied, Still

\* Without a current transaction toplevels may be moved one by one.
LEMMA QuietWhole ==
  ASSUME NEW w, NEW v, NEW T, NEW S, Quiet(w, v, T, S), w.active = None,
         \A t \in T : ~w.txns[t].live
  PROVE  Whole(w, v, {})
<1>1. Gone(w, v) = {}
  BY DEF Gone, Quiet
<1>2. QED
  BY <1>1 DEF Quiet, Whole, Responded, Applied, Still, StillWaits

-----------------------------------------------------------------------------
(* The end of a transaction *)

\* apply(), toplevel by toplevel.
LEMMA ApplyTops ==
  ASSUME NEW w \in World, NEW t \in TxnId, NEW tl \in Toplevels
  PROVE  /\ Apply(w, t).tops[tl].phase = w.tops[tl].phase
         /\ Apply(w, t).tops[tl].homed = w.tops[tl].homed
         /\ w.txns[t].entries[tl] = None => Apply(w, t).tops[tl] = w.tops[tl]
         /\ Given(w, Apply(w, t), t, tl)
<1> DEFINE x == w.txns[t]
           top == IF tl \in Movable(w, x) THEN Moved(w.tops[tl], x.entries[tl])
                  ELSE IF tl \in Members(x)
                       THEN [w.tops[tl] EXCEPT !.in_transaction = FALSE]
                       ELSE w.tops[tl]
<1>1. w.tops[tl] \in Toplevel
  BY DEF World
<1>2. Apply(w, t).tops[tl] = top
  BY DEF Apply, World
<1>3. /\ top.phase = w.tops[tl].phase
      /\ top.homed = w.tops[tl].homed
      /\ x.entries[tl] = None => top = w.tops[tl]
  BY <1>1 DEF Toplevel, Moved, Movable, Members
<1>4. ASSUME x.entries[tl] # None, Homed(w, tl)
      PROVE  top.geometry = x.entries[tl] /\ ~top.hidden
  <2>1. tl \in Movable(w, x)
    BY <1>4 DEF Movable, Members, Homed
  <2>2. top = Moved(w.tops[tl], x.entries[tl])
    BY <2>1
  <2>3. QED
    BY <1>1, <2>2 DEF Moved, Toplevel
<1> HIDE DEF top
<1>5. QED
  BY <1>2, <1>3, <1>4 DEF Given

LEMMA FinishTops ==
  ASSUME NEW w \in World, NEW t \in TxnId, NEW tl \in Toplevels
  PROVE  /\ Finish(w, t).tops[tl].phase = w.tops[tl].phase
         /\ Finish(w, t).tops[tl].homed = w.tops[tl].homed
         /\ w.txns[t].entries[tl] = None => Finish(w, t).tops[tl] = w.tops[tl]
         /\ Given(w, Finish(w, t), t, tl)
<1> DEFINE w1 == [w EXCEPT !.active = IF @ = t THEN None ELSE @]
<1>1. w1 \in World /\ w1.txns = w.txns /\ w1.tops = w.tops
  BY DEF World
<1>2. Finish(w, t) = Delete(Apply(w1, t), t)
  BY DEF Finish
<1> HIDE DEF w1
<1>3. Finish(w, t).tops = Apply(w1, t).tops
  BY <1>1, <1>2, ApplyFields, DeleteFields
<1>4. QED
  BY <1>1, <1>3, ApplyTops DEF Given, Homed

\* What a transaction keeps when another's timer leaves the order.
LEMMA UnorderedKeeps ==
  ASSUME NEW x \in Txn, NEW t
  PROVE  /\ Unordered(x, t).waiting = x.waiting
         /\ Unordered(x, t).late = x.late
         /\ Unordered(x, t).overlapped = x.overlapped
BY DEF Unordered, Txn

\* The transaction that ends is gone, the others stay, and its members are given
\* their boxes.
LEMMA FinishEnding ==
  ASSUME NEW w \in World, NEW t \in TxnId, w.txns[t].live, NEW S
  PROVE  Ending(w, Finish(w, t), S) /\ Gone(w, Finish(w, t)) = {t}
<1> DEFINE f == Finish(w, t)
<1>1. /\ f.txns[t] = FreeTxn
      /\ \A u \in TxnId \ {t} : f.txns[u] = Unordered(w.txns[u], t)
  BY FinishFields
<1>2. \A tl \in Toplevels :
        /\ f.tops[tl].phase = w.tops[tl].phase
        /\ f.tops[tl].homed = w.tops[tl].homed
        /\ Given(w, f, t, tl)
  BY FinishTops
<1> HIDE DEF f
<1>3. \A u \in TxnId \ {t} :
        f.txns[u].live = w.txns[u].live /\ f.txns[u].waiting = w.txns[u].waiting
  BY <1>1, UnorderedFields, UnorderedKeeps DEF World
<1>4. ~f.txns[t].live
  BY <1>1, FreeTxnType
<1>5. Gone(w, f) = {t}
  BY <1>3, <1>4 DEF Gone
<1>6. Handled(w, f, {}, S)
  BY <1>2, <1>3, <1>4, <1>5 DEF Handled, StillWaits
<1>7. QED
  BY <1>2, <1>5, <1>6 DEF Ending, f

\* The end of the current transaction leaves none; the end of another is that of one
\* that was alive beside it.
LEMMA FinishLoyal ==
  ASSUME NEW w, NEW S, Sound(w, S), Loyal(w), NEW t \in TxnId, w.txns[t].live
  PROVE  Loyal(Finish(w, t))
<1> DEFINE f == Finish(w, t)
<1>1. w \in World
  BY DEF Sound, Typed
<1>2. /\ f \in World
      /\ f.active = IF w.active = t THEN None ELSE w.active
      /\ \A u \in TxnId \ {t} : f.txns[u] = Unordered(w.txns[u], t)
      /\ \A tl \in Toplevels : f.tops[tl].in_transaction => w.tops[tl].in_transaction
  BY <1>1, FinishFields
<1>3. \A tl \in Toplevels : f.tops[tl].phase = w.tops[tl].phase
  BY <1>1, FinishTops
<1> HIDE DEF f
<1>4. ~Exclusive(f)
  <2>1. CASE w.active \in {t, None}
    BY <1>2, <2>1 DEF Exclusive
  <2>2. CASE w.active \notin {t, None}
    <3>1. w.active \in TxnId \ {t} /\ f.active = w.active
      BY <1>1, <1>2, <2>2 DEF World
    <3>2. w.txns[w.active].overlapped
      BY <2>2 DEF Loyal, Alone, Exclusive
    <3>3. f.txns[w.active].overlapped = w.txns[w.active].overlapped
      BY <1>1, <1>2, <3>1, UnorderedKeeps DEF World
    <3>4. QED
      BY <3>1, <3>2, <3>3 DEF Exclusive
  <2>3. QED
    BY <2>1, <2>2
<1>5. FreedUnmarked(f)
  BY <1>2, <1>3 DEF Loyal, FreedUnmarked
<1>6. QED
  BY <1>4, <1>5 DEF Loyal, Alone, Marked, f

-----------------------------------------------------------------------------
(* Answers and departures *)

\* A transaction loses awaited toplevels, and entries of S: it goes on or ends.
LEMMA TrimEnding ==
  ASSUME NEW w \in World, NEW S, NEW t \in TxnId, w.txns[t].live, t = w.active,
         NEW x \in Txn, x.live,
         \A tl \in Toplevels \ S : x.entries[tl] = w.txns[t].entries[tl]
  PROVE  LET v == [w EXCEPT !.txns[t] = x]
         IN /\ x.waiting # {} \/ w.txns[t].waiting = {} => Ending(w, v, S)
            /\ Gone(w, v) = {}
            /\ Ending(w, Finish(v, t), S)
            /\ Gone(w, Finish(v, t)) = {t}
<1> DEFINE v == [w EXCEPT !.txns[t] = x]
           f == Finish(v, t)
<1>1. /\ v \in World /\ v.tops = w.tops /\ v.active = w.active
      /\ v.txns[t] = x
      /\ \A u \in TxnId \ {t} : v.txns[u] = w.txns[u]
  BY UpdateTxn
<1> HIDE DEF v
<1>0. Gone(w, v) = {}
  BY <1>1 DEF Gone
<1>2. ASSUME x.waiting # {} \/ w.txns[t].waiting = {}
      PROVE  Ending(w, v, S)
  BY <1>0, <1>1, <1>2 DEF Ending, Handled, StillWaits
<1>3. Ending(v, f, S) /\ Gone(v, f) = {t}
  BY <1>1, FinishEnding
<1> HIDE DEF f
<1>4. f.txns[t] = FreeTxn
  BY <1>1, FinishFields DEF f
<1>5. Gone(w, f) = Gone(v, f)
  BY <1>1 DEF Gone
<1>6. \A u \in Gone(w, f), tl \in Toplevels \ S : Given(w, f, u, tl)
  BY <1>1, <1>3, <1>5 DEF Ending, Handled, Given, Homed, Gone
<1>7. \A u \in TxnId : f.txns[u].live => w.txns[u].live /\ StillWaits(w, f, u)
  BY <1>1, <1>3, <1>4, FreeTxnType DEF Ending, Handled, StillWaits
<1>8. Handled(w, f, {}, S)
  BY <1>1, <1>3, <1>5, <1>6, <1>7 DEF Ending, Handled
<1>9. Ending(w, f, S)
  BY <1>1, <1>3, <1>8 DEF Ending
<1>10. QED
  BY <1>0, <1>2, <1>3, <1>5, <1>9 DEF v, f

LEMMA TrimLoyal ==
  ASSUME NEW w \in World, Loyal(w), NEW t \in TxnId, w.txns[t].live,
         NEW x \in Txn, x.live,
         x.late = w.txns[t].late, x.overlapped = w.txns[t].overlapped,
         \A tl \in Toplevels : x.entries[tl] # None => w.txns[t].entries[tl] # None
  PROVE  Loyal([w EXCEPT !.txns[t] = x])
<1> DEFINE v == [w EXCEPT !.txns[t] = x]
<1>1. /\ v \in World /\ v.tops = w.tops /\ v.active = w.active
      /\ v.txns[t] = x
      /\ \A u \in TxnId \ {t} : v.txns[u] = w.txns[u]
  BY UpdateTxn
<1> HIDE DEF v
<1>2. v.active # None => v.active \in TxnId
  BY <1>1 DEF World
<1>3. Exclusive(v) => Exclusive(w)
  BY <1>1, <1>2 DEF Exclusive
<1>4. Alone(v)
  BY <1>1, <1>3 DEF Loyal, Alone
<1>5. Marked(v)
  BY <1>1, <1>2, <1>3 DEF Loyal, Marked, Exclusive
<1>6. FreedUnmarked(v)
  BY <1>1 DEF Loyal, FreedUnmarked
<1>7. QED
  BY <1>4, <1>5, <1>6 DEF Loyal, v

LEMMA SameEnding ==
  ASSUME NEW w, NEW S, NEW A
  PROVE  Ending(w, w, S) /\ Early(w, w, A)
BY DEF Ending, Handled, Early, Gone, StillWaits

\* handle_commit: the last answer ends the transaction.
LEMMA HandleCommitEffect ==
  ASSUME NEW w, Sound(w, {}), Loyal(w), NEW tl, w.active # None
  PROVE  /\ Ending(w, HandleCommit(w, w.active, tl), {})
         /\ Early(w, HandleCommit(w, w.active, tl), {tl})
         /\ Loyal(HandleCommit(w, w.active, tl))
<1> DEFINE t == w.active
           x == [w.txns[t] EXCEPT !.waiting = @ \ {tl}]
           w1 == [w EXCEPT !.txns[t] = x]
<1>1. w \in World /\ t \in TxnId /\ w.txns[t] \in Txn
  BY DEF Sound, Typed, World
<1>2. w.txns[t].live /\ w.txns[t].committed /\ w.txns[t].armed /\ ~Empty(w.txns[t])
  BY <1>1 DEF Sound, PendingBut
<1>3. /\ x \in Txn /\ x.live /\ x.committed /\ x.armed
      /\ x.entries = w.txns[t].entries /\ x.holes = w.txns[t].holes
      /\ x.late = w.txns[t].late /\ x.overlapped = w.txns[t].overlapped
      /\ x.waiting = w.txns[t].waiting \ {tl}
  BY <1>1, <1>2 DEF Txn
<1>4. ~Empty(x)
  BY <1>2, <1>3 DEF Empty, Members
<1>5. \/ HandleCommit(w, t, tl) = w
      \/ HandleCommit(w, t, tl) = w1 /\ x.waiting # {}
      \/ HandleCommit(w, t, tl) = Finish(w1, t) /\ x.waiting = {}
  <2>1. w1 = [w EXCEPT !.txns[t].waiting = @ \ {tl}]
    BY <1>1 DEF World, Txn
  <2>2. w1.txns[t] = x
    BY <1>1 DEF World
  <2> HIDE DEF x
  <2>3. QED
    BY <2>1, <2>2 DEF HandleCommit
<1> HIDE DEF x
<1>6. /\ w1 \in World /\ w1.txns[t].live
  BY <1>1, <1>3, UpdateTxn
<1>7. Sound(w1, {})
  <2>1. \A u \in Toplevels : w.txns[t].entries[u] # None => x.entries[u] # None
    BY <1>3
  <2>2. {} \subseteq {}
    OBVIOUS
  <2> HIDE DEF t
  <2>3. QED
    BY <1>1, <1>2, <1>3, <1>4, <2>1, <2>2, UpdateTxnSound, SMTT(30)
<1>8. Loyal(w1)
  BY <1>1, <1>2, <1>3, TrimLoyal
<1>9. Loyal(Finish(w1, t))
  BY <1>1, <1>6, <1>7, <1>8, FinishLoyal
<1>10. /\ x.waiting # {} => Ending(w, w1, {})
       /\ Ending(w, Finish(w1, t), {})
       /\ Gone(w, w1) = {} /\ Gone(w, Finish(w1, t)) = {t}
  <2>1. /\ t \in TxnId /\ x \in Txn
        /\ \A u \in Toplevels \ {} : x.entries[u] = w.txns[t].entries[u]
    BY <1>1, <1>3
  <2>2. QED
    BY <1>1, <1>2, <1>3, <2>1, TrimEnding
<1>11. /\ Early(w, w1, {tl})
       /\ x.waiting = {} => Early(w, Finish(w1, t), {tl})
  BY <1>3, <1>10 DEF Early
<1>12. QED
  BY <1>5, <1>8, <1>9, <1>10, <1>11, SameEnding

\* remove_toplevel: the current transaction has no entry of it any more.
LEMMA RemoveToplevelEffect ==
  ASSUME NEW w, Sound(w, {}), Loyal(w), NEW tl \in Toplevels
  PROVE  LET r == RemoveToplevel(w, tl)
         IN /\ Ending(w, r, {tl})
            /\ Early(w, r, {tl})
            /\ Loyal(r)
            /\ r.active # None => r.txns[r.active].entries[tl] = None
            /\ \A u \in Toplevels : r.tops[u].phase = w.tops[u].phase
<1>1. CASE w.active = None
  BY <1>1, SameEnding DEF RemoveToplevel
<1>2. CASE w.active # None
  <2> DEFINE t == w.active
             x == Without(w.txns[t], tl)
             w1 == [w EXCEPT !.txns[t] = x]
             f == Finish(w1, t)
             r == RemoveToplevel(w, tl)
  <2>1. w \in World /\ t \in TxnId /\ w.txns[t] \in Txn
    BY <1>2 DEF Sound, Typed, World
  <2>2. w.txns[t].live /\ w.txns[t].committed /\ w.txns[t].armed /\ ~Empty(w.txns[t])
    BY <1>2, <2>1 DEF Sound, PendingBut
  <2>3. /\ x \in Txn /\ x.live /\ x.committed /\ x.armed /\ ~Empty(x)
        /\ \A u \in Toplevels \ {tl} : x.entries[u] = w.txns[t].entries[u]
    BY <2>1, <2>2, WithoutFields
  <2>4. /\ x.late = w.txns[t].late /\ x.overlapped = w.txns[t].overlapped
        /\ x.waiting = w.txns[t].waiting \ {tl}
        /\ x.entries[tl] = None
    BY <2>1 DEF Without, Txn
  <2> HIDE DEF x
  <2>5. (r = f /\ x.waiting = {}) \/ (r = w1 /\ x.waiting # {})
    BY <1>2, <2>3 DEF RemoveToplevel, x
  <2>6. /\ w1 \in World /\ w1.txns[t] = x
        /\ w1.active = t /\ w1.tops = w.tops
    BY <2>1, <2>3, UpdateTxn
  <2>7. /\ x.waiting # {} => Ending(w, w1, {tl})
        /\ Ending(w, f, {tl})
        /\ Gone(w, w1) = {} /\ Gone(w, f) = {t}
    BY <2>1, <2>2, <2>3, TrimEnding
  <2>8. Loyal(w1)
    <3>1. \A u \in Toplevels : x.entries[u] # None => w.txns[t].entries[u] # None
      BY <2>3, <2>4
    <3> HIDE DEF t
    <3>2. QED
      BY <2>1, <2>2, <2>3, <2>4, <3>1, TrimLoyal
  <2>9. Sound(w1, {tl})
    <3>1. \A u \in Toplevels \ {tl} : w.txns[t].entries[u] # None => x.entries[u] # None
      BY <2>3
    <3>2. {} \subseteq {tl}
      OBVIOUS
    <3> HIDE DEF t
    <3>3. QED
      BY <2>1, <2>2, <2>3, <3>1, <3>2, UpdateTxnSound
  <2>10. Loyal(f)
    BY <2>1, <2>3, <2>6, <2>8, <2>9, FinishLoyal
  <2> HIDE DEF w1
  <2>11. f.active = None /\ \A u \in Toplevels : f.tops[u].phase = w.tops[u].phase
    BY <2>1, <2>6, FinishFields, FinishTops
  <2> HIDE DEF f, r
  <2>12. Early(w, r, {tl})
    BY <2>4, <2>5, <2>7 DEF Early
  <2>13. QED
    BY <2>4, <2>5, <2>6, <2>7, <2>8, <2>10, <2>11, <2>12 DEF r
<1>3. QED
  BY <1>1, <1>2

\* Only toplevels change: no phase becomes "freed" and no mark is lost but by
\* toplevels of S that the current transaction has no entry of.
LEMMA TopsLoyal ==
  ASSUME NEW w, Loyal(w), NEW v, v.txns = w.txns, v.active = w.active,
         \A tl \in Toplevels :
           /\ v.tops[tl].phase = "freed" => ~v.tops[tl].in_transaction
           /\ \/ w.tops[tl].in_transaction => v.tops[tl].in_transaction
              \/ w.active # None => w.txns[w.active].entries[tl] = None
  PROVE  Loyal(v)
BY DEF Loyal, Alone, Marked, FreedUnmarked, Exclusive

\* The toplevel that leaves its transaction leaves with its mark.
LEMMA LeaveTransactionEffect ==
  ASSUME NEW w, Sound(w, {}), Loyal(w), NEW tl \in Toplevels
  PROVE  LET v == LeaveTransaction(w, tl)
         IN /\ Ending(w, v, {tl})
            /\ Early(w, v, {tl})
            /\ Loyal(v)
            /\ ~v.tops[tl].in_transaction
            /\ \A u \in Toplevels : v.tops[u].phase = w.tops[u].phase
<1>1. CASE ~w.tops[tl].in_transaction
  BY <1>1, SameEnding DEF LeaveTransaction
<1>2. CASE w.tops[tl].in_transaction
  <2> DEFINE r == RemoveToplevel(w, tl)
             v == [r EXCEPT !.tops[tl].in_transaction = FALSE]
  <2>1. Sound(r, {} \cup {tl})
    BY RemoveToplevelSound
  <2>2. r \in World
    BY <2>1 DEF Sound, Typed
  <2>3. /\ Ending(w, r, {tl})
        /\ Early(w, r, {tl})
        /\ Loyal(r)
        /\ r.active # None => r.txns[r.active].entries[tl] = None
        /\ \A u \in Toplevels : r.tops[u].phase = w.tops[u].phase
    BY RemoveToplevelEffect
  <2>4. LeaveTransaction(w, tl) = v
    BY <1>2 DEF LeaveTransaction
  <2> HIDE DEF r
  <2>5. /\ v.txns = r.txns /\ v.active = r.active
        /\ \A u \in Toplevels \ {tl} : v.tops[u] = r.tops[u]
        /\ v.tops[tl].phase = r.tops[tl].phase
        /\ ~v.tops[tl].in_transaction
    BY <2>2 DEF World, Toplevel
  <2> HIDE DEF v
  <2>6. Loyal(v)
    <3>1. \A u \in Toplevels :
            /\ v.tops[u].phase = "freed" => ~v.tops[u].in_transaction
            /\ \/ r.tops[u].in_transaction => v.tops[u].in_transaction
               \/ r.active # None => r.txns[r.active].entries[u] = None
      BY <2>3, <2>5 DEF Loyal, FreedUnmarked
    <3>2. QED
      BY <2>3, <2>5, <3>1, TopsLoyal
  <2>7. Ending(w, v, {tl}) /\ Early(w, v, {tl})
    BY <2>3, <2>5 DEF Ending, Handled, Early, Gone, StillWaits, Given
  <2>8. QED
    BY <2>3, <2>4, <2>5, <2>6, <2>7
<1>3. QED
  BY <1>1, <1>2

-----------------------------------------------------------------------------
(* Moves and layouts *)

\* add_change: a toplevel that joins a committed transaction joins late.
LEMMA AddChangeEffect ==
  ASSUME NEW w, Sound(w, {}), Loyal(w), w.active # None,
         NEW tl \in Toplevels, NEW g \in Geoms
  PROVE  LET v == AddChange(w, w.active, tl, g)
         IN Loyal(v) /\ Quiet(w, v, {}, {}) /\ v.active = w.active
<1> DEFINE t == w.active
           e == w.txns[t]
           x == [e EXCEPT !.entries[tl] = g,
                          !.late = IF e.committed /\ e.entries[tl] = None
                                   THEN @ \cup {tl} ELSE @]
           v == [w EXCEPT !.txns[t] = x]
<1>1. w \in World /\ t \in TxnId /\ e \in Txn
  BY DEF Sound, Typed, World
<1>2. e.committed
  BY <1>1 DEF Sound, PendingBut
<1>3. /\ x \in Txn /\ x.live = e.live /\ x.waiting = e.waiting
      /\ x.overlapped = e.overlapped
      /\ x.entries = [e.entries EXCEPT ![tl] = g]
      /\ x.late = IF e.entries[tl] = None THEN e.late \cup {tl} ELSE e.late
  BY <1>1, <1>2 DEF Txn
<1>4. AddChange(w, t, tl, g) = v
  BY DEF AddChange
<1>5. \A u \in Toplevels : x.entries[u] # None =>
        e.entries[u] # None \/ u \in x.late
  BY <1>1, <1>3 DEF Txn
<1>6. e.late \subseteq x.late
  BY <1>3, SMTT(30)
<1> HIDE DEF x
<1>7. /\ v \in World /\ v.tops = w.tops /\ v.active = t
      /\ v.txns[t] = x
      /\ \A u \in TxnId \ {t} : v.txns[u] = w.txns[u]
  BY <1>1, <1>3, UpdateTxn
<1> HIDE DEF v
<1>8. Quiet(w, v, {}, {})
  BY <1>3, <1>7 DEF Quiet, Unmoved
<1>9. Exclusive(v) => Exclusive(w)
  BY <1>3, <1>7 DEF Exclusive
<1>10. Alone(v)
  BY <1>3, <1>7, <1>9 DEF Loyal, Alone
<1>11. Marked(v)
  BY <1>5, <1>6, <1>7, <1>9 DEF Loyal, Marked
<1>12. FreedUnmarked(v)
  BY <1>7 DEF Loyal, FreedUnmarked
<1>13. QED
  BY <1>4, <1>7, <1>8, <1>10, <1>11, <1>12 DEF Loyal

\* set_position_size moves its toplevel at once only if there is no transaction.
LEMMA SetPositionEffect ==
  ASSUME NEW w, Sound(w, {}), Loyal(w), NEW tl \in Toplevels, NEW g \in Geoms
  PROVE  LET v == SetPosition(w, tl, g)
         IN /\ Loyal(v)
            /\ Quiet(w, v, {}, {tl})
            /\ w.active # None => Quiet(w, v, {}, {})
            /\ v.active = w.active
            /\ \A u \in Toplevels : v.tops[u].phase = w.tops[u].phase
<1>1. CASE w.active # None
  <2> DEFINE v == SetPosition(w, tl, g)
  <2>1. Loyal(v) /\ Quiet(w, v, {}, {}) /\ v.active = w.active
    BY <1>1, AddChangeEffect DEF SetPosition
  <2> HIDE DEF v
  <2>2. QED
    BY <1>1, <2>1 DEF Quiet, Unmoved, v
<1>2. CASE w.active = None
  <2> DEFINE top == Place(w.tops[tl], Clamped(g))
             v == [w EXCEPT !.tops[tl] = top]
  <2>1. w \in World /\ w.tops[tl] \in Toplevel
    BY DEF Sound, Typed, World
  <2>2. SetPosition(w, tl, g) \in {w, v}
    BY <1>2 DEF SetPosition
  <2>3. Clamped(g) \in Geoms
    BY GeomsAssumption DEF Clamped
  <2>4. /\ top \in Toplevel
        /\ top.in_transaction = w.tops[tl].in_transaction
        /\ top.phase = w.tops[tl].phase
    BY <2>1, <2>3 DEF Place, Toplevel
  <2> HIDE DEF top
  <2>5. /\ v.active = w.active /\ v.txns = w.txns
        /\ v.tops[tl] = top
        /\ \A u \in Toplevels \ {tl} : v.tops[u] = w.tops[u]
    BY <2>1, <2>4, UpdateTop, ZenonT(60)
  <2> HIDE DEF v
  <2>6. Loyal(v)
    <3>1. \A u \in Toplevels :
            /\ v.tops[u].phase = w.tops[u].phase
            /\ v.tops[u].in_transaction = w.tops[u].in_transaction
      BY <2>4, <2>5
    <3>2. QED
      BY <2>5, <3>1, TopsLoyal DEF Loyal, FreedUnmarked
  <2>7. Quiet(w, v, {}, {tl})
    BY <2>5 DEF Quiet, Unmoved
  <2>8. Quiet(w, w, {}, {tl})
    BY DEF Quiet, Unmoved
  <2>9. QED
    BY <1>2, <2>2, <2>4, <2>5, <2>6, <2>7, <2>8
<1>3. QED
  BY <1>1, <1>2

\* What begin() and add_change() have done to the world w before commit().
Begun(w, b, t) ==
  /\ \A u \in TxnId \ {t} :
       b.txns[u].live = w.txns[u].live /\ b.txns[u].waiting = w.txns[u].waiting
  /\ b.tops = w.tops
  /\ ~b.txns[t].overlapped => \A u \in TxnId : ~w.txns[u].live

LEMMA OverlappedKeeps ==
  ASSUME NEW x \in Txn, NEW b \in BOOLEAN
  PROVE  /\ Overlapped(x, b).waiting = x.waiting
         /\ Overlapped(x, b).late = x.late
         /\ b => Overlapped(x, b).overlapped
BY DEF Overlapped, Txn

LEMMA BeginBegun ==
  ASSUME NEW w, Sound(w, {}), NEW t \in TxnId, ~w.txns[t].live
  PROVE  /\ Begun(w, Begin(w, t), t)
         /\ Members(Begin(w, t).txns[t]) = {}
<1> DEFINE b == Begin(w, t)
           fresh == [FreeTxn EXCEPT !.live = TRUE]
<1>1. w \in World
  BY DEF Sound, Typed
<1>2. /\ fresh \in Txn /\ Members(fresh) = {} /\ fresh.overlapped = FALSE
  BY FreeTxnType DEF Txn, FreeTxn, Members
<1>3. /\ b.tops = w.tops
      /\ b.txns = [u \in TxnId |->
           IF u = t THEN Overlapped(fresh, Live(w) # {})
           ELSE Overlapped(w.txns[u], u \in Live(w))]
  BY <1>1, ManagerCommitIdle DEF Begin, World
<1> HIDE DEF b, fresh
<1>4. ASSUME NEW u \in TxnId \ {t}
      PROVE  b.txns[u].live = w.txns[u].live /\ b.txns[u].waiting = w.txns[u].waiting
  <2> DEFINE c == u \in Live(w)
  <2>1. b.txns[u] = Overlapped(w.txns[u], c) /\ c \in BOOLEAN
    BY <1>3
  <2>2. w.txns[u] \in Txn
    BY <1>1 DEF World
  <2> HIDE DEF c
  <2>3. QED
    BY <2>1, <2>2, OverlappedFields, OverlappedKeeps
<1>5. ASSUME ~b.txns[t].overlapped, NEW u \in TxnId
      PROVE  ~w.txns[u].live
  <2>1. b.txns[t] = Overlapped(fresh, Live(w) # {})
    BY <1>3
  <2>2. (Live(w) # {}) \in BOOLEAN
    OBVIOUS
  <2>3. Live(w) = {}
    BY <1>2, <1>5, <2>1, <2>2, OverlappedKeeps
  <2>4. QED
    BY <2>3 DEF Live
<1>6. Members(b.txns[t]) = {}
  <2>1. b.txns[t] = Overlapped(fresh, Live(w) # {}) /\ (Live(w) # {}) \in BOOLEAN
    BY <1>3
  <2>2. b.txns[t].entries = fresh.entries
    BY <1>2, <2>1, OverlappedFields
  <2>3. QED
    BY <1>2, <2>2 DEF Members
<1>7. QED
  BY <1>3, <1>4, <1>5, <1>6 DEF Begun, b

LEMMA AddChangesBegun ==
  ASSUME NEW w, NEW b, NEW t, Begun(w, b, t), Building(b, t), Members(b.txns[t]) = {},
         NEW layout \in Layouts(Toplevels)
  PROVE  /\ Begun(w, AddChanges(b, t, layout), t)
         /\ Members(AddChanges(b, t, layout).txns[t]) \subseteq DOMAIN layout
<1> DEFINE e == [tl \in Toplevels |-> IF tl \in DOMAIN layout THEN layout[tl]
                                      ELSE b.txns[t].entries[tl]]
           v == AddChanges(b, t, layout)
<1>1. b \in World /\ t \in TxnId /\ b.txns[t] \in Txn
  BY DEF Building, Typed, World
<1>2. /\ v.tops = b.tops
      /\ v.txns = [b.txns EXCEPT ![t] = [b.txns[t] EXCEPT !.entries = e]]
  BY <1>1 DEF AddChanges, World, Txn
<1>3. \A tl \in Toplevels : e[tl] # None => tl \in DOMAIN layout
  BY DEF Members
<1> HIDE DEF e, v
<1>4. /\ v.txns[t].entries = e /\ v.txns[t].overlapped = b.txns[t].overlapped
      /\ \A u \in TxnId \ {t} : v.txns[u] = b.txns[u]
  BY <1>1, <1>2 DEF World, Txn
<1>5. Members(v.txns[t]) \subseteq DOMAIN layout
  BY <1>3, <1>4 DEF Members
<1>6. Begun(w, v, t)
  BY <1>2, <1>4 DEF Begun
<1>7. QED
  BY <1>5, <1>6 DEF v

\* What commit() does to a toplevel: a member is marked, and nobody is moved.
LEMMA CommittedKeeps ==
  ASSUME NEW e \in Txn, NEW tl \in Toplevels, NEW top \in Toplevel
  PROVE  LET c == Committed(e, tl, top)
         IN /\ c.geometry = top.geometry /\ c.hidden = top.hidden
            /\ c.phase = top.phase /\ c.homed = top.homed
            /\ tl \in Members(e) => c.in_transaction
            /\ tl \notin Members(e) => c = top
BY DEF Committed, Asked, Toplevel

\* A batch of a layout of toplevels that have not been freed.
LEMMA BatchEffect ==
  ASSUME NEW w, Sound(w, {}), Loyal(w), NEW t \in TxnId, ~w.txns[t].live,
         NEW layout \in Layouts(Toplevels),
         \A tl \in DOMAIN layout : w.tops[tl].phase # "freed"
  PROVE  LET v == Batch(w, t, layout)
         IN /\ Loyal(v)
            /\ Quiet(w, v, {t}, {})
<1> DEFINE b == AddChanges(Begin(w, t), t, layout)
           e == b.txns[t]
           v == ManagerCommit(b)
<1>1. Building(b, t) /\ Begun(w, b, t) /\ Members(e) \subseteq DOMAIN layout
  BY BeginBuilding, BeginBegun, AddChangesBuilding, AddChangesBegun
<1>2. Batch(w, t, layout) = v
  BY DEF Batch
<1> HIDE DEF b
<1>3. /\ w \in World /\ b \in World /\ e \in Txn
      /\ \A tl \in Toplevels : b.tops[tl] = w.tops[tl] /\ w.tops[tl] \in Toplevel
  BY <1>1 DEF Sound, Building, Typed, World, Begun
<1>4. CASE Empty(e)
  <2>1. /\ v.active = None /\ v.tops = b.tops
        /\ \A u \in TxnId \ {t} : v.txns[u] = Unordered(b.txns[u], t)
    BY <1>1, <1>4, EmptyCommitFields
  <2> HIDE DEF v
  <2>2. \A u \in TxnId \ {t} :
          v.txns[u].live = w.txns[u].live /\ v.txns[u].waiting = w.txns[u].waiting
    BY <1>1, <1>3, <2>1, UnorderedFields, UnorderedKeeps DEF Begun, World
  <2>3. Quiet(w, v, {t}, {})
    BY <1>3, <2>1, <2>2 DEF Quiet, Unmoved
  <2>4. Loyal(v)
    BY <1>3, <2>1 DEF Loyal, Alone, Marked, FreedUnmarked, Exclusive
  <2>5. QED
    BY <1>2, <2>3, <2>4
<1>5. CASE ~Empty(e)
  <2>1. /\ v.active = t
        /\ \A tl \in Toplevels : v.tops[tl] = Committed(e, tl, b.tops[tl])
        /\ \A u \in TxnId \ {t} : v.txns[u] = b.txns[u]
        /\ v.txns[t].entries = e.entries
        /\ v.txns[t].overlapped = e.overlapped
    BY <1>1, <1>5, FilledCommitFields
  <2> HIDE DEF v, e
  <2>2. ASSUME NEW tl \in Toplevels
        PROVE  /\ Unmoved(w, v, tl)
               /\ tl \in Members(e) => v.tops[tl].in_transaction
               /\ tl \notin Members(e) => v.tops[tl] = w.tops[tl]
    <3>1. v.tops[tl] = Committed(e, tl, w.tops[tl])
      BY <1>3, <2>1
    <3> DEFINE c == v.tops[tl]
    <3>2. /\ c.geometry = w.tops[tl].geometry /\ c.hidden = w.tops[tl].hidden
          /\ c.phase = w.tops[tl].phase /\ c.homed = w.tops[tl].homed
          /\ tl \in Members(e) => c.in_transaction
          /\ tl \notin Members(e) => c = w.tops[tl]
      BY <1>3, <3>1, CommittedKeeps
    <3>3. QED
      BY <3>2 DEF Unmoved
  <2>3. Quiet(w, v, {t}, {})
    BY <1>1, <2>1, <2>2 DEF Quiet, Begun
  <2>4. Alone(v)
    BY <1>1, <2>1 DEF Alone, Exclusive, Begun, e
  <2>5. Marked(v)
    BY <2>1, <2>2 DEF Marked, Members
  <2>6. FreedUnmarked(v)
    <3>1. ASSUME NEW tl \in Toplevels, v.tops[tl].phase = "freed"
          PROVE  ~v.tops[tl].in_transaction
      <4>1. w.tops[tl].phase = "freed"
        BY <2>2, <3>1 DEF Unmoved
      <4>2. tl \notin Members(e)
        BY <1>1, <4>1 DEF e
      <4>3. QED
        BY <2>2, <4>1, <4>2 DEF Loyal, FreedUnmarked
    <3>2. QED
      BY <3>1 DEF FreedUnmarked
  <2>7. QED
    BY <1>2, <2>3, <2>4, <2>5, <2>6 DEF Loyal
<1>6. QED
  BY <1>4, <1>5

-----------------------------------------------------------------------------
(* The handlers *)

\* What a handler does that hears of the toplevels of A, and moves those of M
\* whatever transaction is current.
Done(A, M) == Loyal(W') /\ Early(W, W', A) /\ Whole(W, W', M)

LEMMA StepDone ==
  ASSUME NEW v, NEW A, NEW M, Loyal(v), Early(W, v, A), Whole(W, v, M), Step(v)
  PROVE  Done(A, M)
<1>1. W'.txns = v.txns /\ W'.active = v.active /\ W'.tops = v.tops
  BY DEF Step, W
<1>2. Loyal(W')
  BY <1>1 DEF Loyal, Alone, Marked, FreedUnmarked, Exclusive
<1>3. Gone(W, W') = Gone(W, v)
  BY <1>1 DEF Gone
<1>4. Whole(W, W', M)
  BY <1>1, <1>3 DEF Whole, Responded, Applied, Still, StillWaits, Given, Homed
<1>5. Early(W, W', A)
  BY <1>3 DEF Early
<1>6. QED
  BY <1>2, <1>4, <1>5 DEF Done

\* A handler that ends nothing, and touches no toplevel of a workspace but those
\* of M.
LEMMA QuietDone ==
  ASSUME NEW v, NEW T, NEW S, NEW M, Loyal(v), Quiet(W, v, T, S), Step(v),
         \A t \in T : ~W.txns[t].live,
         \A tl \in S \ M : ~Homed(W, tl) \/ ~Homed(v, tl)
  PROVE  Done({}, M)
<1>1. Handled(W, v, T, S)
  BY QuietHandled
<1>2. Whole(W, v, M)
  BY <1>1, HandledWhole
<1>3. Early(W, v, {})
  BY QuietEarly
<1>4. QED
  BY <1>2, <1>3, StepDone

\* set_position_size and then, perhaps, a layout: what is moved at once is moved
\* because there is no current transaction.
LEMMA MoveWhole ==
  ASSUME NEW w, Sound(w, {}), Loyal(w), NEW tl \in Toplevels, NEW g \in Geoms,
         NEW z, NEW T, Quiet(SetPosition(w, tl, g), z, T, {}),
         \A t \in T : ~w.txns[t].live
  PROVE  Whole(w, z, {}) /\ Early(w, z, {})
<1> DEFINE v == SetPosition(w, tl, g)
<1>1. /\ Quiet(w, v, {}, {tl})
      /\ w.active # None => Quiet(w, v, {}, {})
  BY SetPositionEffect
<1> HIDE DEF v
<1>2. Quiet(v, z, T, {}) BY DEF v
<1>3. CASE w.active = None
  <2>1. Quiet(w, z, T, {tl})
    BY <1>1, <1>2 DEF Quiet, Unmoved
  <2>2. QED
    BY <1>3, <2>1, QuietWhole, QuietEarly
<1>4. CASE w.active # None
  <2>1. Quiet(w, z, T, {})
    BY <1>1, <1>2, <1>4 DEF Quiet, Unmoved
  <2>2. Handled(w, z, T, {})
    BY <2>1, QuietHandled
  <2>3. QED
    BY <2>1, <2>2, QuietEarly, HandledWhole
<1>5. QED
  BY <1>3, <1>4

LEMMA QuietSame ==
  ASSUME NEW w, NEW T, NEW S
  PROVE  Quiet(w, w, T, S)
BY DEF Quiet, Unmoved

LEMMA TileableFacts ==
  /\ Tileable \subseteq Toplevels
  /\ \A layout \in Layouts(Tileable) :
       /\ layout \in Layouts(Toplevels)
       /\ \A tl \in DOMAIN layout : tl \in Toplevels /\ W.tops[tl].phase = "mapped"
<1>1. Tileable \subseteq Toplevels
  BY DEF Tileable, Mapped
<1>2. \A layout \in Layouts(Tileable) : layout \in Layouts(Toplevels)
  BY <1>1, LayoutsMonotone
<1>3. \A layout \in Layouts(Tileable) : DOMAIN layout \subseteq Tileable
  BY DEF Layouts
<1>4. QED
  BY <1>1, <1>2, <1>3 DEF Tileable, Mapped, W

LEMMA FreeCellsFacts == \A t \in FreeCells : t \in TxnId /\ ~W.txns[t].live
BY DEF FreeCells, W

LEMMA TileDone ==
  ASSUME Inv, Loyal(W), Tile
  PROVE  Done({}, {})
<1>1. PICK t \in FreeCells, layout \in Layouts(Tileable) : Step(Batch(W, t, layout))
  BY DEF Tile
<1>2. Sound(W, {}) /\ t \in TxnId /\ ~W.txns[t].live
  BY FreeCellsFacts DEF Inv
<1> DEFINE v == Batch(W, t, layout)
<1>3. Loyal(v) /\ Quiet(W, v, {t}, {})
  BY <1>2, TileableFacts, BatchEffect
<1>4. Step(v)
  BY <1>1
<1> HIDE DEF v
<1>5. QED
  BY <1>2, <1>3, <1>4, QuietDone

LEMMA MoveOneDone ==
  ASSUME Inv, Loyal(W), MoveOne
  PROVE  Done({}, {})
<1>1. PICK tl \in Toplevels, g \in Geoms : Step(SetPosition(W, tl, g))
  BY DEF MoveOne
<1>2. Sound(W, {})
  BY DEF Inv
<1>3. Loyal(SetPosition(W, tl, g))
  BY <1>2, SetPositionEffect
<1>4. Whole(W, SetPosition(W, tl, g), {}) /\ Early(W, SetPosition(W, tl, g), {})
  BY <1>2, MoveWhole, QuietSame
<1>5. QED
  BY <1>1, <1>3, <1>4, StepDone

LEMMA MoveOneAndTileDone ==
  ASSUME Inv, Loyal(W), MoveOneAndTile
  PROVE  Done({}, {})
<1>1. PICK tl \in Mapped, g \in Geoms, t \in FreeCells, layout \in Layouts(Tileable) :
        Step(Batch(SetPosition(W, tl, g), t, layout))
  BY DEF MoveOneAndTile
<1> DEFINE w == SetPosition(W, tl, g)
           v == Batch(w, t, layout)
<1>2. Sound(W, {}) /\ t \in TxnId /\ ~W.txns[t].live /\ tl \in Toplevels
  BY FreeCellsFacts DEF Inv, Mapped
<1>3. Sound(w, {}) /\ ~w.txns[t].live
  BY <1>2, SetPositionSound, SetPositionFree
<1>4. Loyal(w) /\ \A u \in Toplevels : w.tops[u].phase = W.tops[u].phase
  BY <1>2, SetPositionEffect
<1>5. Loyal(v) /\ Quiet(w, v, {t}, {})
  <2> HIDE DEF w
  <2>1. \A u \in DOMAIN layout : w.tops[u].phase # "freed"
    BY <1>4, TileableFacts
  <2>2. QED
    BY <1>2, <1>3, <1>4, <2>1, TileableFacts, BatchEffect
<1>6. Whole(W, v, {}) /\ Early(W, v, {})
  <2> HIDE DEF v
  <2>1. QED
    BY <1>2, <1>5, MoveWhole
<1>7. QED
  BY <1>1, <1>5, <1>6, StepDone

LEMMA QuietMore ==
  ASSUME NEW w, NEW v, NEW T, NEW S, NEW T2, NEW S2, Quiet(w, v, T, S),
         T \subseteq T2, S \subseteq S2
  PROVE  Quiet(w, v, T2, S2)
BY DEF Quiet, Unmoved

\* One toplevel is replaced by one that keeps its mark, or has lost it already.
LEMMA UpdateTopEffect ==
  ASSUME NEW w \in World, Loyal(w), NEW tl \in Toplevels, NEW top \in Toplevel,
         w.tops[tl].in_transaction => top.in_transaction,
         top.phase = "freed" => ~top.in_transaction
  PROVE  LET v == [w EXCEPT !.tops[tl] = top]
         IN /\ Loyal(v)
            /\ Quiet(w, v, {}, {tl})
            /\ v.tops[tl] = top
            /\ \A u \in Toplevels \ {tl} : v.tops[u] = w.tops[u]
<1> DEFINE v == [w EXCEPT !.tops[tl] = top]
<1>1. /\ v \in World
      /\ v.active = w.active /\ v.txns = w.txns
      /\ v.tops[tl] = top
      /\ \A u \in Toplevels \ {tl} : v.tops[u] = w.tops[u]
  BY UpdateTop
<1> HIDE DEF v
<1>2. \A u \in Toplevels :
        /\ v.tops[u].phase = "freed" => ~v.tops[u].in_transaction
        /\ w.tops[u].in_transaction => v.tops[u].in_transaction
  BY <1>1 DEF Loyal, FreedUnmarked
<1>3. Loyal(v)
  BY <1>1, <1>2, TopsLoyal
<1>4. Quiet(w, v, {}, {tl})
  BY <1>1 DEF Quiet, Unmoved
<1>5. QED
  BY <1>1, <1>3, <1>4 DEF v

\* What an interactive grab writes.
LEMMA ByHandEffect ==
  ASSUME NEW w, Sound(w, {}), Loyal(w), NEW tl \in Toplevels,
         NEW g \in Geoms, NEW c \in Geoms
  PROVE  LET v == ByHand(w, tl, g, c)
         IN /\ Loyal(v)
            /\ Quiet(w, v, {}, {tl})
            /\ \A u \in Toplevels : v.tops[u].phase = w.tops[u].phase
<1> DEFINE top == [w.tops[tl] EXCEPT !.geometry = g, !.configured = c]
<1>1. w \in World /\ w.tops[tl] \in Toplevel
  BY DEF Sound, Typed, World
<1>2. /\ top \in Toplevel /\ top.in_transaction = w.tops[tl].in_transaction
      /\ top.phase = w.tops[tl].phase
  BY <1>1 DEF Toplevel
<1>3. ByHand(w, tl, g, c) = [w EXCEPT !.tops[tl] = top]
  BY DEF ByHand
<1> HIDE DEF top
<1>4. top.phase = "freed" => ~top.in_transaction
  BY <1>2 DEF Loyal, FreedUnmarked
<1>5. QED
  BY <1>1, <1>2, <1>3, <1>4, UpdateTopEffect

LEMMA AppearEffect ==
  ASSUME NEW w, Sound(w, {}), Loyal(w), NEW tl \in Toplevels, NEW hide \in BOOLEAN,
         NEW g \in Geoms
  PROVE  LET v == Appear(w, tl, hide, g)
         IN /\ Loyal(v)
            /\ Quiet(w, v, {}, {tl})
            /\ v.tops[tl].phase = "mapped"
            /\ \A u \in Toplevels \ {tl} : v.tops[u].phase = w.tops[u].phase
<1> DEFINE top == Entered(w.tops[tl], hide)
           w1 == [w EXCEPT !.tops[tl] = top]
           v == Appear(w, tl, hide, g)
<1>1. w \in World /\ w.tops[tl] \in Toplevel
  BY DEF Sound, Typed, World
<1>2. /\ top \in Toplevel /\ top.in_transaction = w.tops[tl].in_transaction
      /\ top.phase = "mapped"
  BY <1>1 DEF Toplevel, Entered
<1>3. v \in {ByHand(w1, tl, g, w.tops[tl].configured), ByHand(w1, tl, g, g),
             SetPosition(w1, tl, g)}
  <2>1. w1 = [w EXCEPT !.tops[tl] = Entered(@, hide)]
    OBVIOUS
  <2> HIDE DEF w1
  <2>2. QED
    BY <2>1 DEF Appear
<1> HIDE DEF top, v
<1>4. Sound(w1, {})
  BY <1>2, UpdateTopSound
<1>5. /\ Loyal(w1) /\ Quiet(w, w1, {}, {tl})
      /\ w1.tops[tl].phase = "mapped"
      /\ \A u \in Toplevels \ {tl} : w1.tops[u] = w.tops[u]
  BY <1>1, <1>2, UpdateTopEffect
<1>6. w.tops[tl].configured \in Geoms
  BY <1>1 DEF Toplevel
<1> HIDE DEF w1
<1>7. /\ Loyal(v) /\ Quiet(w1, v, {}, {tl})
      /\ \A u \in Toplevels : v.tops[u].phase = w1.tops[u].phase
  <2>1. CASE v = ByHand(w1, tl, g, w.tops[tl].configured)
    BY <1>4, <1>5, <1>6, <2>1, ByHandEffect, ZenonT(60)
  <2>2. CASE v = ByHand(w1, tl, g, g)
    BY <1>4, <1>5, <2>2, ByHandEffect
  <2>3. CASE v = SetPosition(w1, tl, g)
    BY <1>4, <1>5, <2>3, SetPositionEffect
  <2>4. QED
    BY <1>3, <2>1, <2>2, <2>3
<1>8. Quiet(w, v, {}, {tl})
  BY <1>5, <1>7, QuietTwice
<1>9. QED
  BY <1>5, <1>7, <1>8 DEF v

LEMMA UnlinkedEffect ==
  ASSUME NEW w, Sound(w, {}), Loyal(w), NEW tl \in Toplevels
  PROVE  LET v == Unlinked(w, tl)
         IN /\ Loyal(v) /\ Quiet(w, v, {}, {tl}) /\ ~v.tops[tl].homed
            /\ v.tops[tl].phase = w.tops[tl].phase
<1> DEFINE top == [w.tops[tl] EXCEPT !.homed = FALSE]
<1>1. w \in World /\ w.tops[tl] \in Toplevel
  BY DEF Sound, Typed, World
<1>2. /\ top \in Toplevel /\ top.in_transaction = w.tops[tl].in_transaction
      /\ top.phase = w.tops[tl].phase /\ ~top.homed
  BY <1>1 DEF Toplevel
<1>3. Unlinked(w, tl) = [w EXCEPT !.tops[tl] = top]
  BY <1>1 DEF Unlinked, World, Toplevel
<1> HIDE DEF top
<1>4. top.phase = "freed" => ~top.in_transaction
  BY <1>2 DEF Loyal, FreedUnmarked
<1> DEFINE v == [w EXCEPT !.tops[tl] = top]
<1>5. Loyal(v) /\ Quiet(w, v, {}, {tl}) /\ v.tops[tl] = top
  BY <1>1, <1>2, <1>4, UpdateTopEffect
<1> HIDE DEF v
<1>6. QED
  BY <1>2, <1>3, <1>5 DEF v

\* The removal that starts unmap_notify: its toplevel is no longer mapped, so that
\* apply() does not move it.
LEMMA UnmappingEffect ==
  ASSUME Inv, Loyal(W), NEW tl \in Toplevels, tops[tl].phase = "mapped"
  PROVE  LET v == Unmapping(tl)
         IN /\ Loyal(v)
            /\ Ending(W, v, {tl})
            /\ Early(W, v, {tl})
            /\ \A u \in Toplevels :
                 v.tops[u].phase = IF u = tl THEN "unmapped" ELSE W.tops[u].phase
<1> DEFINE top == [W.tops[tl] EXCEPT !.phase = "unmapped"]
           w == [W EXCEPT !.tops[tl] = top]
           v == LeaveTransaction(w, tl)
<1>1. W \in World /\ W.tops[tl] \in Toplevel /\ Sound(W, {})
  BY DEF Inv, Sound, Typed, World
<1>2. /\ top \in Toplevel /\ top.in_transaction = W.tops[tl].in_transaction
      /\ top.phase = "unmapped"
  BY <1>1 DEF Toplevel
<1>3. Unmapping(tl) = v
  <2>1. w = [W EXCEPT !.tops[tl].phase = "unmapped"]
    BY <1>1 DEF World, Toplevel
  <2>2. QED
    BY <2>1 DEF Unmapping
<1> HIDE DEF top
<1>4. Sound(w, {})
  BY <1>1, <1>2, UpdateTopSound
<1>5. /\ w \in World
      /\ w.txns = W.txns /\ w.active = W.active
      /\ w.tops[tl] = top
      /\ \A u \in Toplevels \ {tl} : w.tops[u] = W.tops[u]
  BY <1>1, <1>2, UpdateTop
<1>6. Loyal(w)
  BY <1>1, <1>2, UpdateTopEffect
<1> HIDE DEF w
<1>7. /\ Ending(w, v, {tl})
      /\ Early(w, v, {tl})
      /\ Loyal(v)
      /\ \A u \in Toplevels : v.tops[u].phase = w.tops[u].phase
  BY <1>4, <1>6, LeaveTransactionEffect
<1> HIDE DEF v
<1>8. Ending(W, v, {tl}) /\ Early(W, v, {tl})
  BY <1>5, <1>7 DEF Ending, Handled, Early, Gone, StillWaits, Given, Homed
<1>9. QED
  BY <1>2, <1>3, <1>5, <1>7, <1>8

\* Two quiet parts of a handler, the second in the middle of a batch or not.
LEMMA QuietBoth ==
  ASSUME NEW w, NEW v, NEW z, NEW T, NEW S, Quiet(w, v, {}, S), Quiet(v, z, T, {})
  PROVE  Quiet(w, z, T, S)
BY DEF Quiet, Unmoved

LEMMA BoxesType == ASSUME NEW hide PROVE Boxes(hide) \subseteq Geoms
BY GeomsAssumption DEF Boxes

\* A toplevel that maps is free to be moved: it was on no workspace.
LEMMA MapOnlyDone ==
  ASSUME Inv, Loyal(W), MapOnly
  PROVE  Done({}, {})
<1>1. PICK tl \in Toplevels, hide \in BOOLEAN : \E g \in Boxes(hide) :
        /\ tops[tl].phase = "unmapped"
        /\ Step(Appear(W, tl, hide, g))
  BY DEF MapOnly
<1>2. PICK g \in Boxes(hide) : Step(Appear(W, tl, hide, g))
  BY <1>1
<1> DEFINE v == Appear(W, tl, hide, g)
<1>3. Sound(W, {}) /\ ~Homed(W, tl)
  BY <1>1 DEF Inv, Homed, W
<1>4. Loyal(v) /\ Quiet(W, v, {}, {tl})
  BY <1>3, BoxesType, AppearEffect
<1>5. Step(v)
  BY <1>2
<1> HIDE DEF v
<1>6. QED
  BY <1>3, <1>4, <1>5, QuietDone

LEMMA MapFloatingDone ==
  ASSUME Inv, Loyal(W), MapFloating
  PROVE  Done({}, {})
<1>1. PICK tl \in Toplevels, hide \in BOOLEAN, g2 \in Geoms : \E g \in Boxes(hide) :
        /\ tops[tl].phase = "unmapped"
        /\ Step(SetPosition(Appear(W, tl, hide, g), tl, g2))
  BY DEF MapFloating
<1>2. PICK g \in Boxes(hide) : Step(SetPosition(Appear(W, tl, hide, g), tl, g2))
  BY <1>1
<1> DEFINE w == Appear(W, tl, hide, g)
           v == SetPosition(w, tl, g2)
<1>3. Sound(W, {}) /\ ~Homed(W, tl)
  BY <1>1 DEF Inv, Homed, W
<1>4. Sound(w, {}) /\ Loyal(w) /\ Quiet(W, w, {}, {tl})
  BY <1>3, BoxesType, AppearSound, AppearEffect
<1>5. Step(v)
  BY <1>2
<1> HIDE DEF w
<1>6. Loyal(v) /\ Quiet(w, v, {}, {tl})
  BY <1>4, SetPositionEffect
<1> HIDE DEF v
<1>7. Quiet(W, v, {}, {tl})
  BY <1>4, <1>6, QuietTwice
<1>8. QED
  BY <1>3, <1>5, <1>6, <1>7, QuietDone

LEMMA MapTiledDone ==
  ASSUME Inv, Loyal(W), MapTiled
  PROVE  Done({}, {})
<1>1. PICK tl \in Toplevels, hide \in BOOLEAN, t \in FreeCells, g2 \in Geoms :
        /\ tops[tl].phase = "unmapped"
        /\ \E g \in Boxes(hide), layout \in Layouts(Tileable \cup {tl}) :
             LET w == Appear(W, tl, hide, g)
                 b == Batch(SetPosition(w, tl, g2), t, layout)
             IN /\ IF tl \in DOMAIN layout THEN g2 = layout[tl] ELSE ~hide
                /\ \/ Step(b)
                   \/ tl \in DOMAIN layout /\ Step(Batch(w, t, layout))
                   \/ ~hide /\ \E g3 \in Geoms : Step(SetPosition(b, tl, g3))
  BY DEF MapTiled
<1>2. PICK g \in Boxes(hide), layout \in Layouts(Tileable \cup {tl}) :
        LET w == Appear(W, tl, hide, g)
            b == Batch(SetPosition(w, tl, g2), t, layout)
        IN \/ Step(b)
           \/ Step(Batch(w, t, layout))
           \/ \E g3 \in Geoms : Step(SetPosition(b, tl, g3))
  BY <1>1
<1> DEFINE w == Appear(W, tl, hide, g)
           s == SetPosition(w, tl, g2)
           b == Batch(s, t, layout)
<1>3. /\ g \in Geoms /\ layout \in Layouts(Toplevels)
      /\ DOMAIN layout \subseteq Tileable \cup {tl}
  <2>1. Tileable \cup {tl} \subseteq Toplevels
    BY TileableFacts
  <2>2. QED
    BY <2>1, BoxesType, LayoutsMonotone DEF Layouts
<1>4. Sound(W, {}) /\ ~Homed(W, tl) /\ t \in TxnId /\ ~W.txns[t].live
  BY <1>1, FreeCellsFacts DEF Inv, Homed, W
<1>5. /\ Sound(w, {}) /\ ~w.txns[t].live
      /\ Loyal(w) /\ Quiet(W, w, {}, {tl})
      /\ w.tops[tl].phase = "mapped"
      /\ \A u \in Toplevels \ {tl} : w.tops[u].phase = W.tops[u].phase
  <2>1. Sound(w, {}) /\ ~w.txns[t].live
    BY <1>3, <1>4, AppearSound
  <2>2. /\ Loyal(w) /\ Quiet(W, w, {}, {tl})
        /\ w.tops[tl].phase = "mapped"
        /\ \A u \in Toplevels \ {tl} : w.tops[u].phase = W.tops[u].phase
    BY <1>3, <1>4, AppearEffect, SMTT(30)
  <2>3. QED
    BY <2>1, <2>2
<1> HIDE DEF w
<1>6. \A u \in DOMAIN layout : w.tops[u].phase # "freed"
  <2>1. \A u \in Tileable : u \in Toplevels /\ W.tops[u].phase = "mapped"
    BY DEF Tileable, Mapped, W
  <2>2. QED
    BY <1>3, <1>5, <2>1
<1> USE DEF w
<1>7. \/ Step(b)
      \/ Step(Batch(w, t, layout))
      \/ \E g3 \in Geoms : Step(SetPosition(b, tl, g3))
  BY <1>2
<1> HIDE DEF w
<1>8. /\ Sound(s, {}) /\ Loyal(s) /\ ~s.txns[t].live /\ Quiet(W, s, {}, {tl})
      /\ \A u \in DOMAIN layout : s.tops[u].phase # "freed"
  <2>1. Sound(s, {}) /\ ~s.txns[t].live
    BY <1>3, <1>4, <1>5, SetPositionSound, SetPositionFree
  <2>2. /\ Loyal(s) /\ Quiet(w, s, {}, {tl})
        /\ \A u \in Toplevels : s.tops[u].phase = w.tops[u].phase
    BY <1>3, <1>5, SetPositionEffect
  <2> HIDE DEF s
  <2>3. \A u \in DOMAIN layout : s.tops[u].phase # "freed"
    BY <1>3, <1>6, <2>2, TileableFacts
  <2>4. QED
    BY <1>5, <2>1, <2>2, <2>3, QuietTwice
<1> HIDE DEF s
<1>9. ASSUME NEW v, Sound(v, {}), Loyal(v), Quiet(W, v, {}, {tl}), ~v.txns[t].live,
             \A u \in DOMAIN layout : v.tops[u].phase # "freed"
      PROVE  LET z == Batch(v, t, layout)
             IN Sound(z, {}) /\ Loyal(z) /\ Quiet(W, z, {t}, {tl})
  <2> DEFINE z == Batch(v, t, layout)
  <2>1. Sound(z, {}) /\ Loyal(z) /\ Quiet(v, z, {t}, {})
    BY <1>3, <1>4, <1>9, BatchSound, BatchEffect
  <2> HIDE DEF z
  <2>2. Quiet(W, z, {t}, {tl})
    BY <1>9, <2>1, QuietBoth
  <2>3. QED
    BY <2>1, <2>2 DEF z
<1>10. ASSUME NEW z, Loyal(z), Quiet(W, z, {t}, {tl}), Step(z)
       PROVE  Done({}, {})
  BY <1>4, <1>10, QuietDone
<1>11. Sound(b, {}) /\ Loyal(b) /\ Quiet(W, b, {t}, {tl})
  BY <1>8, <1>9
<1> HIDE DEF b
<1>12. CASE Step(b)
  BY <1>10, <1>11, <1>12
<1>13. CASE Step(Batch(w, t, layout))
  BY <1>5, <1>6, <1>9, <1>10, <1>13
<1>14. ASSUME NEW g3 \in Geoms, Step(SetPosition(b, tl, g3))
       PROVE  Done({}, {})
  <2> DEFINE z == SetPosition(b, tl, g3)
  <2>1. Loyal(z) /\ Quiet(b, z, {}, {tl})
    BY <1>11, SetPositionEffect
  <2>2. Step(z)
    BY <1>14
  <2> HIDE DEF z
  <2>3. Quiet(W, z, {t}, {tl})
    BY <1>11, <2>1 DEF Quiet, Unmoved
  <2>4. QED
    BY <1>10, <2>1, <2>2, <2>3
<1>15. QED
  BY <1>7, <1>12, <1>13, <1>14

LEMMA OutputChangeDone ==
  ASSUME Inv, Loyal(W), OutputChange
  PROVE  Done({}, {})
<1>1. PICK S \in SUBSET Mapped \ {{}}, there \in BOOLEAN :
        /\ \A tl \in S : tops[tl].homed # there
        /\ Step([W EXCEPT !.tops = [tl \in Toplevels |->
             IF tl \in S THEN [@[tl] EXCEPT !.homed = there] ELSE @[tl]]])
  BY DEF OutputChange
<1> DEFINE top(tl) == IF tl \in S THEN [W.tops[tl] EXCEPT !.homed = there]
                      ELSE W.tops[tl]
           v == [W EXCEPT !.tops = [tl \in Toplevels |-> top(tl)]]
<1>2. W \in World
  BY DEF Inv, Sound, Typed
<1>3. ASSUME NEW tl \in Toplevels
      PROVE  /\ top(tl).in_transaction = W.tops[tl].in_transaction
             /\ top(tl).phase = W.tops[tl].phase
             /\ tl \in S => top(tl).homed = there
             /\ tl \notin S => top(tl) = W.tops[tl]
  <2>1. W.tops[tl] \in Toplevel
    BY <1>2 DEF World
  <2>2. QED
    BY <2>1 DEF Toplevel
<1>4. Step(v)
  BY <1>1
<1> HIDE DEF top
<1>5. v.txns = W.txns /\ v.active = W.active /\ \A tl \in Toplevels : v.tops[tl] = top(tl)
  BY DEF W
<1> HIDE DEF v
<1>6. Loyal(v)
  BY <1>3, <1>5, TopsLoyal DEF Loyal, FreedUnmarked
<1>7. Quiet(W, v, {}, S)
  BY <1>3, <1>5 DEF Quiet, Unmoved
<1>8. \A tl \in S : ~Homed(W, tl) \/ ~Homed(v, tl)
  <2>1. \A tl \in S : tl \in Toplevels /\ W.tops[tl].homed # there
    BY <1>1 DEF Mapped, W
  <2>2. \A tl \in Toplevels : W.tops[tl].homed \in BOOLEAN
    BY <1>2 DEF World, Toplevel
  <2>3. QED
    BY <1>3, <1>5, <2>1, <2>2 DEF Homed
<1>9. QED
  BY <1>4, <1>6, <1>7, <1>8, QuietDone

\* What a commit does to the transactions: the current one may end.
LEMMA AnsweredEffect ==
  ASSUME Inv, Loyal(W), NEW tl \in Toplevels
  PROVE  /\ Ending(W, Answered(tl), {}) /\ Early(W, Answered(tl), {tl})
         /\ Loyal(Answered(tl))
<1>1. Sound(W, {}) /\ W.active = active
  BY DEF Inv, W
<1>2. CASE tops[tl].in_transaction /\ active # None
  BY <1>1, <1>2, HandleCommitEffect DEF Answered
<1>3. CASE ~(tops[tl].in_transaction /\ active # None)
  BY <1>3, SameEnding DEF Answered
<1>4. QED
  BY <1>2, <1>3

LEMMA SurfaceCommitDone ==
  ASSUME Inv, Loyal(W), NEW tl \in Toplevels, SurfaceCommit(tl)
  PROVE  Done({tl}, {})
<1> DEFINE v == Answered(tl)
<1>1. Loyal(v) /\ Ending(W, v, {}) /\ Early(W, v, {tl})
  BY AnsweredEffect
<1>2. Step(v)
  BY DEF SurfaceCommit
<1> HIDE DEF v
<1>3. Whole(W, v, {})
  BY <1>1, HandledWhole DEF Ending
<1>4. QED
  BY <1>1, <1>2, <1>3, StepDone

\* An X11 window that is out of its transaction, be it since this commit, brings
\* its own size.
LEMMA XSurfaceCommitDone ==
  ASSUME Inv, Loyal(W), NEW tl \in Toplevels, XSurfaceCommit(tl)
  PROVE  Done({tl}, {tl})
<1> DEFINE w == Answered(tl)
           v(g) == [w EXCEPT !.tops[tl].geometry = g]
<1>1. PICK g \in Geoms : Step(SetPosition(v(g), tl, g))
  BY DEF XSurfaceCommit
<1>2. Sound(w, {}) /\ Loyal(w) /\ Ending(W, w, {}) /\ Early(W, w, {tl})
  BY AnsweredSound, AnsweredEffect
<1> HIDE DEF w
<1>3. v(g) = ByHand(w, tl, g, w.tops[tl].configured) /\ w.tops[tl].configured \in Geoms
  <2>1. w \in World /\ w.tops[tl] \in Toplevel
    BY <1>2 DEF Sound, Typed, World
  <2>2. QED
    BY <2>1 DEF ByHand, World, Toplevel
<1> HIDE DEF v
<1>4. Sound(v(g), {}) /\ Loyal(v(g)) /\ Quiet(w, v(g), {}, {tl})
  <2> DEFINE c == w.tops[tl].configured
  <2>1. c \in Geoms /\ v(g) = ByHand(w, tl, g, c)
    BY <1>3
  <2> HIDE DEF c
  <2>2. Sound(ByHand(w, tl, g, c), {})
    BY <1>2, <2>1, ByHandSound
  <2>3. Loyal(ByHand(w, tl, g, c)) /\ Quiet(w, ByHand(w, tl, g, c), {}, {tl})
    BY <1>2, <2>1, ByHandEffect
  <2>4. QED
    BY <2>1, <2>2, <2>3
<1> DEFINE z == SetPosition(v(g), tl, g)
<1>5. Loyal(z) /\ Quiet(v(g), z, {}, {tl})
  BY <1>4, SetPositionEffect
<1>6. Step(z)
  BY <1>1
<1> HIDE DEF z
<1>7. Quiet(w, z, {}, {tl})
  BY <1>4, <1>5, QuietTwice
<1>8. \A t \in {} : ~W.txns[t].live
  OBVIOUS
<1>9. Handled(W, z, {}, {tl}) /\ Early(W, z, {tl})
  <2>1. Ending(W, w, {tl})
    BY <1>2, EndingMore
  <2>2. QED
    BY <1>2, <1>7, <1>8, <2>1, EndingThenQuiet, EarlyThenQuiet
<1>10. Whole(W, z, {tl})
  BY <1>8, <1>9, HandledWhole
<1>11. QED
  BY <1>5, <1>6, <1>9, <1>10, StepDone

\* The timer ends its own transaction, current or not, answered or not.
LEMMA TimeoutDone ==
  ASSUME Inv, Loyal(W), NEW t \in TxnId, Timeout(t)
  PROVE  Loyal(W') /\ Gone(W, W') = {t} /\ Whole(W, W', {})
<1>1. Sound(W, {}) /\ W.txns[t].armed /\ Step(Finish(W, t))
  BY DEF Inv, Timeout, W
<1>2. W \in World /\ W.txns[t].live
  BY <1>1 DEF Sound, Typed, FreeTxn
<1> DEFINE v == Finish(W, t)
<1>3. Loyal(v) /\ Ending(W, v, {}) /\ Gone(W, v) = {t}
  BY <1>1, <1>2, FinishLoyal, FinishEnding
<1>4. W'.txns = v.txns /\ W'.active = v.active /\ W'.tops = v.tops
  BY <1>1 DEF Step, W
<1> HIDE DEF v
<1>5. Whole(W, v, {})
  BY <1>3, HandledWhole DEF Ending
<1>6. Loyal(W')
  BY <1>3, <1>4 DEF Loyal, Alone, Marked, FreedUnmarked, Exclusive
<1>7. Gone(W, W') = {t}
  BY <1>3, <1>4 DEF Gone
<1>8. Whole(W, W', {})
  BY <1>3, <1>4, <1>5, <1>7
     DEF Whole, Responded, Applied, Still, StillWaits, Given, Homed
<1>9. QED
  BY <1>6, <1>7, <1>8

LEMMA MoveByHandDone ==
  ASSUME Inv, Loyal(W), NEW tl \in Toplevels, MoveByHand(tl)
  PROVE  Done({}, {tl})
<1>1. PICK g \in Geoms, c \in Geoms : Step(ByHand(W, tl, g, c))
  BY DEF MoveByHand
<1> DEFINE v == ByHand(W, tl, g, c)
<1>2. Loyal(v) /\ Quiet(W, v, {}, {tl})
  BY ByHandEffect DEF Inv
<1>3. Step(v)
  BY <1>1
<1> HIDE DEF v
<1>4. QED
  BY <1>2, <1>3, QuietDone

\* The drag moves its toplevel by hand, move_to() all others through a transaction.
LEMMA DragOverDone ==
  ASSUME Inv, Loyal(W), NEW tl \in Toplevels, DragOver(tl)
  PROVE  Done({}, {tl})
<1>1. PICK g \in Geoms :
        LET w == ByHand(W, tl, g, tops[tl].configured) IN
        \/ \E g2 \in Geoms : Step(SetPosition(w, tl, g2))
        \/ \E t \in FreeCells, layout \in Layouts(Tileable) :
             /\ tl \in DOMAIN layout
             /\ \/ Step(Batch(SetPosition(w, tl, layout[tl]), t, layout))
                \/ Step(Batch(w, t, layout))
  BY Zenon DEF DragOver
<1> DEFINE w == ByHand(W, tl, g, tops[tl].configured)
<1>2. Sound(W, {}) /\ W.txns = txns /\ W.tops = tops
  BY DEF Inv, W
<1>3. tops[tl].configured \in Geoms
  BY <1>2 DEF Sound, Typed, World, Toplevel
<1>4. /\ Sound(w, {}) /\ Loyal(w) /\ Quiet(W, w, {}, {tl})
      /\ w.txns = W.txns
      /\ \A u \in Toplevels : w.tops[u].phase = W.tops[u].phase
  <2> DEFINE c == tops[tl].configured
  <2>1. c \in Geoms /\ w = ByHand(W, tl, g, c)
    BY <1>3
  <2> HIDE DEF c, w
  <2>2. Sound(ByHand(W, tl, g, c), {}) /\ ByHand(W, tl, g, c).txns = W.txns
    BY <1>2, <2>1, ByHandSound
  <2>3. /\ Loyal(ByHand(W, tl, g, c)) /\ Quiet(W, ByHand(W, tl, g, c), {}, {tl})
        /\ \A u \in Toplevels : ByHand(W, tl, g, c).tops[u].phase = W.tops[u].phase
    BY <1>2, <2>1, ByHandEffect
  <2>4. QED
    BY <2>1, <2>2, <2>3
<1>5. \/ \E g2 \in Geoms : Step(SetPosition(w, tl, g2))
      \/ \E t \in FreeCells, layout \in Layouts(Tileable) :
           /\ tl \in DOMAIN layout
           /\ \/ Step(Batch(SetPosition(w, tl, layout[tl]), t, layout))
              \/ Step(Batch(w, t, layout))
  BY <1>1
<1> HIDE DEF w
<1>6. ASSUME NEW z, NEW T, Loyal(z), Quiet(w, z, T, {tl}), Step(z),
             \A t \in T : ~W.txns[t].live
      PROVE  Done({}, {tl})
  <2>1. Quiet(W, z, T, {tl})
    BY <1>4, <1>6 DEF Quiet, Unmoved
  <2>2. QED
    BY <1>6, <2>1, QuietDone
<1>7. ASSUME NEW g2 \in Geoms, Step(SetPosition(w, tl, g2))
      PROVE  Done({}, {tl})
  <2>1. Loyal(SetPosition(w, tl, g2)) /\ Quiet(w, SetPosition(w, tl, g2), {}, {tl})
    BY <1>4, SetPositionEffect
  <2>2. \A t \in {} : ~W.txns[t].live
    OBVIOUS
  <2>3. QED
    BY <1>6, <1>7, <2>1, <2>2
<1>8. ASSUME NEW t \in FreeCells, NEW layout \in Layouts(Tileable), tl \in DOMAIN layout,
             \/ Step(Batch(SetPosition(w, tl, layout[tl]), t, layout))
             \/ Step(Batch(w, t, layout))
      PROVE  Done({}, {tl})
  <2> DEFINE s == SetPosition(w, tl, layout[tl])
  <2>1. layout[tl] \in Geoms /\ layout \in Layouts(Toplevels)
    BY <1>8, TileableFacts DEF Layouts
  <2>2. t \in TxnId /\ ~w.txns[t].live /\ ~W.txns[t].live
    BY <1>4, FreeCellsFacts
  <2>3. \A u \in DOMAIN layout : w.tops[u].phase # "freed"
    BY <1>4, TileableFacts
  <2>4. Sound(s, {}) /\ ~s.txns[t].live
    BY <1>4, <2>1, <2>2, SetPositionSound, SetPositionFree
  <2>5. /\ Loyal(s) /\ Quiet(w, s, {}, {tl})
        /\ \A u \in Toplevels : s.tops[u].phase = w.tops[u].phase
    BY <1>4, <2>1, SetPositionEffect
  <2>6. Step(Batch(s, t, layout)) \/ Step(Batch(w, t, layout))
    BY <1>8
  <2> HIDE DEF s
  <2>7. \A u \in DOMAIN layout : s.tops[u].phase # "freed"
    BY <2>3, <2>5, TileableFacts
  <2>8. /\ Loyal(Batch(s, t, layout)) /\ Quiet(s, Batch(s, t, layout), {t}, {})
        /\ Loyal(Batch(w, t, layout)) /\ Quiet(w, Batch(w, t, layout), {t}, {})
    BY <1>4, <2>1, <2>2, <2>3, <2>4, <2>5, <2>7, BatchEffect
  <2>9. /\ Quiet(w, Batch(s, t, layout), {t}, {tl})
        /\ Quiet(w, Batch(w, t, layout), {t}, {tl})
    BY <2>5, <2>8, QuietBoth, QuietMore
  <2>10. \A u \in {t} : ~W.txns[u].live
    BY <2>2
  <2>11. QED
    BY <1>6, <2>6, <2>8, <2>9, <2>10
<1>9. QED
  BY <1>5, <1>7, <1>8

\* The departure of a toplevel, and what follows it in its handler.
LEMMA DepartureDone ==
  ASSUME NEW v, NEW z, NEW T, NEW tl, Ending(W, v, {tl}), Early(W, v, {tl}),
         Quiet(v, z, T, {tl}), Loyal(z), Step(z),
         \A t \in T : ~W.txns[t].live, ~z.tops[tl].homed \/ z.tops[tl].phase # "mapped"
  PROVE  Done({tl}, {})
<1>1. Handled(W, z, T, {tl}) /\ Early(W, z, {tl})
  BY EndingThenQuiet, EarlyThenQuiet
<1>2. \A u \in {tl} \ {} : ~Homed(W, u) \/ ~Homed(z, u)
  BY DEF Homed
<1>3. Whole(W, z, {})
  BY <1>1, <1>2, HandledWhole
<1>4. QED
  BY <1>1, <1>3, StepDone

LEMMA UnmapDone ==
  ASSUME Inv, Loyal(W), NEW tl \in Toplevels, Unmap(tl)
  PROVE  Done({tl}, {}) /\ tops'[tl].phase # tops[tl].phase
<1> DEFINE w == Unmapping(tl)
           v == Unlinked(w, tl)
<1>1. tops[tl].phase = "mapped" /\ Step(v)
  BY DEF Unmap
<1>2. /\ Sound(w, {}) /\ Loyal(w) /\ Ending(W, w, {tl}) /\ Early(W, w, {tl})
      /\ w.tops[tl].phase = "unmapped"
  BY <1>1, UnmappingSound, UnmappingEffect
<1> HIDE DEF w
<1>3. /\ Loyal(v) /\ Quiet(w, v, {}, {tl}) /\ ~v.tops[tl].homed
      /\ v.tops[tl].phase = "unmapped"
  BY <1>2, UnlinkedEffect
<1> HIDE DEF v
<1>4. \A t \in {} : ~W.txns[t].live
  OBVIOUS
<1>5. tops'[tl].phase # tops[tl].phase
  BY <1>1, <1>3 DEF Step
<1>6. QED
  BY <1>1, <1>2, <1>3, <1>4, <1>5, DepartureDone

\* reset_mode moves the window that is unmapping, or lays out the workspace with
\* it; apply() has been through by then.
LEMMA UnmapGrabbedDone ==
  ASSUME Inv, Loyal(W), NEW tl \in Toplevels, UnmapGrabbed(tl)
  PROVE  Done({tl}, {}) /\ tops'[tl].phase # tops[tl].phase
<1> DEFINE w == Unmapping(tl)
<1>1. /\ tl \in Tileable
      /\ \/ \E g \in Geoms : Step(Unlinked(SetPosition(w, tl, g), tl))
         \/ \E t \in FreeCells, layout \in Layouts(Tileable) :
              /\ tl \in DOMAIN layout
              /\ Step(Unlinked(Batch(w, t, layout), tl))
  BY DEF UnmapGrabbed
<1>2. tops[tl].phase = "mapped"
  BY <1>1 DEF Tileable, Mapped
<1>3. /\ Sound(w, {}) /\ Loyal(w) /\ Ending(W, w, {tl}) /\ Early(W, w, {tl})
      /\ \A t \in FreeCells : ~w.txns[t].live
      /\ \A u \in Toplevels :
           w.tops[u].phase = IF u = tl THEN "unmapped" ELSE W.tops[u].phase
  BY <1>2, UnmappingSound, UnmappingEffect
<1> HIDE DEF w
<1>4. ASSUME NEW v, Sound(v, {}), Loyal(v), NEW T, Quiet(w, v, T, {tl}),
             v.tops[tl].phase = "unmapped",
             \A t \in T : ~W.txns[t].live, Step(Unlinked(v, tl))
      PROVE  Done({tl}, {}) /\ tops'[tl].phase # tops[tl].phase
  <2> DEFINE z == Unlinked(v, tl)
  <2>1. /\ Loyal(z) /\ Quiet(v, z, {}, {tl}) /\ ~z.tops[tl].homed
        /\ z.tops[tl].phase = "unmapped"
    BY <1>4, UnlinkedEffect
  <2>2. Step(z)
    BY <1>4
  <2> HIDE DEF z
  <2>3. Quiet(w, z, T, {tl})
    BY <1>4, <2>1 DEF Quiet, Unmoved
  <2>4. tops'[tl].phase # tops[tl].phase
    BY <1>2, <2>1, <2>2 DEF Step
  <2>5. QED
    BY <1>3, <1>4, <2>1, <2>2, <2>3, <2>4, DepartureDone
<1>5. ASSUME NEW g \in Geoms, Step(Unlinked(SetPosition(w, tl, g), tl))
      PROVE  Done({tl}, {}) /\ tops'[tl].phase # tops[tl].phase
  <2> DEFINE v == SetPosition(w, tl, g)
  <2>1. /\ Sound(v, {}) /\ Loyal(v) /\ Quiet(w, v, {}, {tl})
        /\ v.tops[tl].phase = "unmapped"
    BY <1>3, SetPositionSound, SetPositionEffect
  <2>2. Step(Unlinked(v, tl))
    BY <1>5
  <2> HIDE DEF v
  <2>3. \A t \in {} : ~W.txns[t].live
    OBVIOUS
  <2>4. QED
    BY <1>4, <2>1, <2>2, <2>3
<1>6. ASSUME NEW t \in FreeCells, NEW layout \in Layouts(Tileable),
             Step(Unlinked(Batch(w, t, layout), tl))
      PROVE  Done({tl}, {}) /\ tops'[tl].phase # tops[tl].phase
  <2> DEFINE v == Batch(w, t, layout)
  <2>1. t \in TxnId /\ ~W.txns[t].live /\ ~w.txns[t].live
    BY <1>3, FreeCellsFacts
  <2>2. layout \in Layouts(Toplevels)
    BY TileableFacts
  <2>3. \A u \in DOMAIN layout : w.tops[u].phase # "freed"
    BY <1>3, TileableFacts
  <2>4. Sound(v, {}) /\ Loyal(v) /\ Quiet(w, v, {t}, {})
    BY <1>3, <2>1, <2>2, <2>3, BatchSound, BatchEffect
  <2>5. Step(Unlinked(v, tl))
    BY <1>6
  <2> HIDE DEF v
  <2>6. Quiet(w, v, {t}, {tl}) /\ v.tops[tl].phase = "unmapped"
    BY <1>3, <2>4, QuietMore DEF Quiet, Unmoved
  <2>7. \A u \in {t} : ~W.txns[u].live
    BY <2>1
  <2>8. QED
    BY <1>4, <2>4, <2>5, <2>6, <2>7
<1>7. QED
  BY <1>1, <1>5, <1>6

LEMMA DestroyDone ==
  ASSUME Inv, Loyal(W), NEW tl \in Toplevels, Destroy(tl)
  PROVE  Done({tl}, {}) /\ tops'[tl].phase # tops[tl].phase
<1> DEFINE w == LeaveTransaction(W, tl)
           top == [NewToplevel EXCEPT !.phase = "freed"]
           v == [w EXCEPT !.tops[tl] = top]
<1>1. tops[tl].phase = "unmapped" /\ Step(v)
  BY DEF Destroy
<1>2. top \in Toplevel /\ ~top.in_transaction /\ top.phase = "freed"
  BY GeomsAssumption DEF NewToplevel, Toplevel
<1>3. /\ Sound(w, {}) /\ Loyal(w) /\ Ending(W, w, {tl}) /\ Early(W, w, {tl})
      /\ ~w.tops[tl].in_transaction
  BY LeaveTransactionSound, LeaveTransactionEffect DEF Inv
<1>4. w \in World
  BY <1>3 DEF Sound, Typed
<1> HIDE DEF w, top
<1>5. Loyal(v) /\ Quiet(w, v, {}, {tl}) /\ v.tops[tl] = top
  <2>1. Loyal(w) /\ ~w.tops[tl].in_transaction
    BY <1>3
  <2>2. QED
    BY <1>2, <1>4, <2>1, UpdateTopEffect
<1> HIDE DEF v
<1>6. \A t \in {} : ~W.txns[t].live
  OBVIOUS
<1>7. ~v.tops[tl].homed \/ v.tops[tl].phase # "mapped"
  BY <1>2, <1>5
<1>8. tops'[tl].phase # tops[tl].phase
  BY <1>1, <1>2, <1>5 DEF Step
<1>9. QED
  BY <1>1, <1>3, <1>5, <1>6, <1>7, <1>8, DepartureDone, SMTT(30)

\* An interactive resize moves toplevels whatever transaction is current.
LEMMA ResizeTreeDone ==
  ASSUME Inv, Loyal(W), ResizeTree
  PROVE  Done({}, Toplevels)
<1>1. PICK layout \in Layouts(Tileable) :
        Step([W EXCEPT !.tops = [tl \in Toplevels |->
               IF tl \in DOMAIN layout
               THEN [@[tl] EXCEPT !.geometry = layout[tl], !.configured = layout[tl]]
               ELSE @[tl]]])
  BY DEF ResizeTree
<1> DEFINE top(tl) ==
             IF tl \in DOMAIN layout
             THEN [W.tops[tl] EXCEPT !.geometry = layout[tl], !.configured = layout[tl]]
             ELSE W.tops[tl]
           v == [W EXCEPT !.tops = [tl \in Toplevels |-> top(tl)]]
<1>2. ASSUME NEW tl \in Toplevels
      PROVE  /\ top(tl).in_transaction = W.tops[tl].in_transaction
             /\ top(tl).phase = W.tops[tl].phase
  <2>1. W.tops[tl] \in Toplevel
    BY DEF Inv, Sound, Typed, World
  <2>2. QED
    BY <2>1 DEF Toplevel
<1>3. Step(v)
  BY <1>1
<1> HIDE DEF top
<1>4. v.txns = W.txns /\ v.active = W.active /\ \A tl \in Toplevels : v.tops[tl] = top(tl)
  BY DEF W
<1> HIDE DEF v
<1>5. Loyal(v)
  BY <1>2, <1>4, TopsLoyal DEF Loyal, FreedUnmarked
<1>6. Quiet(W, v, {}, Toplevels)
  BY <1>4 DEF Quiet
<1>7. QED
  BY <1>3, <1>5, <1>6, QuietDone

\* The bodies of LastAnswerEnds and AtomicLayout, in terms of W and W'.
Prompt ==
  /\ Responded(W, W')
  /\ \A t \in Gone(W, W') :
       \/ Timeout(t)
       \/ /\ t = W.active
          /\ \E tl \in Toplevels : W.txns[t].waiting \subseteq {tl} /\ Heard(tl)

Atomic ==
  /\ \A t \in Gone(W, W'), tl \in Toplevels :
       Homed(W, tl) /\ Homed(W', tl) => Given(W, W', t, tl) \/ XSurfaceCommit(tl)
  /\ W.active # None /\ Gone(W, W') = {} => \A tl \in Toplevels :
       Homed(W, tl) /\ Homed(W', tl) =>
         \/ W'.tops[tl].geometry = W.tops[tl].geometry
         \/ MoveByHand(tl) \/ DragOver(tl) \/ ResizeTree \/ XSurfaceCommit(tl)

LEMMA DonePrompt ==
  ASSUME NEW A, NEW M, Done(A, M), A \subseteq Toplevels, \A tl \in A : Heard(tl),
         \/ \A tl \in M : XSurfaceCommit(tl)
         \/ A = {} /\ (ResizeTree \/ \A tl \in M : MoveByHand(tl) \/ DragOver(tl))
  PROVE  Loyal(W') /\ Prompt /\ Atomic
<1>1. Loyal(W') /\ Early(W, W', A) /\ Responded(W, W')
      /\ Applied(W, W', M) /\ Still(W, W', M)
  BY DEF Done, Whole
<1>2. Prompt
  BY <1>1 DEF Prompt, Early
<1>3. CASE \A tl \in M : XSurfaceCommit(tl)
  BY <1>1, <1>2, <1>3 DEF Atomic, Applied, Still
<1>4. CASE A = {} /\ (ResizeTree \/ \A tl \in M : MoveByHand(tl) \/ DragOver(tl))
  <2>1. Gone(W, W') = {}
    BY <1>1, <1>4 DEF Early
  <2>2. QED
    BY <1>1, <1>2, <1>4, <2>1 DEF Atomic, Still
<1>5. QED
  BY <1>3, <1>4

LEMMA NextDone ==
  ASSUME Inv, Loyal(W), [Next]_vars
  PROVE  Loyal(W') /\ Prompt /\ Atomic
<1>1. CASE UNCHANGED vars
  <2>1. W'.txns = W.txns /\ W'.active = W.active /\ W'.tops = W.tops
    BY <1>1 DEF vars, W
  <2>2. Gone(W, W') = {}
    BY <2>1 DEF Gone
  <2>3. Loyal(W')
    BY <2>1 DEF Loyal, Alone, Marked, FreedUnmarked, Exclusive
  <2>4. QED
    BY <2>1, <2>2, <2>3 DEF Prompt, Atomic, Responded, StillWaits
<1>2. CASE Done({}, {})
  BY <1>2, DonePrompt
<1>3. CASE ResizeTree
  <2>1. Done({}, Toplevels)
    BY <1>3, ResizeTreeDone
  <2>2. QED
    BY <1>3, <2>1, DonePrompt
<1>4. ASSUME NEW tl \in Toplevels, MoveByHand(tl) \/ DragOver(tl)
      PROVE  Loyal(W') /\ Prompt /\ Atomic
  <2>1. Done({}, {tl})
    BY <1>4, MoveByHandDone, DragOverDone
  <2>2. QED
    BY <1>4, <2>1, DonePrompt
<1>5. ASSUME NEW tl \in Toplevels,
             SurfaceCommit(tl) \/ Unmap(tl) \/ UnmapGrabbed(tl) \/ Destroy(tl)
      PROVE  Loyal(W') /\ Prompt /\ Atomic
  <2>1. Done({tl}, {}) /\ Heard(tl)
    BY <1>5, SurfaceCommitDone, UnmapDone, UnmapGrabbedDone, DestroyDone DEF Heard
  <2>2. QED
    BY <2>1, DonePrompt
<1>6. ASSUME NEW tl \in Toplevels, XSurfaceCommit(tl)
      PROVE  Loyal(W') /\ Prompt /\ Atomic
  <2>1. Done({tl}, {tl}) /\ Heard(tl)
    BY <1>6, XSurfaceCommitDone DEF Heard
  <2>2. QED
    BY <1>6, <2>1, DonePrompt
<1>7. ASSUME NEW t \in TxnId, Timeout(t)
      PROVE  Loyal(W') /\ Prompt /\ Atomic
  <2>1. Loyal(W') /\ Gone(W, W') = {t} /\ Whole(W, W', {})
    BY <1>7, TimeoutDone
  <2>2. QED
    BY <1>7, <2>1 DEF Prompt, Atomic, Whole, Applied, Still
<1>8. CASE Tile \/ MoveOne \/ MoveOneAndTile \/ MapOnly \/ MapFloating \/ MapTiled
           \/ OutputChange
  BY <1>2, <1>8, TileDone, MoveOneDone, MoveOneAndTileDone, MapOnlyDone,
     MapFloatingDone, MapTiledDone, OutputChangeDone
<1>9. QED
  BY <1>1, <1>3, <1>4, <1>5, <1>6, <1>7, <1>8 DEF Next

-----------------------------------------------------------------------------
(* The theorems *)

LEMMA InitLoyal == Init => Loyal(W)
BY DEF Init, W, NewToplevel, Loyal, Alone, Marked, FreedUnmarked, Exclusive

LEMMA AlwaysLoyal == Spec => [](Inv /\ Loyal(W))
<1>1. Loyal(W') => Loyal(W)'
  BY DEF Loyal, Alone, Marked, FreedUnmarked, Exclusive
<1>2. Inv /\ Loyal(W) /\ [Next]_vars => (Inv /\ Loyal(W))'
  BY <1>1, NextInv, NextDone
<1>3. Init => Inv /\ Loyal(W)
  BY InitInv, InitLoyal
<1>4. QED
  BY <1>2, <1>3, PTL DEF Spec

\* A toplevel that is freed has left the current transaction, unless it joined it
\* late or another transaction was alive beside it (the destroy handler,
\* Toplevel.cpp, and TransactionManager::remove_toplevel).
THEOREM FreedLeaves == Spec => []FreedHasLeft
<1>1. Inv /\ Loyal(W) => FreedHasLeft
  BY DEF Inv, Sound, Typed, World, Loyal, Marked, FreedUnmarked, Exclusive, FreedHasLeft, W
<1>2. QED
  BY <1>1, AlwaysLoyal, PTL

\* The current transaction ends in the handler of the last answer or departure it
\* waited for, never in an earlier one; any other only at its timer, having waited
\* for the same toplevels all the time (Transaction::handle_commit and
\* remove_toplevel, which only TransactionManager::current() is told of).
THEOREM LastAnswerEndsIt == Spec => LastAnswerEnds
<1> DEFINE Body ==
      \A t \in Live(W) :
        \/ /\ ~Ended(t)
           /\ txns'[t].waiting = {} => txns[t].waiting = {}
           /\ t # active => txns'[t].waiting = txns[t].waiting
        \/ /\ Ended(t)
           /\ t = active
           /\ \E tl \in Toplevels : txns[t].waiting \subseteq {tl} /\ Heard(tl)
        \/ Timeout(t)
<1>1. \A t \in Live(W) : t \in TxnId /\ W.txns[t].live /\ (Ended(t) <=> t \in Gone(W, W'))
  BY DEF Live, Ended, Gone, W
<1>2. ASSUME Prompt, NEW t \in Live(W), ~Ended(t)
      PROVE  /\ txns'[t].waiting = {} => txns[t].waiting = {}
             /\ t # active => txns'[t].waiting = txns[t].waiting
  <2>1. t \in TxnId /\ W.txns[t].live /\ W'.txns[t].live
    BY <1>1, <1>2 DEF Gone
  <2>2. StillWaits(W, W', t)
    BY <1>2, <2>1 DEF Prompt, Responded
  <2>3. QED
    BY <2>2 DEF StillWaits, W
<1>3. ASSUME Prompt, NEW t \in Live(W), Ended(t)
      PROVE  \/ Timeout(t)
             \/ /\ t = active
                /\ \E tl \in Toplevels : txns[t].waiting \subseteq {tl} /\ Heard(tl)
  BY <1>1, <1>3 DEF Prompt, W
<1>4. Prompt => Body
  BY <1>2, <1>3
<1>5. Inv /\ Loyal(W) /\ [Next]_vars => [Body]_vars
  BY <1>4, NextDone
<1>6. QED
  BY <1>5, AlwaysLoyal, PTL DEF Spec, LastAnswerEnds

\* A layout takes effect as a whole: the step that ends a transaction, whichever it
\* is, gives every member that stays on its workspace the box recorded for it
\* (Transaction::apply), but an X11 window whose own commit ended it; a toplevel that
\* moves while a transaction goes on is moved by hand, or is that X11 window.
THEOREM LayoutIsAtomic == Spec => AtomicLayout
<1> DEFINE Body ==
      /\ \A t \in TxnId : Ended(t) =>
           \A tl \in Members(txns[t]) : StillThere(tl) =>
             \/ tops'[tl].geometry = txns[t].entries[tl] /\ ~tops'[tl].hidden
             \/ XSurfaceCommit(tl)
      /\ (active # None /\ \A t \in TxnId : ~Ended(t)) =>
           \A tl \in Toplevels :
             (StillThere(tl) /\ tops'[tl].geometry # tops[tl].geometry) =>
               MoveByHand(tl) \/ DragOver(tl) \/ ResizeTree \/ XSurfaceCommit(tl)
<1>1. \A tl \in Toplevels : StillThere(tl) => Homed(W, tl) /\ Homed(W', tl)
  BY DEF StillThere, Tileable, Mapped, Homed, W
<1>2. \A t \in TxnId : Ended(t) <=> t \in Gone(W, W')
  BY DEF Ended, Gone, W
<1>3. ASSUME Atomic, NEW t \in TxnId, Ended(t),
             NEW tl \in Members(txns[t]), StillThere(tl)
      PROVE  \/ tops'[tl].geometry = txns[t].entries[tl] /\ ~tops'[tl].hidden
             \/ XSurfaceCommit(tl)
  <2>1. tl \in Toplevels /\ W.txns[t].entries[tl] # None
    BY <1>3 DEF Members, W
  <2>2. Given(W, W', t, tl) \/ XSurfaceCommit(tl)
    BY <1>1, <1>2, <1>3, <2>1 DEF Atomic
  <2>3. QED
    BY <1>1, <1>3, <2>1, <2>2 DEF Given, W
<1>4. ASSUME Atomic, active # None, \A t \in TxnId : ~Ended(t),
             NEW tl \in Toplevels, StillThere(tl), tops'[tl].geometry # tops[tl].geometry
      PROVE  MoveByHand(tl) \/ DragOver(tl) \/ ResizeTree \/ XSurfaceCommit(tl)
  <2>1. Gone(W, W') = {} /\ W.active # None
    BY <1>2, <1>4 DEF Gone, W
  <2>2. W'.tops[tl].geometry # W.tops[tl].geometry
    BY <1>4 DEF W
  <2>3. QED
    BY <1>1, <1>4, <2>1, <2>2 DEF Atomic
<1>5. Atomic => Body
  BY <1>3, <1>4
<1>6. Inv /\ Loyal(W) /\ [Next]_vars => [Body]_vars
  BY <1>5, NextDone
<1>7. QED
  BY <1>6, AlwaysLoyal, PTL DEF Spec, AtomicLayout
=============================================================================
