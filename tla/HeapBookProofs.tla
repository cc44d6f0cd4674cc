--------------------------- MODULE HeapBookProofs ---------------------------
(***************************************************************************)
(* Theorems about the order books, for every finite set of orders and      *)
(* prices.  The heap book: byID and the level lists describe the same      *)
(* orders, the book is reachable and uncrossed until a Cancel deletes from *)
(* the wrong map, and until then every trade has price-time priority.  Its *)
(* adapter: a whole submit is the steps of the heap book and comes to an   *)
(* end, and the adapter is a book such as the engine's theorems are about. *)
(* The three books: each stays the same book as the others for as long as  *)
(* its own defect has not struck it.                                       *)
(*                                                                         *)
(* The invariants are predicates on a book value; each operation has a     *)
(* lemma that says which of them it keeps.                                 *)
(***************************************************************************)
EXTENDS Books, AdapterOps, FiniteSetTheorems, SequenceTheorems, TLAPS

-----------------------------------------------------------------------------
(* Lists *)

\* s without its element at k: shorter by one, the rest in the old order.
LEMMA WithoutProperties ==
  ASSUME NEW S, NEW s \in Seq(S), NEW k \in 1..Len(s)
  PROVE  /\ Without(s, k) \in Seq(S)
         /\ Len(s) \in Nat /\ Len(Without(s, k)) = Len(s) - 1
         /\ \A i \in 1..(Len(s) - 1) : Without(s, k)[i] = IF i < k THEN s[i] ELSE s[i + 1]
<1>1. Len(s) \in Nat /\ Len(s) - 1 \in Nat
  BY LenProperties
<1>2. \A i \in 1..(Len(s) - 1) : (IF i < k THEN s[i] ELSE s[i + 1]) \in S
  BY <1>1, ElementOfSeq
<1>3. Without(s, k) \in [1..(Len(s) - 1) -> S]
  BY <1>2 DEF Without
<1>4. Without(s, k) \in Seq(S) /\ Len(Without(s, k)) = Len(s) - 1
  BY <1>1, <1>3, IsASeq, LenProperties
<1> QED
  BY <1>1, <1>4 DEF Without

LEMMA LeastNatural ==
  ASSUME NEW T \in SUBSET Nat, T # {}
  PROVE  \E x \in T : \A y \in T : x <= y
<1>1. \E x \in T : \A y \in T : ~(<<y, x>> \in OpToRel(<, Nat))
  BY NatLessThanWellFounded, WFMin, Zenon
<1>2. PICK x \in T : \A y \in T : ~(y < x)
  BY <1>1 DEF OpToRel
<1> QED
  BY <1>2

-----------------------------------------------------------------------------
(* Book values *)

\* What the operations are given and the fields they change.
LEMMA BookFields ==
  ASSUME NEW b, IsBook(b)
  PROVE  /\ b.lvl  \in [Sides -> [Prices -> LvIds \cup {NoLv}]]
         /\ b.heap \in [Sides -> SUBSET Prices]
         /\ b.q    \in [LvIds -> Seq(OrderIds)]
         /\ b.node \in [OrderIds -> Node \cup {NoNode}]
         /\ \A i \in OrderIds : b.node[i] # NoNode => b.node[i] \in Node
BY DEF IsBook

\* PopDead takes prices from one heap, but none that a live level has.
LEMMA PopDeadFields ==
  ASSUME NEW b, IsBook(b), NEW s \in Sides
  PROVE  /\ IsBook(PopDead(b, s))
         /\ PopDead(b, s).lvl = b.lvl /\ PopDead(b, s).q = b.q /\ PopDead(b, s).node = b.node
         /\ \A t \in Sides, p \in Prices :
              p \in b.heap[t] /\ Live(b, t, p) => p \in PopDead(b, s).heap[t]
<1> DEFINE h == {p \in b.heap[s] : \E r \in LiveInHeap(b, s) : AtLeast(s, r, p)}
           c == [b EXCEPT !.heap[s] = h]
<1>1. h \in SUBSET Prices
  BY BookFields
<1>2. \A p \in Prices : p \in b.heap[s] /\ Live(b, s, p) => p \in h
  BY PricesAssumption DEF LiveInHeap, AtLeast
<1>3. PopDead(b, s) = c
  BY DEF PopDead
<1> HIDE DEF h
<1>4. IsBook(c) /\ c.lvl = b.lvl /\ c.q = b.q /\ c.node = b.node
      /\ c.heap = [b.heap EXCEPT ![s] = h]
  BY <1>1 DEF IsBook
<1> HIDE DEF c
<1> QED
  BY <1>2, <1>3, <1>4, BookFields

LEMMA UnlinkFields ==
  ASSUME NEW b, IsBook(b), NEW i \in Resting(b),
         NEW k \in 1..Len(b.q[b.node[i].lv]), PosOf(b.q[b.node[i].lv], i) = k
  PROVE  /\ IsBook(Unlink(b, i))
         /\ Unlink(b, i).lvl = b.lvl /\ Unlink(b, i).heap = b.heap
         /\ Unlink(b, i).q = [b.q EXCEPT ![b.node[i].lv] = Without(b.q[b.node[i].lv], k)]
         /\ Unlink(b, i).node = [b.node EXCEPT ![i] = NoNode]
<1> DEFINE l == b.node[i].lv
           w == Without(b.q[l], k)
           c == [b EXCEPT !.q[l] = w, !.node[i] = NoNode]
<1>1. i \in OrderIds /\ l \in LvIds /\ b.q[l] \in Seq(OrderIds)
  BY BookFields DEF Resting, Node
<1>2. w \in Seq(OrderIds)
  BY <1>1, WithoutProperties
<1>3. Unlink(b, i) = c
  BY DEF Unlink
<1> HIDE DEF l, w
<1>4. IsBook(c) /\ c.lvl = b.lvl /\ c.heap = b.heap
      /\ c.q = [b.q EXCEPT ![l] = w] /\ c.node = [b.node EXCEPT ![i] = NoNode]
  BY <1>1, <1>2 DEF IsBook
<1> HIDE DEF c
<1> QED
  BY <1>3, <1>4 DEF l, w

\* Replacing one entry of a map.
LEMMA SetLvlFields ==
  ASSUME NEW b, IsBook(b), NEW s \in Sides, NEW p \in Prices, NEW c,
         c = [b EXCEPT !.lvl[s][p] = NoLv]
  PROVE  /\ IsBook(c) /\ c.heap = b.heap /\ c.q = b.q /\ c.node = b.node
         /\ \A t \in Sides, r \in Prices :
              c.lvl[t][r] = IF t = s /\ r = p THEN NoLv ELSE b.lvl[t][r]
BY DEF IsBook

-----------------------------------------------------------------------------
(* Level objects *)

\* The maps and the orders but one do not use all level objects.
LEMMA FreshExists ==
  ASSUME NEW b, IsBook(b), NEW o \in OrderIds, b.node[o] = NoNode
  PROVE  FreshLv(b) \in LvIds /\ ~InUse(b, FreshLv(b))
<1> SUFFICES ASSUME \A l \in LvIds : InUse(b, l) PROVE FALSE
  BY DEF FreshLv
<1> DEFINE SP == Sides \X Prices
           A == {b.lvl[x[1]][x[2]] : x \in SP}
           R == OrderIds \ {o}
           B == {b.node[i].lv : i \in R}
           f == [x \in SP |-> b.lvl[x[1]][x[2]]]
           g == [i \in R |-> b.node[i].lv]
<1>1. IsFiniteSet(Sides) /\ Cardinality(Sides) = 2
  <2>1. IsFiniteSet({Buy}) /\ Cardinality({Buy}) = 1
    BY FS_Singleton
  <2>2. Sides = {Buy} \cup {Sell} /\ Sell \notin {Buy}
    BY DEF Sides, Buy, Sell
  <2>3. /\ IsFiniteSet({Buy} \cup {Sell})
        /\ Cardinality({Buy} \cup {Sell}) = Cardinality({Buy}) + 1
    BY <2>1, <2>2, FS_AddElement
  <2> QED
    BY <2>1, <2>2, <2>3
<1>2. IsFiniteSet(SP) /\ Cardinality(SP) = 2 * Cardinality(Prices)
  BY <1>1, LevelsAssumption, FS_Product
<1>3. IsFiniteSet(R) /\ Cardinality(R) = Cardinality(OrderIds) - 1
  BY LevelsAssumption, FS_RemoveElement
<1>4. f \in Surjection(SP, A) /\ g \in Surjection(R, B)
  BY Zenon DEF Surjection
<1>5. LvIds \subseteq A \cup B
  <2> SUFFICES ASSUME NEW l \in LvIds PROVE l \in A \cup B
    OBVIOUS
  <2>1. CASE \E s \in Sides, p \in Prices : b.lvl[s][p] = l
    <3>1. PICK s \in Sides, p \in Prices : b.lvl[s][p] = l
      BY <2>1
    <3>2. <<s, p>> \in SP /\ b.lvl[<<s, p>>[1]][<<s, p>>[2]] = l
      BY <3>1
    <3> QED
      BY <3>2
  <2>2. CASE \E i \in OrderIds : b.node[i] # NoNode /\ b.node[i].lv = l
    BY <2>2
  <2> QED
    BY <2>1, <2>2 DEF InUse
<1> HIDE DEF SP, A, R, B, f, g
<1>6. IsFiniteSet(A) /\ Cardinality(A) <= Cardinality(SP)
  BY <1>2, <1>4, FS_Surjection
<1>7. IsFiniteSet(B) /\ Cardinality(B) <= Cardinality(R)
  BY <1>3, <1>4, FS_Surjection
<1>8. /\ IsFiniteSet(A \cup B) /\ IsFiniteSet(A \cap B)
      /\ Cardinality(A \cup B) = Cardinality(A) + Cardinality(B) - Cardinality(A \cap B)
  BY <1>6, <1>7, FS_Union, FS_Intersection
<1>9. Cardinality(LvIds) <= Cardinality(A \cup B)
  BY <1>5, <1>8, FS_Subset
<1>10. /\ Cardinality(A) \in Nat /\ Cardinality(B) \in Nat /\ Cardinality(A \cap B) \in Nat
       /\ Cardinality(A \cup B) \in Nat /\ Cardinality(LvIds) \in Nat
       /\ Cardinality(Prices) \in Nat /\ Cardinality(OrderIds) \in Nat
  BY <1>6, <1>7, <1>8, LevelsAssumption, FS_CardinalityType
<1> QED
  BY <1>2, <1>3, <1>6, <1>7, <1>8, <1>9, <1>10, LevelsAssumption

\* c is b with order o added to level l, the one in the map or a fresh one.
AddsTo(b, o, c, l) ==
  /\ l = b.lvl[o.side][o.price] \/ (b.lvl[o.side][o.price] = NoLv /\ ~InUse(b, l))
  /\ c.q = [b.q EXCEPT ![l] = Append(b.q[l], o.id)]
  /\ c.node = [b.node EXCEPT ![o.id] =
       [side |-> o.side, price |-> o.price, qty |-> o.qty, lv |-> l]]
  /\ \A s \in Sides, p \in Prices :
       c.lvl[s][p] = IF s = o.side /\ p = o.price THEN l ELSE b.lvl[s][p]
  /\ \A s \in Sides, p \in Prices :
       p \in c.heap[s] <=> \/ p \in b.heap[s]
                           \/ s = o.side /\ p = o.price /\ b.lvl[s][p] = NoLv

LEMMA AddFields ==
  ASSUME NEW b, IsBook(b), NEW o \in Order, ~Ignored(b, o)
  PROVE  IsBook(Add(b, o)) /\ \E l \in LvIds : AddsTo(b, o, Add(b, o), l)
<1>1. o.id \in OrderIds /\ o.side \in Sides /\ o.price \in Prices /\ o.qty \in Nat \ {0}
      /\ b.node[o.id] = NoNode
  BY BoundAssumption DEF Ignored, Order
<1> DEFINE old == b.lvl[o.side][o.price]
           l == IF old = NoLv THEN FreshLv(b) ELSE old
           n == [side |-> o.side, price |-> o.price, qty |-> o.qty, lv |-> l]
           h == IF old = NoLv THEN b.heap[o.side] \cup {o.price} ELSE b.heap[o.side]
           a == Append(b.q[l], o.id)
           c == [b EXCEPT !.lvl[o.side][o.price] = l, !.heap[o.side] = h, !.q[l] = a, !.node[o.id] = n]
<1>2. l \in LvIds /\ (l = old \/ (old = NoLv /\ ~InUse(b, l)))
  BY <1>1, FreshExists, BookFields
<1>3. Add(b, o) = c
  BY DEF Add
<1>4. n \in Node /\ h \in SUBSET Prices /\ a \in Seq(OrderIds)
  BY <1>1, <1>2, BookFields, AppendProperties DEF Node
<1>5. \A p \in Prices : p \in h <=> p \in b.heap[o.side] \/ (p = o.price /\ old = NoLv)
  OBVIOUS
<1> HIDE DEF l, n, h, a
<1>6. /\ IsBook(c) /\ c.q = [b.q EXCEPT ![l] = a] /\ c.node = [b.node EXCEPT ![o.id] = n]
      /\ c.heap = [b.heap EXCEPT ![o.side] = h]
      /\ \A s \in Sides, p \in Prices :
           c.lvl[s][p] = IF s = o.side /\ p = o.price THEN l ELSE b.lvl[s][p]
  BY <1>1, <1>2, <1>4 DEF IsBook
<1> HIDE DEF c
<1>7. \A s \in Sides, p \in Prices :
        p \in c.heap[s] <=> \/ p \in b.heap[s]
                            \/ s = o.side /\ p = o.price /\ b.lvl[s][p] = NoLv
  BY <1>1, <1>5, <1>6, BookFields
<1>8. /\ c.q = [b.q EXCEPT ![l] = Append(b.q[l], o.id)]
      /\ c.node = [b.node EXCEPT ![o.id] =
           [side |-> o.side, price |-> o.price, qty |-> o.qty, lv |-> l]]
  BY <1>6 DEF a, n
<1>9. AddsTo(b, o, c, l)
  BY <1>2, <1>6, <1>7, <1>8 DEF AddsTo
<1> QED
  BY <1>2, <1>3, <1>6, <1>9

-----------------------------------------------------------------------------
(* byID and the lists *)

\* Every order in byID is in the list of its level, a list has no order twice, and
\* what is in a list is in byID with that level.
Indexed(b) ==
  /\ \A i \in Resting(b) : \E k \in 1..Len(b.q[b.node[i].lv]) : b.q[b.node[i].lv][k] = i
  /\ \A l \in LvIds : \A k, m \in 1..Len(b.q[l]) : b.q[l][k] = b.q[l][m] => k = m
  /\ \A l \in LvIds : \A k \in 1..Len(b.q[l]) :
       b.node[b.q[l][k]] # NoNode /\ b.node[b.q[l][k]].lv = l

\* Aged(b, r): the lists are in the order of arrival.
Aged(b, r) ==
  \A l \in LvIds : \A k, m \in 1..Len(b.q[l]) : k < m => <<b.q[l][k], b.q[l][m]>> \in r

\* c has no orders but b's, where b had them.
Shrunk(b, c) ==
  \A i \in Resting(c) : /\ i \in Resting(b) /\ c.node[i].side = b.node[i].side
                        /\ c.node[i].price = b.node[i].price /\ c.node[i].lv = b.node[i].lv

LEMMA PosOfResting ==
  ASSUME NEW b, IsBook(b), Indexed(b), NEW i \in Resting(b)
  PROVE  LET s == b.q[b.node[i].lv]
         IN  PosOf(s, i) \in 1..Len(s) /\ s[PosOf(s, i)] = i
BY DEF Indexed, PosOf

LEMMA ListsOfBook ==
  ASSUME NEW b, IsBook(b), NEW l \in LvIds
  PROVE  b.q[l] \in Seq(OrderIds) /\ Len(b.q[l]) \in Nat /\ \A k \in 1..Len(b.q[l]) : b.q[l][k] \in OrderIds
BY BookFields, LenProperties, ElementOfSeq

\* Unlinking one order leaves the others where they were.
LEMMA UnlinkIndexed ==
  ASSUME NEW b, IsBook(b), Indexed(b), NEW i \in Resting(b)
  PROVE  /\ IsBook(Unlink(b, i)) /\ Indexed(Unlink(b, i)) /\ Shrunk(b, Unlink(b, i))
         /\ Resting(Unlink(b, i)) = Resting(b) \ {i}
         /\ Unlink(b, i).lvl = b.lvl /\ Unlink(b, i).heap = b.heap
         /\ \A j \in OrderIds \ {i} : Unlink(b, i).node[j] = b.node[j]
         /\ \A l \in LvIds \ {b.node[i].lv} : Unlink(b, i).q[l] = b.q[l]
         /\ \A r : Aged(b, r) =>
              Aged(Unlink(b, i), r \cap (Resting(Unlink(b, i)) \X Resting(Unlink(b, i))))
<1> DEFINE l == b.node[i].lv
           s == b.q[l]
           k == PosOf(s, i)
           w == Without(s, k)
           c == Unlink(b, i)
<1>1. i \in OrderIds /\ b.node[i] # NoNode /\ l \in LvIds
  BY BookFields DEF Resting, Node
<1>2. k \in 1..Len(s) /\ s[k] = i /\ s \in Seq(OrderIds) /\ Len(s) \in Nat
  BY <1>1, PosOfResting, ListsOfBook
<1>3. Len(w) = Len(s) - 1 /\ \A j \in 1..(Len(s) - 1) : w[j] = IF j < k THEN s[j] ELSE s[j + 1]
  BY <1>2, WithoutProperties
<1>4. /\ IsBook(c) /\ c.lvl = b.lvl /\ c.heap = b.heap
      /\ c.q = [b.q EXCEPT ![l] = w] /\ c.node = [b.node EXCEPT ![i] = NoNode]
  BY <1>2, UnlinkFields
<1>5. /\ c.q[l] = w /\ \A x \in LvIds \ {l} : c.q[x] = b.q[x]
      /\ c.node[i] = NoNode /\ \A j \in OrderIds \ {i} : c.node[j] = b.node[j]
  BY <1>1, <1>4, BookFields
<1>6. Resting(c) = Resting(b) \ {i}
  BY <1>1, <1>5 DEF Resting
<1>7. Shrunk(b, c)
  BY <1>5, <1>6 DEF Shrunk, Resting
<1> HIDE DEF c, w, k, s, l
<1> DEFINE old(j) == IF j < k THEN j ELSE j + 1
<1>8. \A j \in 1..Len(w) : old(j) \in 1..Len(s) /\ old(j) # k /\ w[j] = s[old(j)]
  <2> SUFFICES ASSUME NEW j \in 1..Len(w)
               PROVE  old(j) \in 1..Len(s) /\ old(j) # k /\ w[j] = s[old(j)]
    OBVIOUS
  <2>1. j \in 1..(Len(s) - 1) /\ w[j] = s[old(j)]
    BY <1>3
  <2>2. old(j) \in 1..Len(s) /\ old(j) # k
    BY <2>1, <1>2
  <2> QED
    BY <2>1, <2>2
<1>9. \A j, m \in 1..Len(w) : (j < m => old(j) < old(m)) /\ (old(j) = old(m) => j = m)
  <2>1. k \in Int
    BY <1>2
  <2> QED
    BY <2>1
<1>10. /\ \A x, y \in 1..Len(s) : s[x] = s[y] => x = y
       /\ \A x \in 1..Len(s) : s[x] \in OrderIds
       /\ \A j \in 1..Len(w) : w[j] # i /\ w[j] \in OrderIds
  <2>1. \A x, y \in 1..Len(s) : s[x] = s[y] => x = y
    BY <1>1 DEF Indexed, s
  <2>2. \A x \in 1..Len(s) : s[x] \in OrderIds
    BY <1>1, ListsOfBook DEF s
  <2> HIDE DEF old
  <2> QED
    BY <1>2, <1>8, <2>1, <2>2
<1>11. Indexed(c)
  <2>1. ASSUME NEW j \in Resting(c) PROVE \E m \in 1..Len(c.q[c.node[j].lv]) : c.q[c.node[j].lv][m] = j
    <3>1. j \in Resting(b) /\ j # i /\ c.node[j] = b.node[j] /\ b.node[j].lv \in LvIds
      BY <1>5, <1>6, BookFields DEF Resting, Node
    <3>2. PICK m \in 1..Len(b.q[b.node[j].lv]) : b.q[b.node[j].lv][m] = j
      BY <3>1 DEF Indexed
    <3>3. CASE b.node[j].lv # l
      BY <1>5, <3>1, <3>2, <3>3
    <3>4. CASE b.node[j].lv = l
      <4>1. m \in 1..Len(s) /\ s[m] = j /\ m # k
        BY <1>2, <3>1, <3>2, <3>4 DEF s
      <4> DEFINE x == IF m < k THEN m ELSE m - 1
      <4>2. x \in 1..Len(w) /\ old(x) = m
        BY <1>2, <1>3, <4>1
      <4> QED
        BY <1>5, <1>8, <3>1, <3>4, <4>1, <4>2
    <3> QED
      BY <3>3, <3>4
  <2>2. ASSUME NEW x \in LvIds, NEW j \in 1..Len(c.q[x]), NEW m \in 1..Len(c.q[x]), c.q[x][j] = c.q[x][m]
        PROVE  j = m
    <3>1. CASE x = l
      <4>1. j \in 1..Len(w) /\ m \in 1..Len(w) /\ w[j] = w[m]
        BY <1>5, <2>2, <3>1
      <4> HIDE DEF old
      <4>2. old(j) = old(m)
        BY <1>8, <1>10, <4>1
      <4> QED
        BY <1>9, <4>1, <4>2
    <3> QED
      BY <1>5, <2>2, <3>1 DEF Indexed
  <2>3. ASSUME NEW x \in LvIds, NEW j \in 1..Len(c.q[x])
        PROVE  c.node[c.q[x][j]] # NoNode /\ c.node[c.q[x][j]].lv = x
    <3>1. CASE x = l
      <4>1. c.q[x][j] = s[old(j)] /\ old(j) \in 1..Len(s) /\ c.q[x][j] \in OrderIds \ {i}
        BY <1>5, <1>8, <1>10, <3>1
      <4>2. b.node[s[old(j)]] # NoNode /\ b.node[s[old(j)]].lv = l
        BY <1>1, <4>1 DEF Indexed, s
      <4> QED
        BY <1>5, <3>1, <4>1, <4>2
    <3>2. CASE x # l
      <4>1. c.q[x] = b.q[x] /\ b.node[b.q[x][j]] # NoNode /\ b.node[b.q[x][j]].lv = x /\ b.q[x][j] \in OrderIds
        BY <1>5, <3>2, ListsOfBook DEF Indexed
      <4>2. b.q[x][j] # i
        BY <3>2, <4>1 DEF l
      <4> QED
        BY <1>5, <4>1, <4>2
    <3> QED
      BY <3>1, <3>2
  <2> QED
    BY <2>1, <2>2, <2>3 DEF Indexed
<1>12. ASSUME NEW r, Aged(b, r) PROVE Aged(c, r \cap (Resting(c) \X Resting(c)))
  <2> SUFFICES ASSUME NEW x \in LvIds, NEW j \in 1..Len(c.q[x]), NEW m \in 1..Len(c.q[x]), j < m
               PROVE  <<c.q[x][j], c.q[x][m]>> \in r \cap (Resting(c) \X Resting(c))
    BY DEF Aged
  <2>1. c.q[x][j] \in Resting(c) /\ c.q[x][m] \in Resting(c)
    BY <1>4, <1>11, ListsOfBook DEF Indexed, Resting
  <2>2. CASE x = l
    <3>1. old(j) \in 1..Len(s) /\ old(m) \in 1..Len(s) /\ old(j) < old(m)
      BY <1>5, <1>8, <1>9, <2>2
    <3>2. <<s[old(j)], s[old(m)]>> \in r
      BY <1>1, <1>12, <3>1 DEF Aged, s
    <3> QED
      BY <1>5, <1>8, <2>1, <2>2, <3>2
  <2>3. CASE x # l
    BY <1>5, <1>12, <2>1, <2>3 DEF Aged
  <2> QED
    BY <2>2, <2>3
<1> QED
  BY <1>4, <1>5, <1>6, <1>7, <1>11, <1>12 DEF c, l

\* A book whose maps or heaps alone have changed has the same orders.
LEMMA SameLists ==
  ASSUME NEW b, NEW c, c.q = b.q, c.node = b.node
  PROVE  /\ Resting(c) = Resting(b) /\ Shrunk(b, c)
         /\ Indexed(b) => Indexed(c)
         /\ \A r : Aged(b, r) => Aged(c, r)
BY DEF Resting, Shrunk, Indexed, Aged

\* With a relation on more than the resting orders.
LEMMA AgedResting ==
  ASSUME NEW b, IsBook(b), Indexed(b), NEW r, Aged(b, r)
  PROVE  Aged(b, r \cap (Resting(b) \X Resting(b)))
<1> SUFFICES ASSUME NEW l \in LvIds, NEW k \in 1..Len(b.q[l]), NEW m \in 1..Len(b.q[l]), k < m
             PROVE  <<b.q[l][k], b.q[l][m]>> \in r \cap (Resting(b) \X Resting(b))
  BY DEF Aged
<1>1. b.q[l][k] \in Resting(b) /\ b.q[l][m] \in Resting(b)
  BY ListsOfBook DEF Indexed, Resting
<1> QED
  BY <1>1 DEF Aged

\* The relation Arrived keeps, when no order is new.
Kept(b, r) == r \cap (Resting(b) \X Resting(b))

LEMMA PopDeadIndexed ==
  ASSUME NEW b, IsBook(b), Indexed(b), NEW s \in Sides
  PROVE  /\ IsBook(PopDead(b, s)) /\ Indexed(PopDead(b, s)) /\ Shrunk(b, PopDead(b, s))
         /\ Resting(PopDead(b, s)) = Resting(b)
         /\ \A r : Aged(b, r) => Aged(PopDead(b, s), r)
<1> DEFINE c == PopDead(b, s)
<1>1. IsBook(c) /\ c.q = b.q /\ c.node = b.node
  BY PopDeadFields
<1> HIDE DEF c
<1> QED
  BY <1>1, SameLists DEF c

\* Every set of prices has a best one.
LEMMA BestOfPrices ==
  ASSUME NEW s \in Sides, NEW H, H \subseteq Prices, H # {}
  PROVE  \E p \in H : \A r \in H : AtLeast(s, p, r)
<1> DEFINE Good(T) == \E p \in T : \A r \in T : AtLeast(s, p, r)
           Bad == {n \in Nat : \E T \in SUBSET H : T # {} /\ Cardinality(T) = n /\ ~Good(T)}
<1>1. H \subseteq Int /\ IsFiniteSet(H)
  BY PricesAssumption, LevelsAssumption, FS_Subset
<1>2. Bad = {}
  <2> SUFFICES ASSUME Bad # {} PROVE FALSE
    OBVIOUS
  <2>1. PICK n \in Bad : \A m \in Bad : n <= m
    <3>1. Bad \in SUBSET Nat
      OBVIOUS
    <3> HIDE DEF Bad
    <3> QED
      BY <3>1, LeastNatural
  <2>2. PICK T \in SUBSET H : T # {} /\ Cardinality(T) = n /\ ~Good(T)
    OBVIOUS
  <2>3. PICK x \in T : TRUE
    BY <2>2
  <2> DEFINE U == T \ {x}
  <2>4. IsFiniteSet(T) /\ IsFiniteSet(U) /\ n \in Nat /\ Cardinality(U) = n - 1 /\ Cardinality(U) \in Nat
    <3>1. IsFiniteSet(T)
      BY <1>1, FS_Subset
    <3> QED
      BY <2>2, <2>3, <3>1, FS_RemoveElement, FS_CardinalityType
  <2>5. U \in SUBSET H /\ Cardinality(U) \notin Bad
    <3>1. ~(n <= n - 1)
      BY <2>4
    <3> QED
      BY <2>1, <2>4, <3>1
  <2>6. U = {} \/ Good(U)
    BY <2>4, <2>5
  <2>7. \A p, r \in T : p \in Int /\ r \in Int
    BY <1>1
  <2>8. CASE U = {}
    <3>1. T = {x} /\ AtLeast(s, x, x)
      BY <2>3, <2>7, <2>8 DEF AtLeast
    <3> QED
      BY <2>2, <3>1
  <2>9. CASE Good(U)
    <3>1. PICK y \in U : \A r \in U : AtLeast(s, y, r)
      BY <2>9
    <3>2. CASE AtLeast(s, x, y)
      <4>1. \A r \in T : AtLeast(s, x, r)
        BY <2>3, <2>7, <3>1, <3>2 DEF AtLeast
      <4> QED
        BY <2>2, <2>3, <4>1
    <3>3. CASE ~AtLeast(s, x, y)
      <4>1. \A r \in T : AtLeast(s, y, r)
        BY <2>3, <2>7, <3>1, <3>3 DEF AtLeast
      <4> QED
        BY <2>2, <3>1, <4>1
    <3> QED
      BY <3>2, <3>3
  <2> QED
    BY <2>6, <2>8, <2>9
<1>3. Good(H)
  <2>1. Cardinality(H) \in Nat
    BY <1>1, FS_CardinalityType
  <2> QED
    BY <1>2, <2>1
<1> QED
  BY <1>3

\* The price a match trades at exists.
LEMMA BestExists ==
  ASSUME NEW b, IsBook(b), NEW s \in Sides, LiveInHeap(b, s) # {}
  PROVE  /\ Best(b, s) \in LiveInHeap(b, s)
         /\ \A r \in LiveInHeap(b, s) : AtLeast(s, Best(b, s), r)
<1>1. LiveInHeap(b, s) \subseteq Prices
  BY BookFields DEF LiveInHeap
<1> QED
  BY <1>1, BestOfPrices DEF Best

LEMMA AddIndexed ==
  ASSUME NEW b, IsBook(b), Indexed(b), NEW o \in Order, ~Ignored(b, o)
  PROVE  /\ IsBook(Add(b, o)) /\ Indexed(Add(b, o))
         /\ Resting(Add(b, o)) = Resting(b) \cup {o.id}
         /\ \A r : Aged(b, r) => Aged(Add(b, o), Kept(b, r) \cup (Resting(b) \X {o.id}))
<1> DEFINE c == Add(b, o)
           id == o.id
<1>0. id \in OrderIds /\ b.node[id] = NoNode
  BY DEF Ignored, Order
<1>a. IsBook(c) /\ \E l \in LvIds : AddsTo(b, o, c, l)
  BY AddFields
<1> HIDE DEF c
<1>b. PICK l \in LvIds : AddsTo(b, o, c, l)
  BY <1>a
<1>1. /\ IsBook(c) /\ c.q = [b.q EXCEPT ![l] = Append(b.q[l], id)]
      /\ c.node = [b.node EXCEPT ![id] =
           [side |-> o.side, price |-> o.price, qty |-> o.qty, lv |-> l]]
  BY <1>a, <1>b DEF AddsTo
<1> HIDE DEF id
<1> DEFINE s == b.q[l]
           n == Len(s)
<1>2. /\ c.q[l] = Append(s, id) /\ \A x \in LvIds \ {l} : c.q[x] = b.q[x]
      /\ c.node[id].lv = l /\ \A j \in OrderIds \ {id} : c.node[j] = b.node[j]
  BY <1>0, <1>1, BookFields
<1>3. c.node[id] # NoNode
  <2>1. c.node[id] = [side |-> o.side, price |-> o.price, qty |-> o.qty, lv |-> l]
    BY <1>0, <1>1, BookFields
  <2>2. [side |-> o.side, price |-> o.price, qty |-> o.qty, lv |-> l] \in Node
    BY BoundAssumption DEF Ignored, Order, Node
  <2> QED
    BY <2>1, <2>2, NilAssumption
<1>4. /\ n \in Nat /\ Len(c.q[l]) = n + 1 /\ c.q[l][n + 1] = id
      /\ \A k \in 1..n : c.q[l][k] = s[k] /\ s[k] \in OrderIds
  BY <1>0, <1>2, ListsOfBook, AppendProperties
<1>5. \A x \in LvIds : \A k \in 1..Len(b.q[x]) :
        b.q[x][k] \in Resting(b) /\ b.q[x][k] # id /\ b.node[b.q[x][k]].lv = x
  BY <1>0, ListsOfBook DEF Indexed, Resting
<1>6. Resting(c) = Resting(b) \cup {id}
  BY <1>0, <1>2, <1>3 DEF Resting
<1>7. Indexed(c)
  <2>1. ASSUME NEW i \in Resting(c) PROVE \E k \in 1..Len(c.q[c.node[i].lv]) : c.q[c.node[i].lv][k] = i
    <3>1. CASE i = id
      <4>1. n + 1 \in 1..Len(c.q[l])
        BY <1>4
      <4> QED
        BY <1>2, <1>4, <3>1, <4>1
    <3>2. CASE i # id
      <4>1. i \in Resting(b) /\ c.node[i] = b.node[i] /\ b.node[i].lv \in LvIds
        BY <1>2, <1>6, <3>2, BookFields DEF Resting, Node
      <4>2. PICK k \in 1..Len(b.q[b.node[i].lv]) : b.q[b.node[i].lv][k] = i
        BY <4>1 DEF Indexed
      <4>3. CASE b.node[i].lv = l
        <5>1. k \in 1..Len(c.q[l]) /\ c.q[l][k] = i
          BY <1>4, <4>2, <4>3
        <5> QED
          BY <4>1, <4>3, <5>1
      <4> QED
        BY <1>2, <4>1, <4>2, <4>3
    <3> QED
      BY <3>1, <3>2
  <2>2. ASSUME NEW x \in LvIds, NEW k \in 1..Len(c.q[x]), NEW m \in 1..Len(c.q[x]), c.q[x][k] = c.q[x][m]
        PROVE  k = m
    <3>1. CASE x # l
      BY <1>2, <2>2, <3>1 DEF Indexed
    <3>2. CASE x = l
      <4>1. \A y, z \in 1..n : s[y] = s[z] => y = z
        BY DEF Indexed
      <4>2. \A y \in 1..n : s[y] # id
        BY <1>5
      <4>3. (k \in 1..n \/ k = n + 1) /\ (m \in 1..n \/ m = n + 1)
        BY <1>4, <3>2
      <4> HIDE DEF n, s
      <4> QED
        BY <1>4, <2>2, <3>2, <4>1, <4>2, <4>3
    <3> QED
      BY <3>1, <3>2
  <2>3. ASSUME NEW x \in LvIds, NEW k \in 1..Len(c.q[x])
        PROVE  c.node[c.q[x][k]] # NoNode /\ c.node[c.q[x][k]].lv = x
    <3>1. CASE x = l /\ k = n + 1
      BY <1>2, <1>3, <1>4, <3>1
    <3>2. CASE ~(x = l /\ k = n + 1)
      <4>1. k \in 1..Len(b.q[x]) /\ c.q[x][k] = b.q[x][k]
        <5>1. CASE x = l
          <6>1. k \in 1..n
            BY <1>4, <3>2, <5>1
          <6> QED
            BY <5>1, <6>1, <1>4
        <5>2. CASE x # l
          BY <5>2, <1>2
        <5> QED
          BY <5>1, <5>2
      <4> QED
        BY <1>2, <1>5, <4>1 DEF Resting
    <3> QED
      BY <3>1, <3>2
  <2> QED
    BY <2>1, <2>2, <2>3 DEF Indexed
<1>8. ASSUME NEW r, Aged(b, r) PROVE Aged(c, Kept(b, r) \cup (Resting(b) \X {id}))
  <2> SUFFICES ASSUME NEW x \in LvIds, NEW k \in 1..Len(c.q[x]), NEW m \in 1..Len(c.q[x]), k < m
               PROVE  <<c.q[x][k], c.q[x][m]>> \in Kept(b, r) \cup (Resting(b) \X {id})
    BY DEF Aged
  <2>1. k \in 1..Len(b.q[x]) /\ c.q[x][k] = b.q[x][k] /\ c.q[x][k] \in Resting(b)
    <3>1. CASE x = l
      BY <1>4, <1>5, <3>1, SMTT(30)
    <3> QED
      BY <1>2, <1>5, <3>1
  <2>2. CASE x = l /\ m = n + 1
    BY <1>4, <2>1, <2>2
  <2>3. CASE ~(x = l /\ m = n + 1)
    <3>1. m \in 1..Len(b.q[x]) /\ c.q[x][m] = b.q[x][m]
      <4>1. CASE x = l
        <5>1. m \in 1..n
          BY <1>4, <2>3, <4>1
        <5> QED
          BY <1>4, <4>1, <5>1
      <4> QED
        BY <1>2, <4>1
    <3>2. <<b.q[x][k], b.q[x][m]>> \in r
      BY <1>8, <2>1, <3>1 DEF Aged
    <3> QED
      BY <1>5, <2>1, <3>1, <3>2 DEF Kept
  <2> QED
    BY <2>2, <2>3
<1> QED
  BY <1>1, <1>6, <1>7, <1>8 DEF c, id

-----------------------------------------------------------------------------
(* A trade *)

\* The maker is the first order of the best level and rests there.
LEMMA MakerFacts ==
  ASSUME NEW b, IsBook(b), Indexed(b), NEW t \in Order, t.side \in Sides, CanMatch(b, t)
  PROVE  LET s == Opp(t.side)
             p == Best(b, s)
             l == b.lvl[s][p]
             m == Maker(b, t)
             x == Exec(b, t)
         IN  /\ s \in Sides /\ p \in Prices /\ l \in LvIds /\ b.q[l] # <<>>
             /\ p \in LiveInHeap(b, s) /\ \A r \in LiveInHeap(b, s) : AtLeast(s, p, r)
             /\ 1 \in 1..Len(b.q[l]) /\ m = b.q[l][1] /\ m \in Resting(b) /\ b.node[m].lv = l
             /\ b.node[m].qty \in Nat /\ x \in 1..t.qty /\ x <= b.node[m].qty
<1> DEFINE s == Opp(t.side)
           p == Best(b, s)
           l == b.lvl[s][p]
           m == Maker(b, t)
<1>1. s \in Sides
  BY DEF Opp, Sides
<1>2. p \in LiveInHeap(b, s) /\ \A r \in LiveInHeap(b, s) : AtLeast(s, p, r)
  BY <1>1, BestExists DEF CanMatch
<1>3. p \in Prices /\ l \in LvIds /\ b.q[l] # <<>>
  BY <1>1, <1>2, BookFields DEF LiveInHeap, Live
<1>4. b.q[l] \in Seq(OrderIds) /\ m = b.q[l][1] /\ 1 \in 1..Len(b.q[l])
  <2>1. b.q[l] \in Seq(OrderIds)
    BY <1>3, ListsOfBook
  <2>2. m = Head(b.q[l])
    BY DEF Maker
  <2> HIDE DEF m, l
  <2> QED
    BY <1>3, <2>1, <2>2, EmptySeq, HeadTailProperties
<1>5. m \in Resting(b) /\ b.node[m].lv = l /\ b.node[m] \in Node
  <2>1. m \in OrderIds
    BY <1>3, <1>4, ListsOfBook
  <2>2. b.node[b.q[l][1]] # NoNode /\ b.node[b.q[l][1]].lv = l
    BY <1>3, <1>4, Zenon DEF Indexed
  <2> HIDE DEF m, l
  <2> QED
    BY <1>4, <2>1, <2>2, BookFields DEF Resting
<1>6. b.node[m].qty \in Nat \ {0} /\ t.qty \in Nat \ {0}
  BY <1>5, BoundAssumption DEF Node, CanMatch, Order
<1>7. Exec(b, t) \in 1..t.qty /\ Exec(b, t) <= b.node[m].qty
  BY <1>6 DEF Exec
<1> QED
  BY <1>1, <1>2, <1>3, <1>4, <1>5, <1>6, <1>7, Zenon

\* The maker, or a cancelled order, is taken from its list; a map may lose a level.
LEMMA RemovedIndexed ==
  ASSUME NEW b, IsBook(b), Indexed(b), NEW i \in Resting(b), NEW s \in Sides, NEW p \in Prices, NEW c,
         c \in {Unlink(b, i), [Unlink(b, i) EXCEPT !.lvl[s][p] = NoLv]}
  PROVE  /\ IsBook(c) /\ Indexed(c) /\ Shrunk(b, c)
         /\ Resting(c) = Resting(b) \ {i}
         /\ \A j \in OrderIds \ {i} : c.node[j] = b.node[j]
         /\ \A r : Aged(b, r) => Aged(c, Kept(c, r))
<1> DEFINE u == Unlink(b, i)
<1>1. /\ IsBook(u) /\ Indexed(u) /\ Shrunk(b, u) /\ Resting(u) = Resting(b) \ {i}
      /\ \A j \in OrderIds \ {i} : u.node[j] = b.node[j]
      /\ \A r : Aged(b, r) => Aged(u, Kept(u, r))
  BY UnlinkIndexed DEF Kept
<1>2. c = u \/ c = [u EXCEPT !.lvl[s][p] = NoLv]
  OBVIOUS
<1> HIDE DEF u
<1>3. IsBook(c) /\ c.q = u.q /\ c.node = u.node
  BY <1>1, <1>2, SetLvlFields
<1>4. /\ Indexed(c) /\ Resting(c) = Resting(u) /\ \A r : Aged(u, r) => Aged(c, r)
  BY <1>1, <1>3, SameLists
<1>5. Shrunk(b, c)
  BY <1>1, <1>3, <1>4 DEF Shrunk
<1>6. \A r : Aged(b, r) => Aged(c, Kept(c, r))
  BY <1>1, <1>4 DEF Kept
<1> QED
  BY <1>1, <1>3, <1>4, <1>5, <1>6

LEMMA CancelIndexed ==
  ASSUME NEW b, IsBook(b), Indexed(b), NEW i \in Resting(b), NEW seen
  PROVE  /\ IsBook(Cancel(b, i, seen)) /\ Indexed(Cancel(b, i, seen))
         /\ Shrunk(b, Cancel(b, i, seen))
         /\ \A r : Aged(b, r) => Aged(Cancel(b, i, seen), Kept(Cancel(b, i, seen), r))
<1> DEFINE c == Cancel(b, i, seen)
           d == CancelDeletesFrom(seen)
           p == b.node[i].price
<1>1. d \in Sides /\ p \in Prices
  BY BookFields DEF CancelDeletesFrom, Sides, Resting, Node
<1>2. c \in {Unlink(b, i), [Unlink(b, i) EXCEPT !.lvl[d][p] = NoLv]}
  BY DEF Cancel
<1> HIDE DEF c, d, p
<1> QED
  BY <1>1, <1>2, RemovedIndexed DEF c

\* A trade that does not fill the maker.
LEMMA ReducedIndexed ==
  ASSUME NEW b, IsBook(b), Indexed(b), NEW i \in Resting(b), NEW x \in Nat, x < b.node[i].qty,
         NEW c, c = [b EXCEPT !.node[i] = Reduced(@, x)]
  PROVE  /\ IsBook(c) /\ Indexed(c) /\ Shrunk(b, c) /\ Shrunk(c, b)
         /\ c.lvl = b.lvl /\ c.heap = b.heap /\ c.q = b.q
         /\ Resting(c) = Resting(b)
         /\ \A j \in OrderIds \ {i} : c.node[j] = b.node[j]
<1> DEFINE n == Reduced(b.node[i], x)
<1>1. i \in OrderIds /\ b.node[i] \in Node /\ b.node[i] # NoNode
  BY BookFields DEF Resting
<1>2. n \in Node /\ n.side = b.node[i].side /\ n.price = b.node[i].price /\ n.lv = b.node[i].lv
  BY <1>1 DEF Reduced, Node
<1>3. c = [b EXCEPT !.node[i] = n]
  OBVIOUS
<1> HIDE DEF n
<1>4. /\ IsBook(c) /\ c.lvl = b.lvl /\ c.heap = b.heap /\ c.q = b.q
      /\ c.node = [b.node EXCEPT ![i] = n]
  <2>1. b.node \in [OrderIds -> Node \cup {NoNode}]
    BY BookFields
  <2>2. [b.node EXCEPT ![i] = n] \in [OrderIds -> Node \cup {NoNode}]
    BY <1>2, <2>1
  <2>3. c = [b EXCEPT !.node = [b.node EXCEPT ![i] = n]]
    BY <1>3
  <2> QED
    BY <2>2, <2>3 DEF IsBook
<1>5. /\ \A j \in OrderIds \ {i} : c.node[j] = b.node[j]
      /\ c.node[i] = n /\ n # NoNode
  BY <1>1, <1>2, <1>4, BookFields, NilAssumption
<1>6. \A j \in OrderIds : /\ c.node[j] # NoNode <=> b.node[j] # NoNode
                          /\ b.node[j] # NoNode => /\ c.node[j].side = b.node[j].side
                                                    /\ c.node[j].price = b.node[j].price
                                                    /\ c.node[j].lv = b.node[j].lv
  BY <1>1, <1>2, <1>5, Zenon
<1>7. Resting(c) = Resting(b) /\ Shrunk(b, c) /\ Shrunk(c, b)
  BY <1>6 DEF Resting, Shrunk
<1>8. \A l \in LvIds : \A k \in 1..Len(b.q[l]) : b.q[l][k] \in OrderIds
  BY ListsOfBook
<1>9. Indexed(c)
  <2>1. \A j \in Resting(c) : \E k \in 1..Len(c.q[c.node[j].lv]) : c.q[c.node[j].lv][k] = j
    <3>1. \A j \in Resting(b) : c.node[j].lv = b.node[j].lv
      BY <1>6, Zenon DEF Resting
    <3> QED
      BY <1>4, <1>7, <3>1 DEF Indexed
  <2>2. \A l \in LvIds : \A k \in 1..Len(c.q[l]) :
          c.node[c.q[l][k]] # NoNode /\ c.node[c.q[l][k]].lv = l
    BY <1>4, <1>6, <1>8 DEF Indexed
  <2> QED
    BY <1>4, <2>1, <2>2 DEF Indexed
<1> QED
  BY <1>4, <1>5, <1>7, <1>9

\* The two outcomes of a trade: the maker is reduced or removed.
LEMMA MatchOneCases ==
  ASSUME NEW b, IsBook(b), Indexed(b), NEW t \in Order, t.side \in Sides, CanMatch(b, t)
  PROVE  LET s == Opp(t.side)
             m == Maker(b, t)
             p == Best(b, s)
             b1 == PopDead(b, s)
             c == MatchOne(b, t)
         IN  \/ Exec(b, t) < b1.node[m].qty /\ c = [b1 EXCEPT !.node[m] = Reduced(@, Exec(b, t))]
             \/ c = IF Unlink(b1, m).q[b1.node[m].lv] = <<>>
                    THEN [Unlink(b1, m) EXCEPT !.lvl[s][p] = NoLv]
                    ELSE Unlink(b1, m)
<1>1. Opp(t.side) \in Sides
  BY DEF Opp, Sides
<1>2. PopDead(b, Opp(t.side)).node = b.node
  BY <1>1, PopDeadFields
<1> QED
  BY <1>2 DEF MatchOne

LEMMA MatchOneIndexed ==
  ASSUME NEW b, IsBook(b), Indexed(b), NEW t \in Order, t.side \in Sides, CanMatch(b, t)
  PROVE  /\ IsBook(MatchOne(b, t)) /\ Indexed(MatchOne(b, t)) /\ Shrunk(b, MatchOne(b, t))
         /\ \A j \in OrderIds : j # Maker(b, t) => MatchOne(b, t).node[j] = b.node[j]
         /\ \A r : Aged(b, r) => Aged(MatchOne(b, t), Kept(MatchOne(b, t), r))
<1> DEFINE s == Opp(t.side)
           m == Maker(b, t)
           p == Best(b, s)
           x == Exec(b, t)
           b1 == PopDead(b, s)
           c == MatchOne(b, t)
<1>1. s \in Sides /\ p \in Prices /\ m \in Resting(b) /\ x \in 1..t.qty
  BY MakerFacts
<1>2. x \in Nat
  BY <1>1 DEF Order
<1>3. /\ IsBook(b1) /\ Indexed(b1) /\ b1.node = b.node /\ Resting(b1) = Resting(b)
      /\ \A r : Aged(b, r) => Aged(b1, r)
  BY <1>1, PopDeadFields, PopDeadIndexed
<1>4. \/ x < b1.node[m].qty /\ c = [b1 EXCEPT !.node[m] = Reduced(@, x)]
      \/ c \in {Unlink(b1, m), [Unlink(b1, m) EXCEPT !.lvl[s][p] = NoLv]}
  BY MatchOneCases
<1> HIDE DEF s, m, p, x, b1, c
<1>5. ASSUME Shrunk(b1, c) PROVE Shrunk(b, c)
  BY <1>3, <1>5 DEF Shrunk
<1>6. CASE x < b1.node[m].qty /\ c = [b1 EXCEPT !.node[m] = Reduced(@, x)]
  <2>1. /\ IsBook(c) /\ Indexed(c) /\ Shrunk(b1, c) /\ c.q = b1.q /\ Resting(c) = Resting(b)
        /\ \A j \in OrderIds \ {m} : c.node[j] = b.node[j]
    BY <1>1, <1>2, <1>3, <1>6, ReducedIndexed
  <2>2. \A r : Aged(b, r) => Aged(c, r)
    BY <1>3, <2>1 DEF Aged
  <2>3. \A r : Aged(c, r) => Aged(c, Kept(c, r))
    BY <2>1, AgedResting DEF Kept
  <2> QED
    BY <1>5, <2>1, <2>2, <2>3 DEF c, m
<1>7. CASE c \in {Unlink(b1, m), [Unlink(b1, m) EXCEPT !.lvl[s][p] = NoLv]}
  <2>1. /\ IsBook(c) /\ Indexed(c) /\ Shrunk(b1, c)
        /\ \A j \in OrderIds \ {m} : c.node[j] = b.node[j]
        /\ \A r : Aged(b1, r) => Aged(c, Kept(c, r))
    BY <1>1, <1>3, <1>7, RemovedIndexed
  <2> QED
    BY <1>3, <1>5, <2>1 DEF c, m
<1> QED
  BY <1>4, <1>6, <1>7

-----------------------------------------------------------------------------
(* The lists of the running book *)

IndexInv == TypeOK /\ Indexed(book) /\ Aged(book, older)

LEMMA InitIndexInv == Init => IndexInv
<1> SUFFICES ASSUME Init PROVE IndexInv
  OBVIOUS
<1>1. \A l \in LvIds : book.q[l] = <<>>
  BY DEF Init, EmptyBook
<1>2. Resting(book) = {}
  BY DEF Init, EmptyBook, Resting
<1>3. IsBook(book)
  BY DEF Init, EmptyBook, IsBook
<1>4. TypeOK
  BY <1>3 DEF Init, TypeOK
<1>5. Indexed(book) /\ Aged(book, older)
  BY <1>1, <1>2 DEF Indexed, Aged
<1> QED
  BY <1>4, <1>5 DEF IndexInv

LEMMA ArrivedNothing ==
  ASSUME NEW b
  PROVE  Arrived(b, {}) = Kept(b, older)
BY DEF Arrived, Kept

\* An order SubmitLimit is matching has a side.
TakerHasSide == taker # NoTaker => taker \in Order /\ taker.side \in Sides

LEMMA NextIndexInv ==
  ASSUME IndexInv, TakerHasSide, [Next]_vars
  PROVE  IndexInv' /\ TakerHasSide'
<1>0. IsBook(book) /\ Indexed(book) /\ Aged(book, older)
  BY DEF IndexInv, TypeOK
<1>1. ASSUME NEW o \in Order, SubmitLimit(o) PROVE IndexInv' /\ TakerHasSide'
  BY <1>1 DEF IndexInv, TypeOK, SubmitLimit, TakerHasSide
<1>2. CASE UNCHANGED vars
  BY <1>2 DEF IndexInv, TypeOK, TakerHasSide, vars
<1>3. CASE MatchStep
  <2> DEFINE t == taker
             x == Exec(book, t)
  <2>1. t \in Order /\ t.side \in Sides /\ CanMatch(book, t)
    BY <1>3 DEF MatchStep, TakerHasSide
  <2>2. book' = MatchOne(book, t) /\ older' = Kept(book', older) /\ UNCHANGED misplaced
    BY <1>3, ArrivedNothing DEF MatchStep
  <2>3. IsBook(book') /\ Indexed(book') /\ Aged(book', older')
    BY <1>0, <2>1, <2>2, MatchOneIndexed
  <2>4. x \in 1..t.qty
    BY <1>0, <2>1, MakerFacts
  <2>5. taker' = [t EXCEPT !.qty = @ - x]
    BY <1>3 DEF MatchStep
  <2> HIDE DEF x
  <2>6. taker' \in Order /\ taker'.side \in Sides
    BY <2>1, <2>4, <2>5, BoundAssumption DEF Order
  <2>7. older' \subseteq OrderIds \X OrderIds
    BY <2>2 DEF IndexInv, TypeOK, Kept
  <2> QED
    BY <2>2, <2>3, <2>6, <2>7 DEF IndexInv, TypeOK, TakerHasSide
<1>4. CASE Rest
  <2> DEFINE t == taker
             b == EndMatch(book, t)
  <2>1. t \in Order /\ t.side \in Sides /\ taker' = NoTaker /\ UNCHANGED misplaced
    BY <1>4 DEF Rest, TakerHasSide
  <2>2. Opp(t.side) \in Sides
    BY DEF Opp, Sides
  <2>3. IsBook(b) /\ Indexed(b) /\ Aged(b, older)
    BY <1>0, <2>2, PopDeadIndexed DEF EndMatch
  <2>4. book' = Add(b, t) /\ older' = Arrived(b, IF Ignored(b, t) THEN {} ELSE {t.id})
    BY <1>4 DEF Rest
  <2> HIDE DEF b
  <2>5. CASE Ignored(b, t)
    <3>1. book' = b /\ older' = Kept(b, older)
      BY <2>4, <2>5, ArrivedNothing DEF Add
    <3>2. Aged(b, Kept(b, older))
      BY <2>3, AgedResting DEF Kept
    <3> QED
      BY <2>1, <2>3, <3>1, <3>2 DEF IndexInv, TypeOK, TakerHasSide, Kept
  <2>6. CASE ~Ignored(b, t)
    <3>1. older' = Kept(b, older) \cup (Resting(b) \X {t.id})
      BY <2>4, <2>6 DEF Arrived, Kept
    <3>2. IsBook(book') /\ Indexed(book') /\ Aged(book', older')
      <4>1. /\ IsBook(Add(b, t)) /\ Indexed(Add(b, t))
            /\ Aged(Add(b, t), Kept(b, older) \cup (Resting(b) \X {t.id}))
        <5> HIDE DEF t
        <5> QED
          BY <2>1, <2>3, <2>6, AddIndexed
      <4> QED
        BY <2>4, <3>1, <4>1
    <3>3. older' \subseteq OrderIds \X OrderIds
      BY <2>1, <3>1 DEF IndexInv, TypeOK, Kept, Resting, Order
    <3> QED
      BY <2>1, <3>2, <3>3 DEF IndexInv, TypeOK, TakerHasSide
  <2> QED
    BY <2>5, <2>6
<1>5. ASSUME NEW i \in OrderIds, NEW seen \in {0} \cup ReusedSides, CancelOrder(i, seen)
      PROVE  IndexInv' /\ TakerHasSide'
  <2>1. i \in Resting(book) /\ book' = Cancel(book, i, seen) /\ older' = Kept(book', older)
        /\ taker' = taker /\ taker = NoTaker
    BY <1>5, ArrivedNothing DEF CancelOrder, Resting
  <2>2. IsBook(book') /\ Indexed(book') /\ Aged(book', older')
    BY <1>0, <2>1, CancelIndexed
  <2>3. misplaced' \in BOOLEAN
    BY <1>5 DEF CancelOrder, IndexInv, TypeOK
  <2>4. older' \subseteq OrderIds \X OrderIds
    BY <2>1 DEF IndexInv, TypeOK, Kept
  <2> QED
    BY <2>1, <2>2, <2>3, <2>4 DEF IndexInv, TypeOK, TakerHasSide
<1>6. ASSUME NEW s \in Sides, BestPrice(s) PROVE IndexInv' /\ TakerHasSide'
  <2>1. book' = PopDead(book, s) /\ UNCHANGED <<taker, older, misplaced>>
    BY <1>6 DEF BestPrice
  <2>2. IsBook(book') /\ Indexed(book') /\ Aged(book', older')
    BY <1>0, <2>1, PopDeadIndexed
  <2> QED
    BY <2>1, <2>2 DEF IndexInv, TypeOK, TakerHasSide
<1>7. ASSUME NEW o \in Order, SubmitInert(o) PROVE IndexInv' /\ TakerHasSide'
  BY <1>2, <1>7 DEF SubmitInert
<1> QED
  BY <1>1, <1>2, <1>3, <1>4, <1>5, <1>6, <1>7 DEF Next

\* byID and the level lists of the heap book describe the same orders, through any
\* sequence of submits, trades, cancels and lookups, also after a Cancel has deleted
\* a price from the wrong map.
THEOREM ListsMatchIndex == Spec => []IndexMatchesLevels
<1> DEFINE IInv == IndexInv /\ TakerHasSide
<1>1. Init => IInv
  BY InitIndexInv DEF Init, TakerHasSide
<1>2. IInv /\ [Next]_vars => IInv'
  BY NextIndexInv
<1>3. IInv => IndexMatchesLevels
  <2> SUFFICES ASSUME IInv PROVE IndexMatchesLevels
    OBVIOUS
  <2>1. Indexed(book) /\ IsBook(book)
    BY DEF IndexInv, TypeOK
  <2>2. ASSUME NEW i \in Resting(book)
        PROVE  Cardinality({k \in 1..Len(book.q[book.node[i].lv]) : book.q[book.node[i].lv][k] = i}) = 1
    <3> DEFINE s == book.q[book.node[i].lv]
    <3>1. book.node[i].lv \in LvIds
      BY <2>1, BookFields DEF Resting, Node
    <3>2. PICK k \in 1..Len(s) : s[k] = i
      BY <2>1 DEF Indexed
    <3>3. {m \in 1..Len(s) : s[m] = i} = {k}
      BY <2>1, <3>1, <3>2 DEF Indexed
    <3> QED
      BY <3>3, FS_Singleton
  <2> QED
    BY <2>1, <2>2 DEF Indexed, IndexMatchesLevels
<1> QED
  BY <1>1, <1>2, <1>3, PTL DEF Spec

-----------------------------------------------------------------------------
(* The maps and heaps, until a Cancel deletes from the wrong map *)

\* Every order's level is in its map and its price in its heap; a level in a map has
\* only orders of that side and price, and at least one.
Placed(b) ==
  /\ \A i \in Resting(b) : /\ b.lvl[b.node[i].side][b.node[i].price] = b.node[i].lv
                            /\ b.node[i].price \in b.heap[b.node[i].side]
  /\ \A s \in Sides, p \in Prices : \A i \in Resting(b) :
       b.node[i].lv = b.lvl[s][p] => b.node[i].side = s /\ b.node[i].price = p
  /\ \A s \in Sides, p \in Prices : b.lvl[s][p] # NoLv => b.q[b.lvl[s][p]] # <<>>

Uncrossed(b) ==
  \A i \in OnSide(b, Buy), j \in OnSide(b, Sell) : b.node[i].price < b.node[j].price

LEMMA RestingFields ==
  ASSUME NEW b, IsBook(b), NEW i \in Resting(b)
  PROVE  /\ i \in OrderIds /\ b.node[i] # NoNode
         /\ b.node[i].side \in Sides /\ b.node[i].price \in Prices
         /\ b.node[i].lv \in LvIds /\ b.node[i].lv # NoLv
BY BookFields, NilAssumption DEF Resting, Node

\* The first order of a list.
LEMMA FirstOf ==
  ASSUME NEW b, IsBook(b), Indexed(b), NEW l \in LvIds, b.q[l] # <<>>
  PROVE  \E i \in Resting(b) : b.node[i].lv = l
<1>1. b.q[l] \in Seq(OrderIds) /\ 1 \in 1..Len(b.q[l])
  BY ListsOfBook, EmptySeq
<1>2. b.q[l][1] \in Resting(b) /\ b.node[b.q[l][1]].lv = l
  BY <1>1, ListsOfBook DEF Indexed, Resting
<1> QED
  BY <1>2

\* An order's level has at least that order.
LEMMA LevelOfOrder ==
  ASSUME NEW b, IsBook(b), Indexed(b), NEW i \in Resting(b)
  PROVE  b.q[b.node[i].lv] # <<>>
<1>1. PICK k \in 1..Len(b.q[b.node[i].lv]) : b.q[b.node[i].lv][k] = i
  BY DEF Indexed
<1> QED
  BY <1>1

LEMMA PlacedIsLive ==
  ASSUME NEW b, IsBook(b), Indexed(b), Placed(b), NEW i \in Resting(b)
  PROVE  b.node[i].price \in LiveInHeap(b, b.node[i].side)
<1> DEFINE s == b.node[i].side
           p == b.node[i].price
<1>1. b.lvl[s][p] = b.node[i].lv /\ p \in b.heap[s]
  BY DEF Placed
<1>2. b.node[i].lv # NoLv /\ b.q[b.node[i].lv] # <<>>
  BY LevelOfOrder, RestingFields
<1> QED
  BY <1>1, <1>2 DEF LiveInHeap, Live

LEMMA ShrunkUncrossed ==
  ASSUME NEW b, NEW c, Shrunk(b, c), Uncrossed(b)
  PROVE  Uncrossed(c)
BY DEF Shrunk, Uncrossed, OnSide

LEMMA PopDeadPlaced ==
  ASSUME NEW b, IsBook(b), Indexed(b), Placed(b), NEW s \in Sides
  PROVE  Placed(PopDead(b, s))
<1> DEFINE c == PopDead(b, s)
<1>1. /\ c.lvl = b.lvl /\ c.q = b.q /\ c.node = b.node
      /\ \A t \in Sides, p \in Prices : p \in b.heap[t] /\ Live(b, t, p) => p \in c.heap[t]
  BY PopDeadFields
<1> HIDE DEF c
<1>2. \A i \in Resting(b) : c.node[i].price \in c.heap[c.node[i].side]
  BY <1>1, PlacedIsLive, RestingFields DEF LiveInHeap
<1>3. Resting(c) = Resting(b)
  BY <1>1 DEF Resting
<1> QED
  BY <1>1, <1>2, <1>3 DEF Placed, c

\* Taking out an order, and its level from its own map when it was the last.
Removed(b, i) ==
  IF Unlink(b, i).q[b.node[i].lv] = <<>>
  THEN [Unlink(b, i) EXCEPT !.lvl[b.node[i].side][b.node[i].price] = NoLv]
  ELSE Unlink(b, i)

LEMMA RemovedPlaced ==
  ASSUME NEW b, IsBook(b), Indexed(b), Placed(b), NEW i \in Resting(b)
  PROVE  Placed(Removed(b, i))
<1> DEFINE c == Removed(b, i)
           u == Unlink(b, i)
           l == b.node[i].lv
           s == b.node[i].side
           p == b.node[i].price
<1>1. s \in Sides /\ p \in Prices /\ l \in LvIds /\ l # NoLv
  BY RestingFields
<1>2. /\ IsBook(u) /\ Indexed(u) /\ Resting(u) = Resting(b) \ {i}
      /\ u.lvl = b.lvl /\ u.heap = b.heap
      /\ \A j \in OrderIds \ {i} : u.node[j] = b.node[j]
      /\ \A x \in LvIds \ {l} : u.q[x] = b.q[x]
  BY UnlinkIndexed
<1>3. c = IF u.q[l] = <<>> THEN [u EXCEPT !.lvl[s][p] = NoLv] ELSE u
  BY DEF Removed
<1>4. /\ b.lvl[s][p] = l
      /\ \A t \in Sides, r \in Prices : b.lvl[t][r] = l => t = s /\ r = p
  BY <1>1 DEF Placed
<1> HIDE DEF c, u, l, s, p
<1>5. /\ c.heap = b.heap /\ c.q = u.q /\ c.node = u.node
      /\ \A t \in Sides, r \in Prices :
           c.lvl[t][r] = IF u.q[l] = <<>> /\ t = s /\ r = p THEN NoLv ELSE b.lvl[t][r]
  <2>1. CASE u.q[l] = <<>>
    <3>1. c = [u EXCEPT !.lvl[s][p] = NoLv]
      BY <1>3, <2>1
    <3>2. /\ c.heap = u.heap /\ c.q = u.q /\ c.node = u.node
          /\ \A t \in Sides, r \in Prices :
               c.lvl[t][r] = IF t = s /\ r = p THEN NoLv ELSE u.lvl[t][r]
      BY <1>1, <1>2, <3>1 DEF IsBook
    <3> QED
      BY <1>2, <2>1, <3>2
  <2>2. CASE u.q[l] # <<>>
    BY <1>2, <1>3, <2>2
  <2> QED
    BY <2>1, <2>2
<1>6. Resting(c) = Resting(u)
  BY <1>5 DEF Resting
<1>7. ASSUME NEW j \in Resting(c)
      PROVE  /\ j \in Resting(b) /\ c.node[j] = b.node[j]
             /\ c.lvl[c.node[j].side][c.node[j].price] = c.node[j].lv
             /\ c.node[j].price \in c.heap[c.node[j].side]
  <2>1. j \in Resting(b) /\ j \in Resting(u) /\ c.node[j] = b.node[j] /\ u.node[j] = b.node[j]
    BY <1>2, <1>5, <1>6 DEF Resting
  <2>2. /\ b.node[j].side \in Sides /\ b.node[j].price \in Prices
        /\ b.lvl[b.node[j].side][b.node[j].price] = b.node[j].lv
        /\ b.node[j].price \in b.heap[b.node[j].side]
    BY <2>1, RestingFields DEF Placed
  <2>3. u.q[b.node[j].lv] # <<>>
    BY <1>2, <2>1, LevelOfOrder
  <2>4. ~(u.q[l] = <<>> /\ b.node[j].side = s /\ b.node[j].price = p)
    BY <1>4, <2>2, <2>3
  <2>5. c.lvl[b.node[j].side][b.node[j].price] = b.lvl[b.node[j].side][b.node[j].price]
    BY <1>5, <2>2, <2>4
  <2> QED
    BY <1>5, <2>1, <2>2, <2>5
<1>8. ASSUME NEW t \in Sides, NEW r \in Prices, NEW j \in Resting(c), c.node[j].lv = c.lvl[t][r]
      PROVE  c.node[j].side = t /\ c.node[j].price = r
  <2>1. j \in Resting(b) /\ c.node[j] = b.node[j] /\ b.node[j].lv # NoLv
    BY <1>7, RestingFields
  <2>2. b.node[j].lv = b.lvl[t][r]
    BY <1>5, <1>8, <2>1
  <2>3. b.node[j].lv = b.lvl[t][r] => b.node[j].side = t /\ b.node[j].price = r
    BY <2>1 DEF Placed
  <2> QED
    BY <2>1, <2>2, <2>3
<1>9. ASSUME NEW t \in Sides, NEW r \in Prices, c.lvl[t][r] # NoLv
      PROVE  c.q[c.lvl[t][r]] # <<>>
  <2>1. c.lvl[t][r] = b.lvl[t][r] /\ b.q[b.lvl[t][r]] # <<>> /\ b.lvl[t][r] \in LvIds
    BY <1>5, <1>9, BookFields DEF Placed
  <2>2. CASE b.lvl[t][r] = l
    BY <1>4, <1>5, <1>9, <2>1, <2>2
  <2>3. CASE b.lvl[t][r] # l
    BY <1>2, <1>5, <2>1, <2>3
  <2> QED
    BY <2>2, <2>3
<1>10. Placed(c)
  BY <1>7, <1>8, <1>9 DEF Placed
<1> QED
  BY <1>10 DEF c

LEMMA AddPlaced ==
  ASSUME NEW b, IsBook(b), Indexed(b), Placed(b), NEW o \in Order, ~Ignored(b, o)
  PROVE  /\ Placed(Add(b, o))
         /\ \A j \in Resting(b) : Add(b, o).node[j] = b.node[j]
         /\ Add(b, o).node[o.id].side = o.side /\ Add(b, o).node[o.id].price = o.price
<1> DEFINE c == Add(b, o)
           id == o.id
           s == o.side
           p == o.price
<1>0. id \in OrderIds /\ b.node[id] = NoNode /\ s \in Sides /\ p \in Prices
  BY DEF Ignored, Order
<1>1. /\ IsBook(c) /\ Indexed(c) /\ Resting(c) = Resting(b) \cup {id}
      /\ \E l \in LvIds : AddsTo(b, o, c, l)
  BY AddIndexed, AddFields
<1> HIDE DEF c
<1>2. PICK l \in LvIds : AddsTo(b, o, c, l)
  BY <1>1
<1>3. /\ l = b.lvl[s][p] \/ (b.lvl[s][p] = NoLv /\ ~InUse(b, l))
      /\ \A t \in Sides, r \in Prices : c.lvl[t][r] = IF t = s /\ r = p THEN l ELSE b.lvl[t][r]
      /\ \A t \in Sides, r \in Prices :
           r \in c.heap[t] <=> r \in b.heap[t] \/ (t = s /\ r = p /\ b.lvl[t][r] = NoLv)
  BY <1>2 DEF AddsTo
<1>4. /\ c.node[id].side = s /\ c.node[id].price = p /\ c.node[id].lv = l
      /\ \A j \in OrderIds \ {id} : c.node[j] = b.node[j]
      /\ \A x \in LvIds \ {l} : c.q[x] = b.q[x]
  <2>1. /\ c.node = [b.node EXCEPT ![id] = [side |-> s, price |-> p, qty |-> o.qty, lv |-> l]]
        /\ c.q = [b.q EXCEPT ![l] = Append(b.q[l], id)]
    BY <1>2 DEF AddsTo
  <2> HIDE DEF id, s, p
  <2> QED
    BY <1>0, <2>1, BookFields
<1>5. id \in Resting(c) /\ \A j \in Resting(b) : j # id /\ j \in OrderIds /\ c.node[j] = b.node[j]
  BY <1>0, <1>1, <1>4 DEF Resting
<1> HIDE DEF id, s, p
<1>6. l # NoLv /\ \A j \in Resting(b) : InUse(b, b.node[j].lv)
  BY NilAssumption DEF InUse, Resting
\* An order of the level in the map is one of this side and price.
<1>7. b.lvl[s][p] # NoLv => \E h \in Resting(b) : b.node[h].lv = l
  <2> SUFFICES ASSUME b.lvl[s][p] # NoLv PROVE \E h \in Resting(b) : b.node[h].lv = l
    OBVIOUS
  <2>1. l = b.lvl[s][p] /\ b.q[l] # <<>>
    BY <1>0, <1>3 DEF Placed
  <2> QED
    BY <2>1, FirstOf
<1>8. \A t \in Sides, r \in Prices : b.lvl[t][r] = l => t = s /\ r = p
  <2> SUFFICES ASSUME NEW t \in Sides, NEW r \in Prices, b.lvl[t][r] = l PROVE t = s /\ r = p
    OBVIOUS
  <2>1. l = b.lvl[s][p] /\ b.lvl[s][p] # NoLv
    BY <1>3, <1>6 DEF InUse
  <2>2. PICK h \in Resting(b) : b.node[h].lv = l
    BY <1>7, <2>1
  <2> QED
    BY <1>0, <2>1, <2>2 DEF Placed
<1>9. ASSUME NEW j \in Resting(c)
      PROVE  /\ c.lvl[c.node[j].side][c.node[j].price] = c.node[j].lv
             /\ c.node[j].price \in c.heap[c.node[j].side]
  <2>1. CASE j = id
    <3>1. p \in b.heap[s] \/ b.lvl[s][p] = NoLv
      BY <1>0, <1>3, <1>7 DEF Placed
    <3> QED
      BY <1>0, <1>3, <1>4, <2>1, <3>1
  <2>2. CASE j # id
    <3>1. j \in Resting(b) /\ c.node[j] = b.node[j]
      BY <1>1, <1>5, <2>2
    <3>2. /\ b.lvl[b.node[j].side][b.node[j].price] = b.node[j].lv
          /\ b.node[j].price \in b.heap[b.node[j].side]
          /\ b.node[j].side \in Sides /\ b.node[j].price \in Prices /\ b.node[j].lv # NoLv
      BY <3>1, RestingFields DEF Placed
    <3> QED
      BY <1>3, <3>1, <3>2
  <2> QED
    BY <2>1, <2>2
<1>10. ASSUME NEW t \in Sides, NEW r \in Prices, NEW j \in Resting(c), c.node[j].lv = c.lvl[t][r]
       PROVE  c.node[j].side = t /\ c.node[j].price = r
  <2>1. CASE j = id
    BY <1>3, <1>4, <1>8, <1>10, <2>1
  <2>2. CASE j # id
    <3>1. j \in Resting(b) /\ c.node[j] = b.node[j]
      BY <1>1, <1>5, <2>2
    <3>2. c.lvl[t][r] = b.lvl[t][r] \/ (t = s /\ r = p /\ c.lvl[t][r] = l)
      BY <1>3
    <3>3. b.node[j].lv = b.lvl[t][r]
      BY <1>3, <1>6, <1>10, <3>1, <3>2
    <3> QED
      BY <3>1, <3>3 DEF Placed
  <2> QED
    BY <2>1, <2>2
<1>11. ASSUME NEW t \in Sides, NEW r \in Prices, c.lvl[t][r] # NoLv
       PROVE  c.q[c.lvl[t][r]] # <<>>
  <2>1. CASE c.lvl[t][r] = l
    BY <1>1, <1>4, <1>5, <2>1, LevelOfOrder
  <2>2. CASE c.lvl[t][r] # l
    <3>1. c.lvl[t][r] = b.lvl[t][r] /\ b.lvl[t][r] \in LvIds
      BY <1>3, <1>11, <2>2, BookFields
    <3> QED
      BY <1>4, <1>11, <2>2, <3>1 DEF Placed
  <2> QED
    BY <2>1, <2>2
<1>12. Placed(c)
  BY <1>9, <1>10, <1>11 DEF Placed
<1> QED
  BY <1>4, <1>5, <1>12 DEF c, id, s, p

\* A trade's maker is at the best price of its side.
LEMMA MatchOnePlaced ==
  ASSUME NEW b, IsBook(b), Indexed(b), Placed(b), NEW t \in Order, t.side \in Sides, CanMatch(b, t)
  PROVE  /\ b.node[Maker(b, t)].side = Opp(t.side)
         /\ b.node[Maker(b, t)].price = Best(b, Opp(t.side))
         /\ Placed(MatchOne(b, t))
<1> DEFINE s == Opp(t.side)
           m == Maker(b, t)
           p == Best(b, s)
           x == Exec(b, t)
           b1 == PopDead(b, s)
           c == MatchOne(b, t)
<1>1. /\ s \in Sides /\ p \in Prices /\ m \in Resting(b) /\ x \in 1..t.qty
      /\ b.node[m].lv = b.lvl[s][p]
  BY MakerFacts
<1>2. x \in Nat
  BY <1>1 DEF Order
<1>3. b.node[m].side = s /\ b.node[m].price = p
  BY <1>1 DEF Placed
<1>4. IsBook(b1) /\ Indexed(b1) /\ b1.node = b.node /\ Resting(b1) = Resting(b) /\ Placed(b1)
  BY <1>1, PopDeadFields, PopDeadIndexed, PopDeadPlaced
<1>5. \/ x < b1.node[m].qty /\ c = [b1 EXCEPT !.node[m] = Reduced(@, x)]
      \/ c = IF Unlink(b1, m).q[b1.node[m].lv] = <<>>
             THEN [Unlink(b1, m) EXCEPT !.lvl[s][p] = NoLv]
             ELSE Unlink(b1, m)
  BY MatchOneCases
<1> HIDE DEF s, m, p, x, b1, c
<1>6. CASE x < b1.node[m].qty /\ c = [b1 EXCEPT !.node[m] = Reduced(@, x)]
  <2>1. /\ Shrunk(b1, c) /\ Resting(c) = Resting(b1)
        /\ c.lvl = b1.lvl /\ c.heap = b1.heap /\ c.q = b1.q
    BY <1>1, <1>2, <1>4, <1>6, ReducedIndexed
  <2>2. Placed(c)
    BY <1>4, <2>1 DEF Placed, Shrunk
  <2> QED
    BY <1>3, <2>2 DEF s, m, p, c
<1>7. CASE c = IF Unlink(b1, m).q[b1.node[m].lv] = <<>>
               THEN [Unlink(b1, m) EXCEPT !.lvl[s][p] = NoLv]
               ELSE Unlink(b1, m)
  <2>1. m \in Resting(b1) /\ b1.node[m].side = s /\ b1.node[m].price = p
    BY <1>1, <1>3, <1>4
  <2>2. c = Removed(b1, m)
    BY <1>7, <2>1 DEF Removed
  <2>3. Placed(c)
    BY <1>4, <2>1, <2>2, RemovedPlaced
  <2> QED
    BY <1>3, <2>3 DEF s, m, p, c
<1> QED
  BY <1>5, <1>6, <1>7

\* A cancel that deletes from the right map, or has nothing to delete.
LEMMA CancelPlaced ==
  ASSUME NEW b, IsBook(b), Indexed(b), Placed(b), NEW i \in Resting(b), NEW seen,
         ~(Cancel(b, i, seen).q[b.node[i].lv] = <<>> /\ CancelDeletesFrom(seen) # b.node[i].side)
  PROVE  Placed(Cancel(b, i, seen))
<1> DEFINE u == Unlink(b, i)
           d == CancelDeletesFrom(seen)
           l == b.node[i].lv
           p == b.node[i].price
           c == Cancel(b, i, seen)
<1>1. c = IF u.q[l] = <<>> THEN [u EXCEPT !.lvl[d][p] = NoLv] ELSE u
  BY DEF Cancel
<1>2. d \in Sides /\ p \in Prices /\ IsBook(u)
  BY RestingFields, UnlinkIndexed DEF CancelDeletesFrom, Sides
<1>3. ~(c.q[l] = <<>> /\ d # b.node[i].side)
  OBVIOUS
<1> HIDE DEF u, d, l, p, c
<1>4. c.q = u.q
  BY <1>1, <1>2 DEF IsBook
<1>5. c = IF u.q[l] = <<>> THEN [u EXCEPT !.lvl[b.node[i].side][p] = NoLv] ELSE u
  BY <1>1, <1>3, <1>4
<1>6. c = Removed(b, i)
  BY <1>5 DEF Removed, u, l, p
<1> QED
  BY <1>6, RemovedPlaced DEF c

\* What rests of a taker that cannot match any more does not cross the book.
LEMMA RestUncrossed ==
  ASSUME NEW b, IsBook(b), Indexed(b), Placed(b), Uncrossed(b),
         NEW t \in Order, ~Ignored(b, t), ~CanMatch(b, t)
  PROVE  Uncrossed(Add(b, t))
<1> DEFINE c == Add(b, t)
           s == Opp(t.side)
<1>1. t.side \in Sides /\ t.qty > 0 /\ t.price \in Int /\ s \in Sides
  <2>1. t.side \in Sides /\ t.price \in Prices /\ t.qty \in 0..MaxQty /\ ~(t.qty <= 0)
    BY DEF Ignored, Order
  <2>2. s \in Sides
    BY DEF Opp, Sides
  <2>3. \A q \in 0..MaxQty : q <= 0 \/ q > 0
    BY BoundAssumption
  <2>4. t.price \in Int
    BY <2>1, PricesAssumption
  <2> QED
    BY <2>1, <2>2, <2>3, <2>4
<1>2. \A i \in Resting(b) : b.node[i].side \in Sides /\ b.node[i].price \in Int
  BY RestingFields, PricesAssumption
<1>3. ASSUME NEW i \in Resting(b), b.node[i].side = s
      PROVE  ~Crosses(t.side, b.node[i].price, t.price)
  <2>1. b.node[i].price \in LiveInHeap(b, s)
    BY <1>3, PlacedIsLive
  <2>2. /\ Best(b, s) \in LiveInHeap(b, s)
        /\ AtLeast(s, Best(b, s), b.node[i].price)
    BY <1>1, <2>1, BestExists
  <2>3. ~Crosses(t.side, Best(b, s), t.price)
    BY <1>1, <2>1 DEF CanMatch
  <2>4. Best(b, s) \in Int
    BY <1>1, <2>2, BookFields, PricesAssumption DEF LiveInHeap
  <2> QED
    BY <1>1, <1>2, <2>2, <2>3, <2>4 DEF Crosses, AtLeast, Opp, Sides, Buy, Sell
<1>4. /\ Resting(c) = Resting(b) \cup {t.id}
      /\ \A j \in Resting(b) : c.node[j] = b.node[j]
      /\ c.node[t.id].side = t.side /\ c.node[t.id].price = t.price
  BY AddIndexed, AddPlaced
<1> HIDE DEF c, s
<1> SUFFICES ASSUME NEW i \in Resting(c), c.node[i].side = Buy,
                    NEW j \in Resting(c), c.node[j].side = Sell
             PROVE  c.node[i].price < c.node[j].price
  BY DEF Uncrossed, OnSide, c
<1>5. CASE i \in Resting(b) /\ j \in Resting(b)
  BY <1>4, <1>5 DEF Uncrossed, OnSide
<1>6. CASE i \notin Resting(b)
  <2>1. i = t.id /\ t.side = Buy /\ j # t.id /\ j \in Resting(b) /\ b.node[j].side = s
    BY <1>4, <1>6 DEF Buy, Sell, s, Opp
  <2> QED
    BY <1>1, <1>2, <1>3, <1>4, <2>1 DEF Crosses
<1>7. CASE j \notin Resting(b)
  <2>1. j = t.id /\ t.side = Sell /\ i # t.id /\ i \in Resting(b) /\ b.node[i].side = s
    BY <1>4, <1>7 DEF Buy, Sell, s, Opp
  <2> QED
    BY <1>1, <1>2, <1>3, <1>4, <2>1 DEF Crosses, Buy, Sell
<1> QED
  BY <1>5, <1>6, <1>7

\* The lookup at the end of the loop takes no live price away.
LEMMA CanMatchPopDead ==
  ASSUME NEW b, IsBook(b), NEW t \in Order, t.side \in Sides,
         CanMatch(PopDead(b, Opp(t.side)), t)
  PROVE  CanMatch(b, t)
<1> DEFINE s == Opp(t.side)
           c == PopDead(b, s)
<1>1. s \in Sides
  BY DEF Opp, Sides
<1>2. LiveInHeap(c, s) = LiveInHeap(b, s)
  <2>1. /\ c.lvl = b.lvl /\ c.q = b.q
        /\ \A p \in Prices : p \in b.heap[s] /\ Live(b, s, p) => p \in c.heap[s]
    BY <1>1, PopDeadFields
  <2>2. c.heap[s] \subseteq b.heap[s] /\ b.heap[s] \subseteq Prices
    BY <1>1, BookFields DEF PopDead, IsBook
  <2> HIDE DEF c, s
  <2> QED
    BY <2>1, <2>2 DEF LiveInHeap, Live
<1>3. Best(c, s) = Best(b, s)
  BY <1>2 DEF Best
<1> QED
  BY <1>2, <1>3 DEF CanMatch

PlaceInv == ~misplaced => Placed(book) /\ Uncrossed(book)

LEMMA NextPlaceInv ==
  ASSUME IndexInv, TakerHasSide, PlaceInv, [Next]_vars
  PROVE  PlaceInv'
<1> SUFFICES ASSUME ~misplaced' PROVE Placed(book') /\ Uncrossed(book')
  BY DEF PlaceInv
<1>0. IsBook(book) /\ Indexed(book)
  BY DEF IndexInv, TypeOK
<1>1. ASSUME UNCHANGED <<book, misplaced>> PROVE Placed(book') /\ Uncrossed(book')
  BY <1>1 DEF PlaceInv
<1>2. CASE MatchStep
  <2>1. /\ taker \in Order /\ taker.side \in Sides /\ CanMatch(book, taker)
        /\ book' = MatchOne(book, taker) /\ Placed(book) /\ Uncrossed(book)
    BY <1>2 DEF MatchStep, TakerHasSide, PlaceInv
  <2> QED
    BY <1>0, <2>1, MatchOnePlaced, MatchOneIndexed, ShrunkUncrossed
<1>3. CASE Rest
  <2> DEFINE t == taker
             b == EndMatch(book, t)
  <2>1. /\ t \in Order /\ t.side \in Sides /\ Placed(book) /\ Uncrossed(book)
        /\ ~CanMatch(book, t) /\ book' = Add(b, t)
    BY <1>3 DEF Rest, TakerHasSide, PlaceInv
  <2>2. Opp(t.side) \in Sides
    BY DEF Opp, Sides
  <2> HIDE DEF t
  <2>3. IsBook(b) /\ Indexed(b) /\ Shrunk(book, b) /\ Placed(b)
    <3>1. CASE t.qty > 0
      BY <1>0, <2>1, <2>2, <3>1, PopDeadIndexed, PopDeadPlaced DEF EndMatch
    <3>2. CASE ~(t.qty > 0)
      BY <1>0, <2>1, <3>2 DEF EndMatch, Shrunk
    <3> QED
      BY <3>1, <3>2
  <2>4. ~CanMatch(b, t)
    BY <1>0, <2>1, CanMatchPopDead DEF EndMatch
  <2>5. Uncrossed(b)
    BY <2>1, <2>3, ShrunkUncrossed
  <2> HIDE DEF b
  <2>6. CASE Ignored(b, t)
    BY <2>1, <2>3, <2>5, <2>6 DEF Add
  <2>7. CASE ~Ignored(b, t)
    BY <2>1, <2>3, <2>4, <2>5, <2>7, AddPlaced, RestUncrossed
  <2> QED
    BY <2>6, <2>7
<1>4. ASSUME NEW i \in OrderIds, NEW seen \in {0} \cup ReusedSides, CancelOrder(i, seen)
      PROVE  Placed(book') /\ Uncrossed(book')
  <2>1. /\ i \in Resting(book) /\ book' = Cancel(book, i, seen)
        /\ Placed(book) /\ Uncrossed(book)
        /\ ~(book'.q[book.node[i].lv] = <<>> /\ CancelDeletesFrom(seen) # book.node[i].side)
    BY <1>4 DEF CancelOrder, Resting, PlaceInv
  <2> QED
    BY <1>0, <2>1, CancelPlaced, CancelIndexed, ShrunkUncrossed
<1>5. ASSUME NEW s \in Sides, BestPrice(s) PROVE Placed(book') /\ Uncrossed(book')
  <2>1. book' = PopDead(book, s) /\ Placed(book) /\ Uncrossed(book)
    BY <1>5 DEF BestPrice, PlaceInv
  <2> QED
    BY <1>0, <2>1, PopDeadPlaced, PopDeadIndexed, ShrunkUncrossed
<1> QED
  BY <1>1, <1>2, <1>3, <1>4, <1>5 DEF Next, SubmitLimit, SubmitInert, vars

LEMMA InitPlaceInv == Init => PlaceInv
<1> SUFFICES ASSUME Init PROVE Placed(book) /\ Uncrossed(book)
  BY DEF PlaceInv
<1>1. Resting(book) = {} /\ \A s \in Sides, p \in Prices : book.lvl[s][p] = NoLv
  BY DEF Init, EmptyBook, Resting
<1> QED
  BY <1>1 DEF Placed, Uncrossed, OnSide

\* Until a Cancel has deleted a price from the wrong map, the matching loop can reach
\* every resting order of the heap book, and the book is not crossed between commands.
THEOREM BookStaysSound == Spec => []SoundUntilMisplaced
<1> DEFINE IInv == IndexInv /\ TakerHasSide /\ PlaceInv
<1>1. Init => IInv
  BY InitIndexInv, InitPlaceInv DEF Init, TakerHasSide
<1>2. IInv /\ [Next]_vars => IInv'
  BY NextIndexInv, NextPlaceInv
<1>3. IInv => SoundUntilMisplaced
  BY DEF PlaceInv, Placed, Uncrossed, SoundUntilMisplaced, Reachable
<1> QED
  BY <1>1, <1>2, <1>3, PTL DEF Spec

-----------------------------------------------------------------------------
(* Price-time priority *)

LEMMA TradeHasPriority ==
  ASSUME IndexInv, TakerHasSide, PlaceInv, [Next]_vars
  PROVE  PriorityStep
<1> SUFFICES ASSUME taker # NoTaker, taker' # NoTaker, ~misplaced,
                    NEW m \in OnSide(book, Opp(taker.side)), book'.node[m] # book.node[m],
                    NEW j \in OnSide(book, Opp(taker.side)) \ {m}
             PROVE  /\ AtLeast(Opp(taker.side), book.node[m].price, book.node[j].price)
                    /\ book.node[j].price = book.node[m].price => <<m, j>> \in older
  BY DEF PriorityStep
<1> DEFINE t == taker
           s == Opp(t.side)
           l == book.lvl[s][Best(book, s)]
<1>0. IsBook(book) /\ Indexed(book) /\ Placed(book) /\ Aged(book, older)
  BY DEF IndexInv, TypeOK, PlaceInv
<1>1. MatchStep
  BY DEF Next, SubmitLimit, SubmitInert, Rest, CancelOrder, BestPrice, vars
<1>2. t \in Order /\ t.side \in Sides /\ CanMatch(book, t) /\ book' = MatchOne(book, t)
  BY <1>1 DEF MatchStep, TakerHasSide
<1>3. m \in Resting(book) /\ m \in OrderIds /\ j \in Resting(book) /\ j # m
      /\ book.node[j].side = s
  BY DEF OnSide, Resting
<1> HIDE DEF t
<1>4. m = Maker(book, t)
  BY <1>0, <1>2, <1>3, MatchOneIndexed
<1>5. book.node[m].price = Best(book, s) /\ book.node[m].side = s
  BY <1>0, <1>2, <1>4, MatchOnePlaced
<1>6. /\ s \in Sides /\ l \in LvIds /\ 1 \in 1..Len(book.q[l]) /\ m = book.q[l][1]
      /\ \A r \in LiveInHeap(book, s) : AtLeast(s, Best(book, s), r)
  BY <1>0, <1>2, <1>4, MakerFacts, Zenon
<1>7. AtLeast(s, book.node[m].price, book.node[j].price)
  BY <1>0, <1>3, <1>5, <1>6, PlacedIsLive, Zenon
<1>8. ASSUME book.node[j].price = book.node[m].price PROVE <<m, j>> \in older
  <2>1. book.node[j].lv = l
    <3>1. book.lvl[book.node[j].side][book.node[j].price] = book.node[j].lv
      BY <1>0, <1>3 DEF Placed
    <3> QED
      BY <3>1, <1>3, <1>5, <1>8
  <2>2. PICK k \in 1..Len(book.q[l]) : book.q[l][k] = j
    <3>1. \E k \in 1..Len(book.q[book.node[j].lv]) : book.q[book.node[j].lv][k] = j
      BY <1>0, <1>3, Zenon DEF Indexed
    <3> HIDE DEF l
    <3> QED
      BY <2>1, <3>1, Zenon
  <2>3. 1 < k
    <3>1. k # 1
      BY <1>3, <1>6, <2>2
    <3>2. k \in Int /\ k >= 1
      <4> HIDE DEF l
      <4> QED
        BY <2>2
    <3> QED
      BY <3>1, <3>2
  <2> QED
    BY <1>0, <1>6, <2>2, <2>3, Zenon DEF Aged
<1> QED
  BY <1>7, <1>8 DEF t

\* Every trade of the heap book has price-time priority: its maker has the best price
\* of its side and is the oldest there, until a Cancel has deleted from the wrong map.
THEOREM TradesHavePriority == Spec => PriceTimePriority
<1> DEFINE IInv == IndexInv /\ TakerHasSide /\ PlaceInv
<1>1. Init => IInv
  BY InitIndexInv, InitPlaceInv DEF Init, TakerHasSide
<1>2. IInv /\ [Next]_vars => IInv'
  BY NextIndexInv, NextPlaceInv
<1>3. IInv /\ [Next]_vars => [PriorityStep]_vars
  BY TradeHasPriority
<1> QED
  BY <1>1, <1>2, <1>3, PTL DEF Spec, PriceTimePriority

-----------------------------------------------------------------------------
(* A whole submit of the adapter *)

\* The books the adapter's calls lead to.
HeapBooks == {b \in [ lvl  : [Sides -> [Prices -> LvIds \cup {NoLv}]],
                      heap : [Sides -> SUBSET Prices],
                      q    : [LvIds -> Seq(OrderIds)],
                      node : [OrderIds -> Node \cup {NoNode}] ] : Indexed(b)}

\* f is the recursive function of Loop, for n iterations.
IsLoop(b, o, n, f) ==
  f = [k \in 0..n |-> IF k = 0 THEN [b |-> b, t |-> o, evs |-> <<>>] ELSE Iterated(f[k - 1], o.id)]

LEMMA LoopIsLoop ==
  ASSUME NEW b, NEW o
  PROVE  Loop(b, o) = CHOOSE f : IsLoop(b, o, Cardinality(OrderIds), f)
BY DEF Loop, IsLoop

\* The recursion defines a function: were there a number of iterations it fails for, the
\* least one would be one more than a number it works for.
LEMMA LoopExists ==
  ASSUME NEW b, NEW o, NEW j \in Nat
  PROVE  \E f : IsLoop(b, o, j, f)
<1> DEFINE T == {n \in Nat : ~\E f : IsLoop(b, o, n, f)}
<1>1. SUFFICES ASSUME T # {} PROVE FALSE
  OBVIOUS
<1>2. T \in SUBSET Nat
  OBVIOUS
<1>3. PICK n \in T : \A y \in T : n <= y
  BY <1>1, <1>2, LeastNatural
<1> DEFINE r0 == [b |-> b, t |-> o, evs |-> <<>>]
<1>4. n # 0
  <2> DEFINE g == [k \in 0..0 |-> r0]
  <2>1. \A k \in 0..0 : k = 0
    OBVIOUS
  <2>2. IsLoop(b, o, 0, g)
    BY <2>1 DEF IsLoop
  <2> HIDE DEF g
  <2> QED
    BY <2>2
<1>5. n - 1 \in Nat /\ n - 1 \notin T
  BY <1>3, <1>4
<1>6. PICK f : IsLoop(b, o, n - 1, f)
  BY <1>5
<1> DEFINE g == [k \in 0..n |-> IF k = n THEN Iterated(f[n - 1], o.id) ELSE f[k]]
<1>7. n \in Nat
  OBVIOUS
<1>8. \A k \in 0..n : g[k] = IF k = 0 THEN r0 ELSE Iterated(g[k - 1], o.id)
  <2>1. \A k \in 0..(n - 1) : f[k] = IF k = 0 THEN r0 ELSE Iterated(f[k - 1], o.id)
    BY <1>6, <1>7 DEF IsLoop
  <2>2. g[n] = Iterated(f[n - 1], o.id) /\ \A k \in 0..(n - 1) : g[k] = f[k]
    BY <1>7
  <2> HIDE DEF g, r0
  <2>3. ASSUME NEW k \in 0..n PROVE g[k] = IF k = 0 THEN r0 ELSE Iterated(g[k - 1], o.id)
    <3>1. CASE k = n
      <4>1. n - 1 \in 0..(n - 1)
        BY <1>5, <1>7
      <4> QED
        BY <1>4, <2>2, <3>1, <4>1
    <3>2. CASE k # n
      <4>1. k \in 0..(n - 1) /\ (k # 0 => k - 1 \in 0..(n - 1))
        BY <1>7, <3>2
      <4> QED
        BY <2>1, <2>2, <4>1
    <3> QED
      BY <3>1, <3>2
  <2> QED
    BY <2>3
<1>9. g = [k \in 0..n |-> g[k]]
  OBVIOUS
<1> HIDE DEF g
<1>10. IsLoop(b, o, n, g)
  BY <1>8, <1>9 DEF IsLoop
<1> QED
  BY <1>10

LEMMA LoopSteps ==
  ASSUME NEW b, NEW o
  PROVE  /\ Cardinality(OrderIds) \in Nat
         /\ Loop(b, o)[0] = [b |-> b, t |-> o, evs |-> <<>>]
         /\ \A k \in 1..Cardinality(OrderIds) : Loop(b, o)[k] = Iterated(Loop(b, o)[k - 1], o.id)
<1> DEFINE n == Cardinality(OrderIds)
           f == Loop(b, o)
           r0 == [b |-> b, t |-> o, evs |-> <<>>]
<1>1. n \in Nat
  BY LevelsAssumption, FS_CardinalityType
<1> HIDE DEF n
<1>2. IsLoop(b, o, n, CHOOSE g : IsLoop(b, o, n, g))
  BY <1>1, LoopExists
<1>3. f = CHOOSE g : IsLoop(b, o, n, g)
  BY LoopIsLoop DEF n
<1> HIDE DEF f
<1>4. IsLoop(b, o, n, f)
  BY <1>2, <1>3
<1>5. \A k \in 0..n : f[k] = IF k = 0 THEN r0 ELSE Iterated(f[k - 1], o.id)
  BY <1>4 DEF IsLoop
<1>6. f[0] = r0 /\ \A k \in 1..n : f[k] = Iterated(f[k - 1], o.id)
  BY <1>1, <1>5
<1> QED
  BY <1>1, <1>6 DEF f, n

\* What a taker o has become after some iterations, on a book and with events.
IsRun(o, r) ==
  /\ IsBook(r.b) /\ Indexed(r.b)
  /\ r.t \in Order /\ r.t.id = o.id /\ r.t.side = o.side /\ r.t.price = o.price
  /\ r.evs \in Seq(AdapterEvs)
  /\ r = [b |-> r.b, t |-> r.t, evs |-> r.evs]

\* A trade fills the taker or takes its maker out of the book.
LEMMA TradeEnds ==
  ASSUME NEW b, IsBook(b), Indexed(b), NEW t \in Order, t.side \in Sides, CanMatch(b, t)
  PROVE  Exec(b, t) = t.qty \/ Resting(MatchOne(b, t)) = Resting(b) \ {Maker(b, t)}
<1> DEFINE s == Opp(t.side)
           m == Maker(b, t)
           p == Best(b, s)
           b1 == PopDead(b, s)
           c == MatchOne(b, t)
<1>1. /\ s \in Sides /\ p \in Prices /\ m \in Resting(b) /\ b.node[m].qty \in Nat
      /\ Exec(b, t) = IF t.qty < b.node[m].qty THEN t.qty ELSE b.node[m].qty
  BY MakerFacts DEF Exec
<1>2. IsBook(b1) /\ Indexed(b1) /\ b1.node = b.node /\ Resting(b1) = Resting(b)
  BY <1>1, PopDeadFields, PopDeadIndexed
<1>3. \/ Exec(b, t) < b1.node[m].qty
      \/ c \in {Unlink(b1, m), [Unlink(b1, m) EXCEPT !.lvl[s][p] = NoLv]}
  BY MatchOneCases
<1> HIDE DEF s, m, p, b1, c
<1>4. CASE Exec(b, t) < b1.node[m].qty
  BY <1>1, <1>2, <1>4
<1>5. CASE c \in {Unlink(b1, m), [Unlink(b1, m) EXCEPT !.lvl[s][p] = NoLv]}
  <2>1. m \in Resting(b1) /\ s \in Sides /\ p \in Prices
    BY <1>1, <1>2
  <2>2. Resting(c) = Resting(b1) \ {m}
    BY <1>2, <1>5, <2>1, RemovedIndexed
  <2> QED
    BY <1>2, <2>2 DEF c, m
<1> QED
  BY <1>3, <1>4, <1>5

LEMMA IteratedRun ==
  ASSUME NEW o \in Order, o.side \in Sides, NEW r, IsRun(o, r), CanMatch(r.b, r.t)
  PROVE  LET z == Iterated(r, o.id)
         IN  /\ IsRun(o, z) /\ Shrunk(r.b, z.b) /\ (Placed(r.b) => Placed(z.b))
             /\ ~CanMatch(z.b, z.t) \/ \E m \in Resting(r.b) : Resting(z.b) = Resting(r.b) \ {m}
<1> DEFINE t == r.t
           x == Exec(r.b, t)
           m == Maker(r.b, t)
           e == Ev("Trade", m, o.id)
           z == Iterated(r, o.id)
<1>1. /\ IsBook(r.b) /\ Indexed(r.b) /\ t \in Order /\ t.id = o.id /\ t.side = o.side
      /\ t.price = o.price /\ r.evs \in Seq(AdapterEvs) /\ t.side \in Sides
  BY DEF IsRun
<1>2. z = [b |-> MatchOne(r.b, t), t |-> [t EXCEPT !.qty = @ - x], evs |-> Append(r.evs, e)]
  BY DEF Iterated
<1>3. m \in Resting(r.b) /\ x \in 1..t.qty
  BY <1>1, MakerFacts
<1>4. IsBook(MatchOne(r.b, t)) /\ Indexed(MatchOne(r.b, t)) /\ Shrunk(r.b, MatchOne(r.b, t))
  BY <1>1, MatchOneIndexed
<1>5. Placed(r.b) => Placed(MatchOne(r.b, t))
  BY <1>1, MatchOnePlaced
<1>6. x = t.qty \/ Resting(MatchOne(r.b, t)) = Resting(r.b) \ {m}
  BY <1>1, TradeEnds
<1>7. e \in AdapterEvs
  BY <1>3 DEF AdapterEvs, EvTypes, Resting, Order
<1> HIDE DEF x, m, e, z, t
<1>8. Append(r.evs, e) \in Seq(AdapterEvs)
  BY <1>1, <1>7, AppendProperties
<1>9. /\ [t EXCEPT !.qty = @ - x] \in Order /\ t.qty - x \in 0..MaxQty
      /\ [t EXCEPT !.qty = @ - x].id = t.id /\ [t EXCEPT !.qty = @ - x].side = t.side
      /\ [t EXCEPT !.qty = @ - x].price = t.price /\ [t EXCEPT !.qty = @ - x].qty = t.qty - x
  BY <1>1, <1>3, BoundAssumption DEF Order
<1>10. IsRun(o, z)
  BY <1>1, <1>2, <1>4, <1>8, <1>9 DEF IsRun
<1>11. Shrunk(r.b, z.b) /\ (Placed(r.b) => Placed(z.b))
  BY <1>2, <1>4, <1>5
<1>12. ~CanMatch(z.b, z.t) \/ \E j \in Resting(r.b) : Resting(z.b) = Resting(r.b) \ {j}
  <2>1. CASE x = t.qty
    <3>1. z.t.qty = 0
      BY <1>2, <1>9, <1>1, <2>1 DEF Order
    <3> QED
      BY <3>1 DEF CanMatch
  <2>2. CASE Resting(MatchOne(r.b, t)) = Resting(r.b) \ {m}
    BY <1>2, <1>3, <2>2
  <2> QED
    BY <1>6, <2>1, <2>2
<1> QED
  BY <1>10, <1>11, <1>12 DEF z

LEMMA StartRun ==
  ASSUME NEW b, IsBook(b), Indexed(b), NEW o \in Order
  PROVE  IsRun(o, [b |-> b, t |-> o, evs |-> <<>>])
<1>1. <<>> \in Seq(AdapterEvs)
  OBVIOUS
<1> QED
  BY <1>1 DEF IsRun

\* After k iterations the loop has ended or at least k orders have left the book.
LoopAt(b, o, k) ==
  /\ IsRun(o, Loop(b, o)[k]) /\ Shrunk(b, Loop(b, o)[k].b)
  /\ Placed(b) => Placed(Loop(b, o)[k].b)
  /\ \/ ~CanMatch(Loop(b, o)[k].b, Loop(b, o)[k].t)
     \/ Cardinality(Resting(Loop(b, o)[k].b)) <= Cardinality(OrderIds) - k

LEMMA RestingFinite ==
  ASSUME NEW b
  PROVE  /\ IsFiniteSet(Resting(b)) /\ Cardinality(Resting(b)) \in Nat
         /\ Cardinality(Resting(b)) <= Cardinality(OrderIds)
         /\ Cardinality(OrderIds) \in Nat
<1>1. Resting(b) \subseteq OrderIds
  BY DEF Resting
<1>2. IsFiniteSet(OrderIds)
  BY LevelsAssumption
<1>3. IsFiniteSet(Resting(b)) /\ Cardinality(Resting(b)) <= Cardinality(OrderIds)
  BY <1>1, <1>2, FS_Subset
<1> QED
  BY <1>2, <1>3, FS_CardinalityType

LEMMA LoopRuns ==
  ASSUME NEW b, IsBook(b), Indexed(b), NEW o \in Order, o.side \in Sides
  PROVE  \A k \in 0..Cardinality(OrderIds) : LoopAt(b, o, k)
<1> DEFINE n == Cardinality(OrderIds)
           L(k) == Loop(b, o)[k]
           T == {k \in Nat : k <= n /\ ~LoopAt(b, o, k)}
<1>1. n \in Nat
  BY LoopSteps
<1>2. SUFFICES ASSUME T # {} PROVE FALSE
  BY <1>1
<1>3. T \in SUBSET Nat
  OBVIOUS
<1>4. PICK k \in T : \A y \in T : k <= y
  BY <1>2, <1>3, LeastNatural
<1>5. LoopAt(b, o, 0)
  <2>1. L(0) = [b |-> b, t |-> o, evs |-> <<>>]
    BY LoopSteps
  <2>2. IsRun(o, L(0)) /\ L(0).b = b
    BY <2>1, StartRun
  <2>3. Cardinality(Resting(b)) <= n - 0
    BY RestingFinite
  <2>4. Shrunk(b, b)
    BY DEF Shrunk
  <2> QED
    BY <2>2, <2>3, <2>4 DEF LoopAt
<1>6. k \in 1..n /\ k - 1 \in Nat /\ k - 1 <= n /\ ~LoopAt(b, o, k)
  BY <1>1, <1>4, <1>5
<1>7. LoopAt(b, o, k - 1)
  BY <1>4, <1>6
<1>8. L(k) = Iterated(L(k - 1), o.id)
  BY <1>6, LoopSteps
<1>9. PICK r : r = L(k - 1)
  OBVIOUS
<1>10. PICK z : z = L(k)
  OBVIOUS
<1>11. /\ IsRun(o, r) /\ Shrunk(b, r.b) /\ (Placed(b) => Placed(r.b)) /\ z = Iterated(r, o.id)
       /\ ~CanMatch(r.b, r.t) \/ Cardinality(Resting(r.b)) <= n - (k - 1)
  BY <1>7, <1>8, <1>9, <1>10 DEF LoopAt
<1>12. ~(/\ IsRun(o, z) /\ Shrunk(b, z.b) /\ (Placed(b) => Placed(z.b))
         /\ ~CanMatch(z.b, z.t) \/ Cardinality(Resting(z.b)) <= n - k)
  BY <1>6, <1>10 DEF LoopAt
<1> HIDE DEF L, n, T
<1>13. CASE ~CanMatch(r.b, r.t)
  <2>1. z = r
    BY <1>11, <1>13 DEF Iterated
  <2> QED
    BY <1>11, <1>12, <1>13, <2>1
<1>14. CASE CanMatch(r.b, r.t)
  <2>1. /\ IsRun(o, z) /\ Shrunk(r.b, z.b) /\ (Placed(r.b) => Placed(z.b))
        /\ ~CanMatch(z.b, z.t) \/ \E m \in Resting(r.b) : Resting(z.b) = Resting(r.b) \ {m}
    BY <1>11, <1>14, IteratedRun
  <2>2. Shrunk(b, z.b)
    BY <1>11, <2>1 DEF Shrunk
  <2>3. ASSUME NEW m \in Resting(r.b), Resting(z.b) = Resting(r.b) \ {m}
        PROVE  Cardinality(Resting(z.b)) <= n - k
    <3>1. IsFiniteSet(Resting(r.b)) /\ Cardinality(Resting(r.b)) \in Nat
      BY RestingFinite
    <3>2. Cardinality(Resting(z.b)) = Cardinality(Resting(r.b)) - 1
      BY <2>3, <3>1, FS_RemoveElement
    <3> QED
      BY <1>1, <1>6, <1>11, <1>14, <3>1, <3>2
  <2> QED
    BY <1>11, <1>12, <2>1, <2>2, <2>3
<1> QED
  BY <1>13, <1>14

\* The loop of a submit ends: it makes at most one trade per order of the book.
LEMMA LoopEnds ==
  ASSUME NEW b, IsBook(b), Indexed(b), NEW o \in Order, o.side \in Sides
  PROVE  LET r == Loop(b, o)[Cardinality(OrderIds)]
         IN  /\ IsRun(o, r) /\ Shrunk(b, r.b) /\ (Placed(b) => Placed(r.b))
             /\ ~CanMatch(r.b, r.t)
<1> DEFINE n == Cardinality(OrderIds)
<1>1. n \in Nat /\ n \in 0..n
  <2>1. n \in Nat
    BY RestingFinite
  <2> HIDE DEF n
  <2> QED
    BY <2>1
<1>2. LoopAt(b, o, n)
  BY <1>1, LoopRuns
<1>3. PICK r : r = Loop(b, o)[n]
  OBVIOUS
<1>4. /\ IsRun(o, r) /\ Shrunk(b, r.b) /\ (Placed(b) => Placed(r.b))
      /\ ~CanMatch(r.b, r.t) \/ Cardinality(Resting(r.b)) <= n - n
  BY <1>2, <1>3 DEF LoopAt
<1>5. IsBook(r.b) /\ Indexed(r.b) /\ r.t \in Order /\ r.t.side \in Sides
  BY <1>4 DEF IsRun
<1>6. ASSUME CanMatch(r.b, r.t) PROVE FALSE
  <2>1. IsFiniteSet(Resting(r.b)) /\ Cardinality(Resting(r.b)) = 0
    BY <1>1, <1>4, <1>6, RestingFinite
  <2>2. Resting(r.b) = {}
    BY <2>1, FS_EmptySet
  <2> QED
    BY <1>5, <1>6, <2>2, MakerFacts
<1> QED
  BY <1>3, <1>4, <1>6

LEMMA MatchAllEnds ==
  ASSUME NEW b, IsBook(b), Indexed(b), NEW o \in Order, o.side \in Sides
  PROVE  /\ IsRun(o, MatchAll(b, o)) /\ Shrunk(b, MatchAll(b, o).b)
         /\ Placed(b) => Placed(MatchAll(b, o).b)
         /\ ~CanMatch(MatchAll(b, o).b, MatchAll(b, o).t)
<1> DEFINE m == MatchAll(b, o)
<1>1. PICK r : r = Loop(b, o)[Cardinality(OrderIds)]
  OBVIOUS
<1>2. IsRun(o, r) /\ Shrunk(b, r.b) /\ (Placed(b) => Placed(r.b)) /\ ~CanMatch(r.b, r.t)
  BY <1>1, LoopEnds
<1>3. IsBook(r.b) /\ Indexed(r.b) /\ r.t \in Order /\ r.t.side \in Sides
  BY <1>2 DEF IsRun
<1>4. m = [r EXCEPT !.b = EndMatch(r.b, r.t)]
  BY <1>1 DEF MatchAll
<1>5. m = [b |-> EndMatch(r.b, r.t), t |-> r.t, evs |-> r.evs]
  BY <1>2, <1>4 DEF IsRun
<1>6. Opp(r.t.side) \in Sides
  BY DEF Opp, Sides
<1> HIDE DEF m
<1>7. /\ IsBook(m.b) /\ Indexed(m.b) /\ Shrunk(r.b, m.b) /\ (Placed(r.b) => Placed(m.b))
      /\ ~CanMatch(m.b, m.t)
  <2>1. CASE r.t.qty > 0
    <3>1. m.b = PopDead(r.b, Opp(r.t.side)) /\ m.t = r.t
      BY <1>5, <2>1 DEF EndMatch
    <3> QED
      BY <1>2, <1>3, <1>6, <3>1, PopDeadIndexed, PopDeadPlaced, CanMatchPopDead
  <2>2. CASE ~(r.t.qty > 0)
    BY <1>2, <1>3, <1>5, <2>2 DEF EndMatch, Shrunk
  <2> QED
    BY <2>1, <2>2
<1>8. IsRun(o, m)
  BY <1>2, <1>5, <1>7 DEF IsRun
<1>9. Shrunk(b, m.b)
  BY <1>2, <1>7 DEF Shrunk
<1> QED
  BY <1>2, <1>7, <1>8, <1>9 DEF m

\* What AdapterSubmit gives to Add: the book and the taker behind the loop.
Matched(b, o) ==
  IF o.qty <= 0 THEN [b |-> b, t |-> [o EXCEPT !.qty = 0], evs |-> <<>>]
  ELSE IF o.side \notin Sides THEN [b |-> b, t |-> o, evs |-> <<>>]
  ELSE MatchAll(b, o)

LEMMA MatchedRun ==
  ASSUME NEW b, IsBook(b), Indexed(b), NEW o \in Order
  PROVE  /\ IsRun(o, Matched(b, o)) /\ Shrunk(b, Matched(b, o).b)
         /\ Placed(b) => Placed(Matched(b, o).b)
         /\ o.side \in Sides => ~CanMatch(Matched(b, o).b, Matched(b, o).t)
<1>0. Shrunk(b, b)
  BY DEF Shrunk
<1>1. CASE o.qty <= 0
  <2> DEFINE t == [o EXCEPT !.qty = 0]
  <2>1. Matched(b, o) = [b |-> b, t |-> t, evs |-> <<>>]
    BY <1>1 DEF Matched
  <2>2. t \in Order /\ t.id = o.id /\ t.side = o.side /\ t.price = o.price /\ t.qty = 0
    BY BoundAssumption DEF Order
  <2> HIDE DEF t
  <2>3. <<>> \in Seq(AdapterEvs)
    OBVIOUS
  <2>4. IsRun(o, Matched(b, o))
    BY <2>1, <2>2, <2>3 DEF IsRun
  <2> QED
    BY <1>0, <2>1, <2>2, <2>4 DEF CanMatch
<1>2. CASE ~(o.qty <= 0) /\ o.side \notin Sides
  <2>1. Matched(b, o) = [b |-> b, t |-> o, evs |-> <<>>]
    BY <1>2 DEF Matched
  <2> QED
    BY <1>0, <1>2, <2>1, StartRun
<1>3. CASE ~(o.qty <= 0) /\ o.side \in Sides
  <2>1. Matched(b, o) = MatchAll(b, o)
    BY <1>3 DEF Matched
  <2> QED
    BY <1>3, <2>1, MatchAllEnds
<1> QED
  BY <1>1, <1>2, <1>3

LEMMA SubmitFields ==
  ASSUME NEW b, NEW o
  PROVE  LET m == Matched(b, o)
             last == IF m.t.qty > 0 THEN <<Ev("Added", o.id, 0)>> ELSE <<>>
         IN  AdapterSubmit(b, o) =
               [ book |-> Add(m.b, m.t), found |-> TRUE,
                 evs  |-> <<Ev("Accepted", o.id, 0)>> \o m.evs \o last ]
BY Zenon DEF AdapterSubmit, Matched

\* Something in front of any events is a list of events, and not empty.
LEMMA SomeEvents ==
  ASSUME NEW E, NEW e \in E, NEW xs \in Seq(E), NEW ys \in Seq(E)
  PROVE  <<e>> \o xs \o ys \in Seq(E) /\ <<e>> \o xs \o ys # <<>>
<1>1. <<e>> \in Seq(E) /\ Len(<<e>>) = 1
  OBVIOUS
<1> DEFINE es == <<e>>
<1>2. es \in Seq(E) /\ Len(es) = 1
  BY <1>1
<1> HIDE DEF es
<1>3. es \o xs \in Seq(E) /\ Len(es \o xs) = Len(es) + Len(xs)
  BY <1>2, ConcatProperties, Zenon
<1>4. es \o xs \o ys \in Seq(E) /\ Len(es \o xs \o ys) = Len(es \o xs) + Len(ys)
  BY <1>3, ConcatProperties, Zenon
<1>5. Len(xs) \in Nat /\ Len(ys) \in Nat
  BY LenProperties
<1>6. Len(es \o xs \o ys) # 0
  BY <1>2, <1>3, <1>4, <1>5
<1>7. es \o xs \o ys # <<>>
  BY <1>4, <1>6, EmptySeq
<1> QED
  BY <1>4, <1>7 DEF es

LEMMA SubmitBook ==
  ASSUME NEW b, IsBook(b), Indexed(b), NEW o \in Order
  PROVE  LET c == AdapterSubmit(b, o).book
         IN  /\ IsBook(c) /\ Indexed(c)
             /\ Placed(b) /\ Uncrossed(b) => Placed(c) /\ Uncrossed(c)
<1> DEFINE m == Matched(b, o)
           t == m.t
           c == AdapterSubmit(b, o).book
<1>1. c = Add(m.b, t)
  BY SubmitFields
<1>2. /\ IsRun(o, m) /\ Shrunk(b, m.b) /\ (Placed(b) => Placed(m.b))
      /\ o.side \in Sides => ~CanMatch(m.b, t)
  BY MatchedRun
<1> HIDE DEF m, c
<1>3. IsBook(m.b) /\ Indexed(m.b) /\ t \in Order /\ t.side = o.side
  BY <1>2 DEF IsRun
<1>4. CASE Ignored(m.b, t)
  <2>1. c = m.b
    BY <1>1, <1>4 DEF Add
  <2> QED
    BY <1>2, <1>3, <2>1, ShrunkUncrossed DEF c
<1>5. CASE ~Ignored(m.b, t)
  <2>1. t.side \in Sides /\ ~CanMatch(m.b, t)
    BY <1>2, <1>3, <1>5 DEF Ignored
  <2>2. IsBook(c) /\ Indexed(c)
    BY <1>1, <1>3, <1>5, AddIndexed
  <2>3. ASSUME Placed(b), Uncrossed(b) PROVE Placed(c) /\ Uncrossed(c)
    <3>1. Placed(m.b) /\ Uncrossed(m.b)
      BY <1>2, <1>3, <2>3, ShrunkUncrossed
    <3> QED
      BY <1>1, <1>3, <1>5, <2>1, <3>1, AddPlaced, RestUncrossed
  <2> QED
    BY <2>2, <2>3 DEF c
<1> QED
  BY <1>4, <1>5

LEMMA SubmitReply ==
  ASSUME NEW b, IsBook(b), Indexed(b), NEW o \in Order
  PROVE  LET r == AdapterSubmit(b, o)
         IN  /\ r.evs \in Seq(AdapterEvs) /\ r.evs # <<>> /\ r.found \in BOOLEAN
             /\ r = [book |-> r.book, evs |-> r.evs, found |-> r.found]
<1> DEFINE m == Matched(b, o)
           e == Ev("Accepted", o.id, 0)
           a == Ev("Added", o.id, 0)
           last == IF m.t.qty > 0 THEN <<a>> ELSE <<>>
           r == AdapterSubmit(b, o)
<1>1. r = [book |-> Add(m.b, m.t), found |-> TRUE, evs |-> <<e>> \o m.evs \o last]
  BY SubmitFields
<1>2. m.evs \in Seq(AdapterEvs)
  BY MatchedRun DEF IsRun
<1>3. e \in AdapterEvs /\ a \in AdapterEvs
  BY DEF AdapterEvs, EvTypes, Order
<1> HIDE DEF m, e, a, r
<1>4. <<a>> \in Seq(AdapterEvs) /\ <<>> \in Seq(AdapterEvs)
  BY <1>3
<1>5. last \in Seq(AdapterEvs)
  BY <1>4
<1> HIDE DEF last
<1>6. <<e>> \o m.evs \o last \in Seq(AdapterEvs) /\ <<e>> \o m.evs \o last # <<>>
  BY <1>2, <1>3, <1>5, SomeEvents
<1> DEFINE es == <<e>> \o m.evs \o last
<1>7. es \in Seq(AdapterEvs) /\ es # <<>> /\ r = [book |-> Add(m.b, m.t), found |-> TRUE, evs |-> es]
  BY <1>1, <1>6
<1> HIDE DEF es
<1> QED
  BY <1>7 DEF r

\* The commands that reach the adapter.
AdapterCommands ==
  [ type : {"submit", "cancel"}, id : OrderIds, side : Sides \cup {BadSide},
    price : Prices, qty : 0..MaxQty ]

\* The heap book behind its adapter is a book such as the engine's theorems are about
\* (BookAssumption): whatever commands it is given, also behind a Cancel that deleted
\* from the wrong map, its operations return such a book again and a list of events
\* that is not empty.
THEOREM AdapterIsABook ==
  /\ EmptyBook \in HeapBooks
  /\ \A b \in HeapBooks, c \in AdapterCommands :
       /\ AdapterApply(b, c) \in [book : HeapBooks, evs : Seq(AdapterEvs), found : BOOLEAN]
       /\ AdapterApply(b, c).evs # <<>>
<1>0. \A b : b \in HeapBooks <=> IsBook(b) /\ Indexed(b)
  BY DEF HeapBooks, IsBook
<1>1. EmptyBook \in HeapBooks
  <2>1. IsBook(EmptyBook)
    BY DEF EmptyBook, IsBook
  <2>2. Resting(EmptyBook) = {} /\ \A l \in LvIds : EmptyBook.q[l] = <<>>
    BY DEF EmptyBook, Resting
  <2>3. 1..Len(<<>>) = {}
    OBVIOUS
  <2>4. Indexed(EmptyBook)
    BY <2>2, <2>3 DEF Indexed
  <2> QED
    BY <1>0, <2>1, <2>4
<1>2. ASSUME NEW b \in HeapBooks, NEW c \in AdapterCommands
      PROVE  /\ AdapterApply(b, c) \in [book : HeapBooks, evs : Seq(AdapterEvs), found : BOOLEAN]
             /\ AdapterApply(b, c).evs # <<>>
  <2> DEFINE r == AdapterApply(b, c)
  <2>0. IsBook(b) /\ Indexed(b) /\ c.id \in OrderIds
    BY <1>0 DEF AdapterCommands
  <2>1. SUFFICES /\ r.book \in HeapBooks /\ r.evs \in Seq(AdapterEvs) /\ r.evs # <<>>
                 /\ r.found \in BOOLEAN /\ r = [book |-> r.book, evs |-> r.evs, found |-> r.found]
    <3> HIDE DEF r
    <3> QED
      BY <2>1 DEF r
  <2>2. CASE c.type = "submit"
    <3> DEFINE o == [id |-> c.id, side |-> c.side, price |-> c.price, qty |-> c.qty]
    <3>1. o \in Order
      BY DEF AdapterCommands, Order
    <3>2. r = AdapterSubmit(b, o)
      BY <2>2 DEF AdapterApply
    <3> HIDE DEF o, r
    <3> QED
      BY <1>0, <2>0, <3>1, <3>2, SubmitBook, SubmitReply
  <2>3. CASE c.type # "submit" /\ b.node[c.id] = NoNode
    <3> DEFINE e == Ev("Rejected", c.id, 0)
    <3>1. r = [book |-> b, evs |-> <<e>>, found |-> FALSE]
      BY <2>3, Zenon DEF AdapterApply, AdapterCancel
    <3>2. e \in AdapterEvs
      BY <2>0 DEF AdapterEvs, EvTypes
    <3> HIDE DEF e, r
    <3> QED
      BY <3>1, <3>2
  <2>4. CASE c.type # "submit" /\ b.node[c.id] # NoNode
    <3> DEFINE e == Ev("Cancelled", c.id, 0)
               d == Cancel(b, c.id, 0)
    <3>1. r = [book |-> d, evs |-> <<e>>, found |-> TRUE]
      BY <2>4, Zenon DEF AdapterApply, AdapterCancel
    <3>2. e \in AdapterEvs
      BY <2>0 DEF AdapterEvs, EvTypes
    <3>3. c.id \in Resting(b)
      BY <2>0, <2>4 DEF Resting
    <3>4. d \in HeapBooks
      BY <1>0, <2>0, <3>3, CancelIndexed
    <3> HIDE DEF e, r, d
    <3> QED
      BY <3>1, <3>2, <3>4
  <2> QED
    BY <2>2, <2>3, <2>4
<1> QED
  BY <1>1, <1>2

\* A whole submit is the steps of the heap book's state machine: SubmitLimit, a
\* MatchStep for as long as the best level crosses, and Rest.  The loop has come to its
\* end, and a book that was sound and not crossed is so again when the call returns.
THEOREM SubmitRunsToItsEnd ==
  ASSUME NEW b \in HeapBooks, NEW o \in Order, o.side \in Sides, o.qty > 0
  PROVE  LET n == Cardinality(OrderIds)
             r == Loop(b, o)
             c == AdapterSubmit(b, o).book
         IN  /\ r[0] = [b |-> b, t |-> o, evs |-> <<>>]
             /\ \A k \in 1..n :
                  IF CanMatch(r[k - 1].b, r[k - 1].t)
                  THEN /\ r[k].b = MatchOne(r[k - 1].b, r[k - 1].t)
                       /\ r[k].t = [r[k - 1].t EXCEPT !.qty = @ - Exec(r[k - 1].b, r[k - 1].t)]
                  ELSE r[k] = r[k - 1]
             /\ ~CanMatch(r[n].b, r[n].t)
             /\ c = Add(EndMatch(r[n].b, r[n].t), r[n].t)
             /\ Placed(b) /\ Uncrossed(b) => Placed(c) /\ Uncrossed(c)
<1> DEFINE n == Cardinality(OrderIds)
           r == Loop(b, o)
<1>0. IsBook(b) /\ Indexed(b)
  BY DEF HeapBooks, IsBook
<1>1. n \in Nat /\ r[0] = [b |-> b, t |-> o, evs |-> <<>>]
  BY LoopSteps
<1>2. ASSUME NEW k \in 1..n
      PROVE  IF CanMatch(r[k - 1].b, r[k - 1].t)
             THEN /\ r[k].b = MatchOne(r[k - 1].b, r[k - 1].t)
                  /\ r[k].t = [r[k - 1].t EXCEPT !.qty = @ - Exec(r[k - 1].b, r[k - 1].t)]
             ELSE r[k] = r[k - 1]
  <2>1. r[k] = Iterated(r[k - 1], o.id)
    BY LoopSteps
  <2> HIDE DEF r
  <2> QED
    BY <2>1 DEF Iterated
<1>3. ~CanMatch(r[n].b, r[n].t)
  BY <1>0, LoopEnds
<1>4. AdapterSubmit(b, o).book = Add(EndMatch(r[n].b, r[n].t), r[n].t)
  <2>1. Matched(b, o) = MatchAll(b, o)
    BY DEF Matched, Order
  <2>2. IsRun(o, r[n])
    BY <1>0, LoopEnds
  <2>3. MatchAll(b, o) = [r[n] EXCEPT !.b = EndMatch(r[n].b, r[n].t)]
    BY DEF MatchAll
  <2> HIDE DEF r, n
  <2>4. MatchAll(b, o).b = EndMatch(r[n].b, r[n].t) /\ MatchAll(b, o).t = r[n].t
    BY <2>2, <2>3 DEF IsRun
  <2> QED
    BY <2>1, <2>4, SubmitFields
<1>5. Placed(b) /\ Uncrossed(b) => Placed(AdapterSubmit(b, o).book) /\ Uncrossed(AdapterSubmit(b, o).book)
  BY <1>0, SubmitBook
<1> QED
  BY <1>1, <1>2, <1>3, <1>4, <1>5

-----------------------------------------------------------------------------
(* The heap book beside the other books *)

\* Beside the level and the naive book the heap book takes the steps it takes alone.
LEMMA HeapBookSteps == [BooksNext]_allVars => [Next]_vars
<1>1. ASSUME NEW o \in Order, Submit(o) PROVE Next
  BY <1>1 DEF Submit, Next
<1>2. ASSUME NEW o \in Order, Inert(o) PROVE Next
  BY <1>2 DEF Inert, Next
<1>3. CASE Match
  BY <1>3 DEF Match, Next
<1>4. CASE RestAll
  BY <1>4 DEF RestAll, Next
<1>5. ASSUME NEW i \in OrderIds, NEW second \in BOOLEAN, CancelAll(i, second) PROVE [Next]_vars
  BY <1>5 DEF CancelAll, Next
<1>6. ASSUME NEW s \in Sides, BestAll(s) PROVE Next
  BY <1>6 DEF BestAll, Next
<1>7. CASE UNCHANGED allVars
  BY <1>7 DEF allVars, vars
<1> QED
  BY <1>1, <1>2, <1>3, <1>4, <1>5, <1>6, <1>7 DEF BooksNext

\* So what is proved of the heap book holds where the three are compared.
THEOREM BooksRunTheHeapBook == BooksSpec => Spec
<1>1. BooksInit => Init
  BY DEF BooksInit
<1> QED
  BY <1>1, HeapBookSteps, PTL DEF BooksSpec, Spec

-----------------------------------------------------------------------------
(* Who stands in front of whom in a list *)

Has(xs, i) == \E k \in 1..Len(xs) : xs[k] = i
Once(xs) == \A k, m \in 1..Len(xs) : xs[k] = xs[m] => k = m
InFront(xs, i, j) == \E k, m \in 1..Len(xs) : k < m /\ xs[k] = i /\ xs[m] = j

\* A list with one more at its end.
LEMMA FrontAppend ==
  ASSUME NEW S, NEW xs \in Seq(S), NEW x \in S
  PROVE  /\ Append(xs, x) \in Seq(S) /\ Append(xs, x) # <<>>
         /\ \A i : Has(Append(xs, x), i) <=> Has(xs, i) \/ i = x
         /\ \A i, j : InFront(Append(xs, x), i, j) <=> InFront(xs, i, j) \/ (j = x /\ Has(xs, i))
         /\ Once(xs) /\ ~Has(xs, x) => Once(Append(xs, x))
<1> DEFINE ys == Append(xs, x)
           n == Len(xs)
<1>1. /\ ys \in Seq(S) /\ ys # <<>> /\ n \in Nat /\ Len(ys) = n + 1
      /\ \A k \in 1..n : ys[k] = xs[k]
      /\ ys[n + 1] = x
  BY AppendProperties, LenProperties
<1>2. PICK m \in Nat : m = n + 1
  BY <1>1
<1> HIDE DEF ys, n
<1>3. /\ Len(ys) = m /\ ys[m] = x /\ m \in 1..m
      /\ \A k \in 1..m : k # m => k \in 1..n /\ k < m
      /\ \A k \in 1..n : k \in 1..m /\ k < m /\ ys[k] = xs[k]
  BY <1>1, <1>2
<1>4. \A i : Has(ys, i) <=> Has(xs, i) \/ i = x
  BY <1>3 DEF Has, n
<1>5. ASSUME NEW i, NEW j PROVE InFront(ys, i, j) <=> InFront(xs, i, j) \/ (j = x /\ Has(xs, i))
  <2>1. ASSUME InFront(ys, i, j) PROVE InFront(xs, i, j) \/ (j = x /\ Has(xs, i))
    <3>1. PICK k \in 1..m, l \in 1..m : k < l /\ ys[k] = i /\ ys[l] = j
      BY <2>1, <1>3 DEF InFront
    <3>2. k # m
      BY <3>1
    <3>3. k \in 1..n /\ xs[k] = i
      BY <3>1, <3>2, <1>3
    <3>4. l = m \/ (l \in 1..n /\ xs[l] = j)
      BY <3>1, <1>3
    <3> QED
      BY <3>1, <3>3, <3>4, <1>3 DEF InFront, Has, n
  <2>2. ASSUME InFront(xs, i, j) PROVE InFront(ys, i, j)
    <3>1. PICK k \in 1..n, l \in 1..n : k < l /\ xs[k] = i /\ xs[l] = j
      BY <2>2 DEF InFront, n
    <3> QED
      BY <3>1, <1>3 DEF InFront
  <2>3. ASSUME j = x, Has(xs, i) PROVE InFront(ys, i, j)
    <3>1. PICK k \in 1..n : xs[k] = i
      BY <2>3 DEF Has, n
    <3> QED
      BY <2>3, <3>1, <1>3 DEF InFront
  <2> QED
    BY <2>1, <2>2, <2>3
<1>6. ASSUME Once(xs), ~Has(xs, x) PROVE Once(ys)
  <2> SUFFICES ASSUME NEW k \in 1..m, NEW l \in 1..m, ys[k] = ys[l] PROVE k = l
    BY <1>3 DEF Once
  <2>1. CASE k = m
    BY <2>1, <1>3, <1>6 DEF Has, n
  <2>2. CASE l = m
    BY <2>2, <1>3, <1>6 DEF Has, n
  <2>3. CASE k # m /\ l # m
    BY <2>3, <1>3, <1>6 DEF Once, n
  <2> QED
    BY <2>1, <2>2, <2>3
<1> QED
  BY <1>1, <1>4, <1>5, <1>6 DEF ys

\* The place in a list of what is at place i of the list without the one at k.
Back(i, k) == IF i < k THEN i ELSE i + 1

\* w is s without the one at k, place by place.
Shifted(w, s, k) ==
  /\ \A i \in 1..Len(w) : \E j \in 1..Len(s) \ {k} : w[i] = s[j] /\ j = Back(i, k)
  /\ \A j \in 1..Len(s) \ {k} : \E i \in 1..Len(w) : w[i] = s[j] /\ j = Back(i, k)

LEMMA WithoutPlaces ==
  ASSUME NEW S, NEW s \in Seq(S), NEW k \in 1..Len(s)
  PROVE  Without(s, k) \in Seq(S) /\ Shifted(Without(s, k), s, k)
<1> DEFINE w == Without(s, k)
           n == Len(s)
<1>1. /\ w \in Seq(S) /\ n \in Nat /\ Len(w) = n - 1
      /\ \A i \in 1..(n - 1) : w[i] = IF i < k THEN s[i] ELSE s[i + 1]
  BY WithoutProperties
<1>2. k \in 1..n
  OBVIOUS
<1> HIDE DEF w, n
<1>3. ASSUME NEW i \in 1..Len(w)
      PROVE  \E j \in 1..n \ {k} : w[i] = s[j] /\ j = Back(i, k)
  <2>1. CASE i < k
    <3>1. i \in 1..n \ {k} /\ w[i] = s[i]
      BY <2>1, <1>1, <1>2
    <3> QED
      BY <2>1, <3>1 DEF Back
  <2>2. CASE ~(i < k)
    <3>1. i + 1 \in 1..n \ {k} /\ w[i] = s[i + 1]
      BY <2>2, <1>1, <1>2
    <3> QED
      BY <2>2, <3>1 DEF Back
  <2> QED
    BY <2>1, <2>2
<1>4. ASSUME NEW j \in 1..n \ {k}
      PROVE  \E i \in 1..Len(w) : w[i] = s[j] /\ j = Back(i, k)
  <2>1. CASE j < k
    <3>1. j \in 1..Len(w) /\ w[j] = s[j]
      BY <2>1, <1>1, <1>2
    <3> QED
      BY <2>1, <3>1 DEF Back
  <2>2. CASE ~(j < k)
    <3>1. j - 1 \in 1..Len(w) /\ ~(j - 1 < k) /\ (j - 1) + 1 = j
      BY <2>2, <1>1, <1>2
    <3>2. w[j - 1] = s[(j - 1) + 1]
      BY <3>1, <1>1
    <3> QED
      BY <3>1, <3>2 DEF Back
  <2> QED
    BY <2>1, <2>2
<1> QED
  BY <1>1, <1>3, <1>4 DEF w, n, Shifted

\* A list that has nothing twice, without the one at k.
LEMMA FrontWithout ==
  ASSUME NEW S, NEW xs \in Seq(S), NEW k \in 1..Len(xs), Once(xs)
  PROVE  /\ Without(xs, k) \in Seq(S) /\ Once(Without(xs, k))
         /\ \A i : Has(Without(xs, k), i) <=> Has(xs, i) /\ i # xs[k]
         /\ \A i, j : InFront(Without(xs, k), i, j) <=>
                        InFront(xs, i, j) /\ i # xs[k] /\ j # xs[k]
<1> DEFINE w == Without(xs, k)
           n == Len(xs)
<1>1. /\ w \in Seq(S)
      /\ \A i \in 1..Len(w) : \E j \in 1..n \ {k} : w[i] = xs[j] /\ j = Back(i, k)
      /\ \A j \in 1..n \ {k} : \E i \in 1..Len(w) : w[i] = xs[j] /\ j = Back(i, k)
  <2>1. w \in Seq(S) /\ Shifted(w, xs, k)
    BY WithoutPlaces
  <2> HIDE DEF w
  <2> QED
    BY <2>1 DEF Shifted
<1>2. k \in 1..n /\ n \in Nat /\ Len(w) \in Nat
  BY <1>1, LenProperties
<1>3. \A i, j \in 1..n : xs[i] = xs[j] => i = j
  BY DEF Once
<1> HIDE DEF w, n
<1>4. Once(w)
  <2> SUFFICES ASSUME NEW i \in 1..Len(w), NEW j \in 1..Len(w), w[i] = w[j] PROVE i = j
    BY DEF Once
  <2>1. PICK a \in 1..n \ {k} : w[i] = xs[a] /\ a = Back(i, k)
    BY <1>1
  <2>2. PICK b \in 1..n \ {k} : w[j] = xs[b] /\ b = Back(j, k)
    BY <1>1
  <2>3. a = b
    BY <2>1, <2>2, <1>3
  <2> QED
    BY <2>1, <2>2, <2>3, <1>2 DEF Back
<1>5. ASSUME NEW i PROVE Has(w, i) <=> Has(xs, i) /\ i # xs[k]
  <2>1. ASSUME Has(w, i) PROVE Has(xs, i) /\ i # xs[k]
    <3>1. PICK a \in 1..Len(w) : w[a] = i
      BY <2>1 DEF Has
    <3>2. PICK b \in 1..n \ {k} : w[a] = xs[b]
      BY <1>1
    <3> QED
      BY <3>1, <3>2, <1>2, <1>3 DEF Has, n
  <2>2. ASSUME Has(xs, i), i # xs[k] PROVE Has(w, i)
    <3>1. PICK b \in 1..n : xs[b] = i
      BY <2>2 DEF Has, n
    <3>2. b \in 1..n \ {k}
      BY <2>2, <3>1
    <3> QED
      BY <3>1, <3>2, <1>1 DEF Has
  <2> QED
    BY <2>1, <2>2
<1>6. ASSUME NEW i, NEW j PROVE InFront(w, i, j) <=> InFront(xs, i, j) /\ i # xs[k] /\ j # xs[k]
  <2>1. ASSUME InFront(w, i, j) PROVE InFront(xs, i, j) /\ i # xs[k] /\ j # xs[k]
    <3>1. PICK a \in 1..Len(w), b \in 1..Len(w) : a < b /\ w[a] = i /\ w[b] = j
      BY <2>1 DEF InFront
    <3>2. PICK c \in 1..n \ {k} : w[a] = xs[c] /\ c = Back(a, k)
      BY <1>1
    <3>3. PICK d \in 1..n \ {k} : w[b] = xs[d] /\ d = Back(b, k)
      BY <1>1
    <3>4. c < d
      BY <3>1, <3>2, <3>3, <1>2 DEF Back
    <3>5. xs[c] # xs[k] /\ xs[d] # xs[k]
      BY <1>2, <1>3
    <3>6. InFront(xs, i, j)
      BY <3>1, <3>2, <3>3, <3>4 DEF InFront, n
    <3> QED
      BY <3>1, <3>2, <3>3, <3>5, <3>6
  <2>2. ASSUME InFront(xs, i, j), i # xs[k], j # xs[k] PROVE InFront(w, i, j)
    <3>1. PICK c \in 1..n, d \in 1..n : c < d /\ xs[c] = i /\ xs[d] = j
      BY <2>2 DEF InFront, n
    <3>2. c \in 1..n \ {k} /\ d \in 1..n \ {k}
      BY <2>2, <3>1
    <3>3. PICK a \in 1..Len(w) : w[a] = xs[c] /\ c = Back(a, k)
      BY <1>1, <3>2
    <3>4. PICK b \in 1..Len(w) : w[b] = xs[d] /\ d = Back(b, k)
      BY <1>1, <3>2
    <3>5. a < b
      BY <3>1, <3>3, <3>4, <1>2 DEF Back
    <3> QED
      BY <3>1, <3>3, <3>4, <3>5 DEF InFront
  <2> QED
    BY <2>1, <2>2
<1> QED
  BY <1>1, <1>4, <1>5, <1>6 DEF w

\* Two lists with the same members, each once and in the same order, are the same.
LEMMA OneOrdering ==
  ASSUME NEW S, NEW xs \in Seq(S), NEW ys \in Seq(S), Once(xs), Once(ys),
         \A i : Has(xs, i) <=> Has(ys, i),
         \A i, j : Has(xs, i) /\ Has(xs, j) => (InFront(xs, i, j) <=> InFront(ys, i, j))
  PROVE  xs = ys
<1> DEFINE T == {k \in Nat : k \in 1..Len(xs) /\ ~(k \in 1..Len(ys) /\ xs[k] = ys[k])}
<1>0. Len(xs) \in Nat /\ Len(ys) \in Nat
  BY LenProperties
<1>1. ASSUME T # {} PROVE FALSE
  <2>1. PICK k \in T : \A y \in T : k <= y
    BY <1>1, LeastNatural
  <2>2. k \in Nat /\ k \in 1..Len(xs) /\ ~(k \in 1..Len(ys) /\ xs[k] = ys[k])
    BY <2>1
  <2>3. \A j \in 1..Len(xs) : j < k => j \in 1..Len(ys) /\ xs[j] = ys[j]
    BY <2>1, <2>2, <1>0
  <2>4. PICK m \in 1..Len(ys) : ys[m] = xs[k]
    BY <2>2 DEF Has
  <2>5. ~(m < k)
    <3>1. ASSUME m < k PROVE FALSE
      <4>1. m \in 1..Len(xs)
        BY <3>1, <2>2, <2>4, <1>0
      <4>2. xs[m] = xs[k]
        BY <4>1, <3>1, <2>3, <2>4
      <4> QED
        BY <4>1, <4>2, <3>1, <2>2 DEF Once
    <3> QED
      BY <3>1
  <2>6. m # k
    BY <2>2, <2>4
  <2>7. k < m /\ k \in 1..Len(ys)
    BY <2>2, <2>4, <2>5, <2>6, <1>0
  <2>8. InFront(ys, ys[k], xs[k])
    BY <2>4, <2>7 DEF InFront
  <2>9. Has(xs, ys[k]) /\ Has(xs, xs[k])
    BY <2>2, <2>7 DEF Has
  <2>10. InFront(xs, ys[k], xs[k])
    BY <2>8, <2>9
  <2>11. PICK a \in 1..Len(xs), b \in 1..Len(xs) : a < b /\ xs[a] = ys[k] /\ xs[b] = xs[k]
    BY <2>10 DEF InFront
  <2>12. b = k
    BY <2>2, <2>11 DEF Once
  <2>13. a \in 1..Len(ys) /\ ys[a] = ys[k]
    BY <2>3, <2>11, <2>12
  <2> QED
    BY <2>7, <2>11, <2>12, <2>13 DEF Once
<1>2. \A k \in 1..Len(xs) : k \in 1..Len(ys) /\ xs[k] = ys[k]
  BY <1>0, <1>1
<1> HIDE DEF T
<1>3. ASSUME Len(xs) < Len(ys) PROVE FALSE
  <2>1. Len(ys) \in 1..Len(ys)
    BY <1>0, <1>3
  <2>2. Has(xs, ys[Len(ys)])
    BY <2>1 DEF Has
  <2>3. PICK a \in 1..Len(xs) : xs[a] = ys[Len(ys)]
    BY <2>2 DEF Has
  <2>4. a \in 1..Len(ys) /\ ys[a] = ys[Len(ys)]
    BY <2>3, <1>2
  <2>5. a = Len(ys)
    BY <2>1, <2>4 DEF Once
  <2> QED
    BY <2>3, <2>5, <1>0, <1>3
<1>4. ASSUME Len(ys) < Len(xs) PROVE FALSE
  <2>1. Len(xs) \in 1..Len(xs)
    BY <1>0, <1>4
  <2>2. Len(xs) \in 1..Len(ys)
    BY <2>1, <1>2
  <2> QED
    BY <2>2, <1>0, <1>4
<1>5. Len(xs) = Len(ys)
  BY <1>0, <1>3, <1>4
<1> QED
  BY <1>2, <1>5, SeqEqual

-----------------------------------------------------------------------------
(* Slices *)

\* removeAtOrderPtr and the pops are removals of one place.
LEMMA RemoveAtIsWithout ==
  ASSUME NEW S, NEW s \in Seq(S), NEW k \in 1..Len(s)
  PROVE  RemoveAt(s, k) = Without(s, k)
<1> DEFINE f == SubSeq(s, 1, k - 1)
           g == SubSeq(s, k + 1, Len(s))
           n == Len(s)
<1>1. n \in Nat /\ k \in Int /\ 1 <= k /\ k <= n /\ \A i \in 1..n : s[i] \in S
  BY LenProperties, ElementOfSeq
<1>2. \A i \in 1..(k - 1) : s[i] \in S
  BY <1>1
<1>3. \A i \in (k + 1)..n : s[i] \in S
  BY <1>1
<1>4. f \in Seq(S) /\ Len(f) = k - 1 /\ \A i \in 1..(k - 1) : f[i] = s[i]
  <2>1. /\ f \in Seq(S) /\ Len(f) = IF 1 <= k - 1 THEN (k - 1) - 1 + 1 ELSE 0
        /\ \A i \in 1..((k - 1) - 1 + 1) : f[i] = s[1 + i - 1]
    BY <1>1, <1>2, SubSeqProperties
  <2> HIDE DEF f
  <2>2. Len(f) = k - 1
    BY <2>1, <1>1
  <2>3. ASSUME NEW i \in 1..(k - 1) PROVE f[i] = s[i]
    <3>1. i \in 1..((k - 1) - 1 + 1) /\ 1 + i - 1 = i
      BY <1>1
    <3> QED
      BY <2>1, <3>1
  <2> QED
    BY <2>1, <2>2, <2>3
<1>5. g \in Seq(S) /\ Len(g) = n - k /\ \A i \in 1..(n - k) : g[i] = s[k + i]
  <2>1. /\ g \in Seq(S) /\ Len(g) = IF k + 1 <= n THEN n - (k + 1) + 1 ELSE 0
        /\ \A i \in 1..(n - (k + 1) + 1) : g[i] = s[(k + 1) + i - 1]
    BY <1>1, <1>3, SubSeqProperties
  <2> HIDE DEF g
  <2>2. Len(g) = n - k
    BY <2>1, <1>1
  <2>3. ASSUME NEW i \in 1..(n - k) PROVE g[i] = s[k + i]
    <3>1. i \in 1..(n - (k + 1) + 1) /\ (k + 1) + i - 1 = k + i
      BY <1>1
    <3> QED
      BY <2>1, <3>1
  <2> QED
    BY <2>1, <2>2, <2>3
<1>6. RemoveAt(s, k) = f \o g
  BY DEF RemoveAt
<1> HIDE DEF f, g, n
<1>7. /\ f \o g \in Seq(S) /\ Len(f \o g) = n - 1
      /\ \A i \in 1..(n - 1) : (f \o g)[i] = IF i <= k - 1 THEN f[i] ELSE g[i - (k - 1)]
  <2>1. /\ f \o g \in Seq(S) /\ Len(f \o g) = Len(f) + Len(g)
        /\ \A i \in 1..Len(f) + Len(g) : (f \o g)[i] = IF i <= Len(f) THEN f[i] ELSE g[i - Len(f)]
    BY <1>4, <1>5, ConcatProperties
  <2>2. Len(f) + Len(g) = n - 1
    BY <1>1, <1>4, <1>5
  <2> QED
    BY <2>1, <2>2, <1>4
<1>8. /\ Without(s, k) \in Seq(S) /\ Len(Without(s, k)) = n - 1
      /\ \A i \in 1..(n - 1) : Without(s, k)[i] = IF i < k THEN s[i] ELSE s[i + 1]
  BY WithoutProperties DEF n
<1>9. ASSUME NEW i \in 1..(n - 1) PROVE (f \o g)[i] = Without(s, k)[i]
  <2>1. CASE i < k
    <3>1. i <= k - 1 /\ i \in 1..(k - 1)
      BY <2>1, <1>1
    <3>2. (f \o g)[i] = f[i] /\ f[i] = s[i]
      BY <3>1, <1>4, <1>7
    <3> QED
      BY <2>1, <3>2, <1>8
  <2>2. CASE ~(i < k)
    <3>1. ~(i <= k - 1) /\ i - (k - 1) \in 1..(n - k) /\ k + (i - (k - 1)) = i + 1
      BY <2>2, <1>1
    <3>2. (f \o g)[i] = g[i - (k - 1)]
      BY <3>1, <1>7
    <3>3. g[i - (k - 1)] = s[k + (i - (k - 1))]
      BY <3>1, <1>5
    <3>4. Without(s, k)[i] = s[i + 1]
      BY <2>2, <1>8
    <3> QED
      BY <3>1, <3>2, <3>3, <3>4
  <2> QED
    BY <2>1, <2>2
<1> QED
  BY <1>6, <1>7, <1>8, <1>9, SeqEqual

LEMMA TailIsWithout ==
  ASSUME NEW S, NEW s \in Seq(S), s # <<>>
  PROVE  Tail(s) = Without(s, 1) /\ Head(s) = s[1] /\ 1 \in 1..Len(s)
<1>1. Len(s) \in Nat /\ Len(s) > 0
  BY EmptySeq, LenProperties
<1>2. 1 \in 1..Len(s)
  BY <1>1
<1>3. /\ Tail(s) \in Seq(S) /\ Len(Tail(s)) = Len(s) - 1
      /\ \A i \in 1..Len(Tail(s)) : Tail(s)[i] = s[i + 1]
  BY HeadTailProperties
<1>4. /\ Without(s, 1) \in Seq(S) /\ Len(Without(s, 1)) = Len(s) - 1
      /\ \A i \in 1..(Len(s) - 1) : Without(s, 1)[i] = IF i < 1 THEN s[i] ELSE s[i + 1]
  BY <1>2, WithoutProperties
<1>5. \A i \in 1..(Len(s) - 1) : Tail(s)[i] = Without(s, 1)[i]
  BY <1>3, <1>4
<1>6. Tail(s) = Without(s, 1)
  BY <1>3, <1>4, <1>5, SeqEqual
<1> QED
  BY <1>2, <1>6

\* The place in the new slice of what was at place i, when one is put in at k.
Pushed(i, k) == IF i < k THEN i ELSE i + 1

\* w is s with x put in at k, place by place.
Inserted(w, s, k, x) ==
  /\ k \in 1..Len(w) /\ w[k] = x
  /\ \A i \in 1..Len(s) : Pushed(i, k) \in 1..Len(w) /\ w[Pushed(i, k)] = s[i]
  /\ \A j \in 1..Len(w) : j = k \/ \E i \in 1..Len(s) : j = Pushed(i, k)

LEMMA InsertAtPlaces ==
  ASSUME NEW S, NEW s \in Seq(S), NEW k \in 1..(Len(s) + 1), NEW x \in S
  PROVE  InsertAt(s, k, x) \in Seq(S) /\ Inserted(InsertAt(s, k, x), s, k, x)
<1> DEFINE f == SubSeq(s, 1, k - 1)
           g == SubSeq(s, k, Len(s))
           n == Len(s)
           h == f \o <<x>>
<1>1. n \in Nat /\ k \in Int /\ 1 <= k /\ k <= n + 1 /\ \A i \in 1..n : s[i] \in S
  BY LenProperties, ElementOfSeq
<1>2. \A i \in 1..(k - 1) : s[i] \in S
  BY <1>1
<1>3. \A i \in k..n : s[i] \in S
  BY <1>1
<1>4. f \in Seq(S) /\ Len(f) = k - 1 /\ \A i \in 1..(k - 1) : f[i] = s[i]
  <2>1. /\ f \in Seq(S) /\ Len(f) = IF 1 <= k - 1 THEN (k - 1) - 1 + 1 ELSE 0
        /\ \A i \in 1..((k - 1) - 1 + 1) : f[i] = s[1 + i - 1]
    BY <1>1, <1>2, SubSeqProperties
  <2> HIDE DEF f
  <2>2. Len(f) = k - 1
    BY <2>1, <1>1
  <2>3. ASSUME NEW i \in 1..(k - 1) PROVE f[i] = s[i]
    <3>1. i \in 1..((k - 1) - 1 + 1) /\ 1 + i - 1 = i
      BY <1>1
    <3> QED
      BY <2>1, <3>1
  <2> QED
    BY <2>1, <2>2, <2>3
<1>5. g \in Seq(S) /\ Len(g) = n - k + 1 /\ \A i \in 1..(n - k + 1) : g[i] = s[k + i - 1]
  <2>1. /\ g \in Seq(S) /\ Len(g) = IF k <= n THEN n - k + 1 ELSE 0
        /\ \A i \in 1..(n - k + 1) : g[i] = s[k + i - 1]
    BY <1>1, <1>3, SubSeqProperties
  <2> HIDE DEF g
  <2> QED
    BY <2>1, <1>1
<1>6. InsertAt(s, k, x) = h \o g
  BY DEF InsertAt
<1> HIDE DEF f, g, n
<1>7. h \in Seq(S) /\ Len(h) = k /\ h[k] = x /\ \A i \in 1..(k - 1) : h[i] = s[i]
  <2>1. h = Append(f, x)
    BY <1>4, AppendIsConcat
  <2>2. /\ Append(f, x) \in Seq(S) /\ Len(Append(f, x)) = Len(f) + 1
        /\ \A i \in 1..Len(f) : Append(f, x)[i] = f[i]
        /\ Append(f, x)[Len(f) + 1] = x
    BY <1>4, AppendProperties
  <2>3. Len(f) + 1 = k
    BY <1>1, <1>4
  <2> QED
    BY <2>1, <2>2, <2>3, <1>4
<1> HIDE DEF h
<1> DEFINE w == h \o g
<1>8. /\ w \in Seq(S) /\ Len(w) = n + 1
      /\ \A i \in 1..(n + 1) : w[i] = IF i <= k THEN h[i] ELSE g[i - k]
  <2>1. /\ h \o g \in Seq(S) /\ Len(h \o g) = Len(h) + Len(g)
        /\ \A i \in 1..Len(h) + Len(g) : (h \o g)[i] = IF i <= Len(h) THEN h[i] ELSE g[i - Len(h)]
    BY <1>5, <1>7, ConcatProperties
  <2>2. Len(h) + Len(g) = n + 1
    BY <1>1, <1>5, <1>7
  <2> QED
    BY <2>1, <2>2, <1>7
<1> HIDE DEF w
<1>9. k \in 1..Len(w) /\ w[k] = x
  BY <1>1, <1>7, <1>8
<1>10. ASSUME NEW i \in 1..n PROVE Pushed(i, k) \in 1..Len(w) /\ w[Pushed(i, k)] = s[i]
  <2>1. CASE i < k
    <3>1. Pushed(i, k) = i /\ i \in 1..(n + 1) /\ i <= k /\ i \in 1..(k - 1)
      BY <2>1, <1>1 DEF Pushed
    <3> QED
      BY <3>1, <1>7, <1>8
  <2>2. CASE ~(i < k)
    <3>1. Pushed(i, k) = i + 1
      BY <2>2 DEF Pushed
    <3>2. i + 1 \in 1..(n + 1) /\ ~(i + 1 <= k) /\ (i + 1) - k \in 1..(n - k + 1) /\ k + ((i + 1) - k) - 1 = i
      BY <2>2, <1>1
    <3>3. w[i + 1] = g[(i + 1) - k]
      BY <3>2, <1>8
    <3>4. g[(i + 1) - k] = s[k + ((i + 1) - k) - 1]
      BY <3>2, <1>5
    <3> QED
      BY <3>1, <3>2, <3>3, <3>4, <1>8
  <2> QED
    BY <2>1, <2>2
<1>11. ASSUME NEW j \in 1..Len(w), j # k PROVE \E i \in 1..n : j = Pushed(i, k)
  <2>1. CASE j < k
    <3>1. j \in 1..n /\ j = Pushed(j, k)
      BY <2>1, <1>1, <1>8 DEF Pushed
    <3> QED
      BY <3>1
  <2>2. CASE ~(j < k)
    <3>1. j - 1 \in 1..n /\ j = Pushed(j - 1, k)
      BY <2>2, <1>1, <1>8, <1>11 DEF Pushed
    <3> QED
      BY <3>1
  <2> QED
    BY <2>1, <2>2
<1>12. Inserted(w, s, k, x)
  BY <1>9, <1>10, <1>11 DEF Inserted, n
<1> QED
  BY <1>6, <1>8, <1>12 DEF w

-----------------------------------------------------------------------------
(* What every order book is about: the resting orders of both sides, and which     *)
(* orders of its price stand in front of each.  side is 0 for an id that does not  *)
(* rest.                                                                           *)

IsView(v) ==
  /\ v.side \in [OrderIds -> {0} \cup Sides] /\ v.price \in [OrderIds -> Int]
  /\ v.qty \in [OrderIds -> Nat] /\ v.ahead \in [OrderIds -> SUBSET OrderIds]
  /\ \A i, j \in OrderIds :
       (v.side[i] # 0 /\ i # j /\ v.side[i] = v.side[j] /\ v.price[i] = v.price[j]) =>
         i \in v.ahead[j] \/ j \in v.ahead[i]

At(v, s, p) == {i \in OrderIds : v.side[i] = s /\ v.price[i] = p}

BestAt(v, s, p) ==
  /\ \E i \in OrderIds : v.side[i] = s /\ v.price[i] = p
  /\ \A j \in OrderIds : v.side[j] = s => AtLeast(s, p, v.price[j])

\* The order a taker of the other side trades with.
FirstAt(v, s, m) == m \in OrderIds /\ v.side[m] = s /\ BestAt(v, s, v.price[m]) /\ v.ahead[m] = {}

CanTrade(v, t) == t.qty > 0 /\ \E p \in Int : BestAt(v, Opp(t.side), p) /\ Crosses(t.side, p, t.price)

Traded(v, t, m) == IF t.qty < v.qty[m] THEN t.qty ELSE v.qty[m]

ViewAdd(v, o) ==
  [ side  |-> [v.side EXCEPT ![o.id] = o.side],
    price |-> [v.price EXCEPT ![o.id] = o.price],
    qty   |-> [v.qty EXCEPT ![o.id] = o.qty],
    ahead |-> [v.ahead EXCEPT ![o.id] = At(v, o.side, o.price)] ]

ViewRemove(v, i) ==
  [ side  |-> [v.side EXCEPT ![i] = 0],
    price |-> v.price,
    qty   |-> v.qty,
    ahead |-> [j \in OrderIds |-> v.ahead[j] \ {i}] ]

ViewReduce(v, i, x) ==
  [ side  |-> v.side,
    price |-> v.price,
    qty   |-> [v.qty EXCEPT ![i] = v.qty[i] - x],
    ahead |-> v.ahead ]

ViewTrade(v, t, m) ==
  IF Traded(v, t, m) < v.qty[m] THEN ViewReduce(v, m, Traded(v, t, m)) ELSE ViewRemove(v, m)

LEMMA SideFacts ==
  /\ Buy \in Sides /\ Sell \in Sides /\ Buy # 0 /\ Sell # 0 /\ Buy # Sell
  /\ \A s \in Sides : s # 0 /\ Opp(s) \in Sides
BY DEF Buy, Sell, Sides, Opp

LEMMA BestAtUnique ==
  ASSUME NEW v, IsView(v), NEW s \in Sides, NEW p, NEW r, BestAt(v, s, p), BestAt(v, s, r)
  PROVE  p = r /\ p \in Int
<1>1. PICK i \in OrderIds : v.side[i] = s /\ v.price[i] = p
  BY DEF BestAt
<1>2. PICK j \in OrderIds : v.side[j] = s /\ v.price[j] = r
  BY DEF BestAt
<1>3. p \in Int /\ r \in Int
  BY <1>1, <1>2 DEF IsView
<1>4. AtLeast(s, p, r) /\ AtLeast(s, r, p)
  BY <1>1, <1>2 DEF BestAt
<1> QED
  BY <1>3, <1>4 DEF AtLeast

\* The next order to trade is the same in every book that shows v.
LEMMA FirstAtUnique ==
  ASSUME NEW v, IsView(v), NEW s \in Sides, NEW m, NEW n, FirstAt(v, s, m), FirstAt(v, s, n)
  PROVE  m = n
<1>1. v.price[m] = v.price[n]
  BY BestAtUnique DEF FirstAt
<1>2. s # 0
  BY SideFacts
<1> QED
  BY <1>1, <1>2 DEF IsView, FirstAt

LEMMA ViewAddIsView ==
  ASSUME NEW v, IsView(v), NEW o \in Order, o.side \in Sides, v.side[o.id] = 0
  PROVE  IsView(ViewAdd(v, o))
<1> DEFINE w == ViewAdd(v, o)
           A == At(v, o.side, o.price)
<1>1. o.id \in OrderIds /\ o.price \in Int /\ o.qty \in Nat /\ o.side # 0
  <2>1. o.id \in OrderIds /\ o.price \in Prices /\ o.qty \in 0..MaxQty
    BY DEF Order
  <2>2. o.price \in Int
    BY <2>1, PricesAssumption, Zenon
  <2>4. o.qty \in Nat
    BY <2>1, BoundAssumption
  <2>3. o.side # 0
    BY SideFacts
  <2> QED
    BY <2>1, <2>2, <2>3, <2>4
<1>2. A \in SUBSET OrderIds
  BY DEF At
<1>3. /\ w.side = [v.side EXCEPT ![o.id] = o.side] /\ w.price = [v.price EXCEPT ![o.id] = o.price]
      /\ w.qty = [v.qty EXCEPT ![o.id] = o.qty] /\ w.ahead = [v.ahead EXCEPT ![o.id] = A]
  BY DEF ViewAdd
<1> HIDE DEF w, A
<1>4. /\ w.side \in [OrderIds -> {0} \cup Sides] /\ w.price \in [OrderIds -> Int]
      /\ w.qty \in [OrderIds -> Nat] /\ w.ahead \in [OrderIds -> SUBSET OrderIds]
  BY <1>1, <1>2, <1>3 DEF IsView
<1>5. ASSUME NEW i \in OrderIds, NEW j \in OrderIds, w.side[i] # 0, i # j,
             w.side[i] = w.side[j], w.price[i] = w.price[j]
      PROVE  i \in w.ahead[j] \/ j \in w.ahead[i]
  <2>1. CASE i = o.id
    <3>1. v.side[j] = o.side /\ v.price[j] = o.price /\ w.ahead[i] = A
      BY <1>1, <1>3, <1>5, <2>1 DEF IsView
    <3> QED
      BY <3>1 DEF A, At
  <2>2. CASE j = o.id
    <3>1. v.side[i] = o.side /\ v.price[i] = o.price /\ w.ahead[j] = A
      BY <1>1, <1>3, <1>5, <2>2 DEF IsView
    <3> QED
      BY <3>1 DEF A, At
  <2>3. CASE i # o.id /\ j # o.id
    <3>1. /\ v.side[i] # 0 /\ v.side[i] = v.side[j] /\ v.price[i] = v.price[j]
          /\ w.ahead[i] = v.ahead[i] /\ w.ahead[j] = v.ahead[j]
      BY <1>1, <1>3, <1>5, <2>3 DEF IsView
    <3> QED
      BY <3>1, <1>5 DEF IsView
  <2> QED
    BY <2>1, <2>2, <2>3
<1> QED
  BY <1>4, <1>5 DEF IsView, w

LEMMA ViewRemoveIsView ==
  ASSUME NEW v, IsView(v), NEW i \in OrderIds
  PROVE  IsView(ViewRemove(v, i))
<1> DEFINE w == ViewRemove(v, i)
<1>1. /\ w.side = [v.side EXCEPT ![i] = 0] /\ w.price = v.price /\ w.qty = v.qty
      /\ w.ahead = [j \in OrderIds |-> v.ahead[j] \ {i}]
  BY DEF ViewRemove
<1> HIDE DEF w
<1>2. /\ w.side \in [OrderIds -> {0} \cup Sides] /\ w.price \in [OrderIds -> Int]
      /\ w.qty \in [OrderIds -> Nat] /\ w.ahead \in [OrderIds -> SUBSET OrderIds]
  BY <1>1 DEF IsView
<1>3. ASSUME NEW k \in OrderIds, NEW j \in OrderIds, w.side[k] # 0, k # j,
             w.side[k] = w.side[j], w.price[k] = w.price[j]
      PROVE  k \in w.ahead[j] \/ j \in w.ahead[k]
  <2>1. /\ k # i /\ j # i /\ v.side[k] # 0 /\ v.side[k] = v.side[j] /\ v.price[k] = v.price[j]
    BY <1>1, <1>3 DEF IsView
  <2>2. k \in v.ahead[j] \/ j \in v.ahead[k]
    BY <2>1, <1>3 DEF IsView
  <2> QED
    BY <2>1, <2>2, <1>1
<1> QED
  BY <1>2, <1>3 DEF IsView, w

LEMMA ViewReduceIsView ==
  ASSUME NEW v, IsView(v), NEW i \in OrderIds, NEW x \in Nat, x <= v.qty[i]
  PROVE  IsView(ViewReduce(v, i, x))
<1> DEFINE w == ViewReduce(v, i, x)
           y == v.qty[i] - x
<1>1. /\ w.side = v.side /\ w.price = v.price /\ w.qty = [v.qty EXCEPT ![i] = y]
      /\ w.ahead = v.ahead
  BY DEF ViewReduce
<1>2. y \in Nat
  BY DEF IsView
<1> HIDE DEF w, y
<1> QED
  BY <1>1, <1>2 DEF IsView, w

LEMMA ViewTradeIsView ==
  ASSUME NEW v, IsView(v), NEW t \in Order, NEW m \in OrderIds
  PROVE  IsView(ViewTrade(v, t, m)) /\ Traded(v, t, m) \in Nat /\ Traded(v, t, m) <= t.qty
<1>1. Traded(v, t, m) \in Nat /\ Traded(v, t, m) <= v.qty[m] /\ Traded(v, t, m) <= t.qty
  BY BoundAssumption DEF Traded, IsView, Order
<1> QED
  BY <1>1, ViewReduceIsView, ViewRemoveIsView DEF ViewTrade

-----------------------------------------------------------------------------
(* The heap book shows a view *)

HeapShows(b, v) ==
  \A i \in OrderIds :
    /\ b.node[i] = NoNode => v.side[i] = 0
    /\ b.node[i] # NoNode =>
         /\ v.side[i] = b.node[i].side /\ v.price[i] = b.node[i].price /\ v.qty[i] = b.node[i].qty
         /\ \A j \in OrderIds : j \in v.ahead[i] <=> InFront(b.q[b.node[i].lv], j, i)

\* The lists of a book that is indexed.
LEMMA IndexedLists ==
  ASSUME NEW b, IsBook(b), Indexed(b), NEW l \in LvIds
  PROVE  /\ b.q[l] \in Seq(OrderIds) /\ Once(b.q[l])
         /\ \A i \in OrderIds : Has(b.q[l], i) <=> i \in Resting(b) /\ b.node[i].lv = l
<1>1. b.q[l] \in Seq(OrderIds) /\ \A k \in 1..Len(b.q[l]) : b.q[l][k] \in OrderIds
  BY ListsOfBook
<1>2. Once(b.q[l])
  BY DEF Indexed, Once
<1>3. ASSUME NEW i \in OrderIds, Has(b.q[l], i) PROVE i \in Resting(b) /\ b.node[i].lv = l
  BY <1>3 DEF Has, Indexed, Resting
<1>4. ASSUME NEW i \in OrderIds, i \in Resting(b), b.node[i].lv = l PROVE Has(b.q[l], i)
  BY <1>4 DEF Has, Indexed
<1> QED
  BY <1>1, <1>2, <1>3, <1>4

LEMMA FrontHas ==
  ASSUME NEW xs, NEW i, NEW j, InFront(xs, i, j)
  PROVE  Has(xs, i) /\ Has(xs, j)
BY DEF InFront, Has

LEMMA HeapAdd ==
  ASSUME NEW b, IsBook(b), Indexed(b), Placed(b), NEW o \in Order, ~Ignored(b, o),
         NEW v, IsView(v), HeapShows(b, v)
  PROVE  HeapShows(Add(b, o), ViewAdd(v, o)) /\ v.side[o.id] = 0
<1> DEFINE c == Add(b, o)
           w == ViewAdd(v, o)
           id == o.id
           s == o.side
           p == o.price
<1>0. id \in OrderIds /\ s \in Sides /\ p \in Prices /\ b.node[id] = NoNode
  BY DEF Ignored, Order
<1>1. IsBook(c) /\ \E l \in LvIds : AddsTo(b, o, c, l)
  BY AddFields
<1>2. PICK l \in LvIds : AddsTo(b, o, c, l)
  BY <1>1
<1>3. /\ w.side = [v.side EXCEPT ![id] = s] /\ w.price = [v.price EXCEPT ![id] = p]
      /\ w.qty = [v.qty EXCEPT ![id] = o.qty] /\ w.ahead = [v.ahead EXCEPT ![id] = At(v, s, p)]
  BY DEF ViewAdd
<1> HIDE DEF c, w
<1>4. v.side[id] = 0
  BY <1>0 DEF HeapShows
<1>5. /\ b.q[l] \in Seq(OrderIds)
      /\ \A i \in OrderIds : Has(b.q[l], i) <=> i \in Resting(b) /\ b.node[i].lv = l
  BY IndexedLists
<1>6. \A i, j : InFront(Append(b.q[l], id), i, j) <=>
                  InFront(b.q[l], i, j) \/ (j = id /\ Has(b.q[l], i))
  BY <1>0, <1>5, FrontAppend
<1>7. /\ c.q[l] = Append(b.q[l], id) /\ \A x \in LvIds \ {l} : c.q[x] = b.q[x]
      /\ c.node[id] # NoNode /\ c.node[id].side = s /\ c.node[id].price = p
      /\ c.node[id].qty = o.qty /\ c.node[id].lv = l
      /\ \A i \in OrderIds \ {id} : c.node[i] = b.node[i]
  <2>1. c.q = [b.q EXCEPT ![l] = Append(b.q[l], id)]
    BY <1>2 DEF AddsTo
  <2>2. c.node = [b.node EXCEPT ![id] = [side |-> s, price |-> p, qty |-> o.qty, lv |-> l]]
    BY <1>2 DEF AddsTo
  <2>3. o.qty \in Nat \ {0}
    BY BoundAssumption DEF Ignored, Order
  <2>4. [side |-> s, price |-> p, qty |-> o.qty, lv |-> l] \in Node
    BY <1>0, <2>3 DEF Node
  <2> QED
    BY <1>0, <2>1, <2>2, <2>4, BookFields, NilAssumption
<1>8. \A i \in OrderIds : Has(b.q[l], i) <=> i \in At(v, s, p)
  <2>1. \A i \in OrderIds : i \in At(v, s, p) <=> i \in Resting(b) /\ b.node[i].side = s /\ b.node[i].price = p
    <3>1. s # 0
      BY <1>0, SideFacts
    <3> QED
      BY <3>1, Zenon DEF At, HeapShows, Resting
  <2>2. CASE l = b.lvl[s][p]
    <3> SUFFICES ASSUME NEW i \in OrderIds PROVE Has(b.q[l], i) <=> i \in At(v, s, p)
      OBVIOUS
    <3>1. i \in Resting(b) /\ b.node[i].lv = b.lvl[s][p] => b.node[i].side = s /\ b.node[i].price = p
      BY <1>0 DEF Placed
    <3>2. i \in Resting(b) => b.lvl[b.node[i].side][b.node[i].price] = b.node[i].lv
      BY DEF Placed
    <3> HIDE DEF s, p, id
    <3> QED
      BY <1>5, <2>1, <2>2, <3>1, <3>2
  <2>3. CASE b.lvl[s][p] = NoLv /\ ~InUse(b, l)
    <3>1. \A i \in OrderIds : ~Has(b.q[l], i)
      BY <1>5, <2>3, Zenon DEF InUse, Resting
    <3>2. \A i \in OrderIds : i \notin At(v, s, p)
      <4> SUFFICES ASSUME NEW i \in OrderIds, i \in At(v, s, p) PROVE FALSE
        OBVIOUS
      <4>1. i \in Resting(b) /\ b.node[i].side = s /\ b.node[i].price = p
        BY <2>1
      <4>2. b.lvl[s][p] = b.node[i].lv
        BY <4>1 DEF Placed
      <4>3. b.node[i].lv # NoLv
        BY <4>1, RestingFields
      <4> QED
        BY <4>2, <4>3, <2>3
    <3> QED
      BY <3>1, <3>2, Zenon
  <2> QED
    BY <1>2, <2>2, <2>3, Zenon DEF AddsTo
<1>9. ~Has(b.q[l], id)
  BY <1>0, <1>5 DEF Resting
<1>10. ASSUME NEW i \in OrderIds, i = id
       PROVE  /\ c.node[i] # NoNode
              /\ w.side[i] = c.node[i].side /\ w.price[i] = c.node[i].price /\ w.qty[i] = c.node[i].qty
              /\ \A j \in OrderIds : j \in w.ahead[i] <=> InFront(c.q[c.node[i].lv], j, i)
  <2>1. w.side[id] = s /\ w.price[id] = p /\ w.qty[id] = o.qty /\ w.ahead[id] = At(v, s, p)
    BY <1>0, <1>3 DEF IsView
  <2>2. \A j \in OrderIds : InFront(c.q[l], j, id) <=> Has(b.q[l], j)
    BY <1>6, <1>7, <1>9, FrontHas
  <2> QED
    BY <1>7, <1>8, <1>10, <2>1, <2>2
<1>11. ASSUME NEW i \in OrderIds, i # id, b.node[i] # NoNode
       PROVE  /\ w.side[i] = c.node[i].side /\ w.price[i] = c.node[i].price /\ w.qty[i] = c.node[i].qty
              /\ \A j \in OrderIds : j \in w.ahead[i] <=> InFront(c.q[c.node[i].lv], j, i)
  <2>1. w.side[i] = v.side[i] /\ w.price[i] = v.price[i] /\ w.qty[i] = v.qty[i] /\ w.ahead[i] = v.ahead[i]
    BY <1>0, <1>3, <1>11 DEF IsView
  <2>2. c.node[i] = b.node[i] /\ b.node[i].lv \in LvIds
    BY <1>7, <1>11, BookFields DEF Node
  <2>3. \A j \in OrderIds : InFront(c.q[c.node[i].lv], j, i) <=> InFront(b.q[b.node[i].lv], j, i)
    <3>1. CASE b.node[i].lv = l
      <4>1. c.q[c.node[i].lv] = Append(b.q[l], id)
        BY <1>7, <2>2, <3>1
      <4> QED
        BY <1>6, <1>11, <3>1, <4>1
    <3>2. CASE b.node[i].lv # l
      BY <1>7, <2>2, <3>2
    <3> QED
      BY <3>1, <3>2, Zenon
  <2> QED
    BY <1>11, <2>1, <2>2, <2>3 DEF HeapShows
<1>12. ASSUME NEW i \in OrderIds, i # id, b.node[i] = NoNode PROVE c.node[i] = NoNode /\ w.side[i] = 0
  BY <1>3, <1>7, <1>12 DEF HeapShows, IsView
<1>13. HeapShows(c, w)
  <2>1. \A i \in OrderIds : i # id => c.node[i] = b.node[i]
    BY <1>7
  <2> QED
    BY <1>10, <1>11, <1>12, <2>1, Zenon DEF HeapShows
<1> QED
  BY <1>4, <1>13 DEF c, w

\* An order is taken from its list.
LEMMA HeapRemove ==
  ASSUME NEW b, IsBook(b), Indexed(b), NEW i \in Resting(b), NEW c,
         c.q = Unlink(b, i).q, c.node = Unlink(b, i).node,
         NEW v, IsView(v), HeapShows(b, v)
  PROVE  HeapShows(c, ViewRemove(v, i))
<1> DEFINE w == ViewRemove(v, i)
           l == b.node[i].lv
           k == PosOf(b.q[l], i)
<1>1. i \in OrderIds /\ l \in LvIds
  BY RestingFields
<1>2. k \in 1..Len(b.q[l]) /\ b.q[l][k] = i
  BY PosOfResting
<1>3. b.q[l] \in Seq(OrderIds) /\ Once(b.q[l])
  BY <1>1, IndexedLists
<1>4. /\ w.side = [v.side EXCEPT ![i] = 0] /\ w.price = v.price /\ w.qty = v.qty
      /\ w.ahead = [j \in OrderIds |-> v.ahead[j] \ {i}]
  BY DEF ViewRemove
<1>5. /\ c.q = [b.q EXCEPT ![l] = Without(b.q[l], k)]
      /\ c.node = [b.node EXCEPT ![i] = NoNode]
  BY <1>2, UnlinkFields
<1> HIDE DEF w, l, k
<1>6. /\ c.q[l] = Without(b.q[l], k) /\ \A x \in LvIds \ {l} : c.q[x] = b.q[x]
      /\ c.node[i] = NoNode /\ \A j \in OrderIds \ {i} : c.node[j] = b.node[j]
  BY <1>1, <1>5, BookFields
<1>7. \A x, y : InFront(Without(b.q[l], k), x, y) <=> InFront(b.q[l], x, y) /\ x # i /\ y # i
  BY <1>2, <1>3, FrontWithout
<1>8. ASSUME NEW j \in OrderIds, j # i, b.node[j] # NoNode
      PROVE  /\ w.side[j] = c.node[j].side /\ w.price[j] = c.node[j].price /\ w.qty[j] = c.node[j].qty
             /\ \A x \in OrderIds : x \in w.ahead[j] <=> InFront(c.q[c.node[j].lv], x, j)
  <2>1. w.side[j] = v.side[j] /\ w.ahead[j] = v.ahead[j] \ {i}
    BY <1>1, <1>4, <1>8 DEF IsView
  <2>2. c.node[j] = b.node[j] /\ b.node[j].lv \in LvIds /\ j \in Resting(b)
    BY <1>6, <1>8, BookFields DEF Node, Resting
  <2>3. \A x \in OrderIds : InFront(c.q[c.node[j].lv], x, j) <=> InFront(b.q[b.node[j].lv], x, j) /\ x # i
    <3>1. CASE b.node[j].lv = l
      BY <1>6, <1>7, <1>8, <2>2, <3>1
    <3>2. CASE b.node[j].lv # l
      <4>1. \A x \in OrderIds : InFront(b.q[b.node[j].lv], x, j) => b.node[x].lv = b.node[j].lv
        BY <2>2, FrontHas, IndexedLists
      <4> QED
        BY <1>1, <1>6, <2>2, <3>2, <4>1, Zenon DEF l
    <3> QED
      BY <3>1, <3>2, Zenon
  <2> QED
    BY <1>4, <1>8, <2>1, <2>2, <2>3 DEF HeapShows
<1>9. ASSUME NEW j \in OrderIds, j = i \/ b.node[j] = NoNode PROVE c.node[j] = NoNode /\ w.side[j] = 0
  BY <1>1, <1>4, <1>6, <1>9 DEF HeapShows, IsView
<1>10. HeapShows(c, w)
  <2>1. \A j \in OrderIds : j # i => c.node[j] = b.node[j]
    BY <1>6
  <2> QED
    BY <1>8, <1>9, <2>1, Zenon DEF HeapShows
<1> QED
  BY <1>10 DEF w

LEMMA HeapReduce ==
  ASSUME NEW b, IsBook(b), Indexed(b), NEW i \in Resting(b), NEW x \in Nat, x < b.node[i].qty,
         NEW c, c = [b EXCEPT !.node[i] = Reduced(@, x)],
         NEW v, IsView(v), HeapShows(b, v)
  PROVE  HeapShows(c, ViewReduce(v, i, x))
<1> DEFINE w == ViewReduce(v, i, x)
<1>1. /\ c.q = b.q /\ Resting(c) = Resting(b) /\ \A j \in OrderIds \ {i} : c.node[j] = b.node[j]
  BY ReducedIndexed
<1>2. i \in OrderIds /\ b.node[i] \in Node /\ b.node[i] # NoNode /\ c.node[i] # NoNode
  BY <1>1, BookFields DEF Resting
<1>3. c.node = [b.node EXCEPT ![i] = Reduced(b.node[i], x)]
  BY DEF IsBook
<1>4. /\ c.node[i].side = b.node[i].side /\ c.node[i].price = b.node[i].price
      /\ c.node[i].lv = b.node[i].lv /\ c.node[i].qty = b.node[i].qty - x
  BY <1>2, <1>3, BookFields DEF Reduced, Node
<1>5. /\ w.side = v.side /\ w.price = v.price /\ w.ahead = v.ahead
      /\ w.qty = [v.qty EXCEPT ![i] = v.qty[i] - x]
  BY DEF ViewReduce
<1> HIDE DEF w
<1>6. v.qty[i] = b.node[i].qty /\ w.qty[i] = v.qty[i] - x /\ \A j \in OrderIds \ {i} : w.qty[j] = v.qty[j]
  BY <1>2, <1>5 DEF IsView, HeapShows
<1>7. HeapShows(c, w)
  <2> SUFFICES ASSUME NEW j \in OrderIds
               PROVE  /\ c.node[j] = NoNode => w.side[j] = 0
                      /\ c.node[j] # NoNode =>
                           /\ w.side[j] = c.node[j].side /\ w.price[j] = c.node[j].price
                           /\ w.qty[j] = c.node[j].qty
                           /\ \A y \in OrderIds : y \in w.ahead[j] <=> InFront(c.q[c.node[j].lv], y, j)
    BY Zenon DEF HeapShows
  <2>1. CASE j = i
    BY <1>1, <1>2, <1>4, <1>5, <1>6, <2>1 DEF HeapShows
  <2>2. CASE j # i
    BY <1>1, <1>5, <1>6, <2>2 DEF HeapShows
  <2> QED
    BY <2>1, <2>2
<1> QED
  BY <1>7 DEF w

\* The prices of a side that have a live level are those of its orders.
LEMMA HeapPrices ==
  ASSUME NEW b, IsBook(b), Indexed(b), Placed(b), NEW v, IsView(v), HeapShows(b, v), NEW s \in Sides, NEW p
  PROVE  p \in LiveInHeap(b, s) <=> \E i \in OrderIds : v.side[i] = s /\ v.price[i] = p
<1>1. ASSUME p \in LiveInHeap(b, s) PROVE \E i \in OrderIds : v.side[i] = s /\ v.price[i] = p
  <2>1. p \in Prices /\ b.lvl[s][p] # NoLv /\ b.q[b.lvl[s][p]] # <<>>
    BY <1>1, BookFields DEF LiveInHeap, Live
  <2>2. b.lvl[s][p] \in LvIds
    BY <2>1, BookFields
  <2>3. PICK i \in Resting(b) : b.node[i].lv = b.lvl[s][p]
    BY <2>1, <2>2, FirstOf
  <2>4. b.node[i].side = s /\ b.node[i].price = p
    BY <2>1, <2>3 DEF Placed
  <2>5. i \in OrderIds /\ b.node[i] # NoNode
    BY <2>3 DEF Resting
  <2> QED
    BY <2>4, <2>5 DEF HeapShows
<1>2. ASSUME NEW i \in OrderIds, v.side[i] = s, v.price[i] = p PROVE p \in LiveInHeap(b, s)
  <2>1. b.node[i] # NoNode
    BY <1>2, SideFacts DEF HeapShows
  <2>2. i \in Resting(b) /\ b.node[i].side = s /\ b.node[i].price = p
    BY <1>2, <2>1 DEF HeapShows, Resting
  <2> QED
    BY <2>2, PlacedIsLive
<1> QED
  BY <1>1, <1>2

LEMMA HeapBest ==
  ASSUME NEW b, IsBook(b), Indexed(b), Placed(b), NEW v, IsView(v), HeapShows(b, v), NEW s \in Sides
  PROVE  /\ LiveInHeap(b, s) # {} => BestAt(v, s, Best(b, s))
         /\ LiveInHeap(b, s) = {} => \A p : ~BestAt(v, s, p)
<1>1. ASSUME LiveInHeap(b, s) # {} PROVE BestAt(v, s, Best(b, s))
  <2>1. Best(b, s) \in LiveInHeap(b, s) /\ \A r \in LiveInHeap(b, s) : AtLeast(s, Best(b, s), r)
    BY <1>1, BestExists
  <2>2. \A j \in OrderIds : v.side[j] = s => v.price[j] \in LiveInHeap(b, s)
    BY HeapPrices
  <2>3. \E i \in OrderIds : v.side[i] = s /\ v.price[i] = Best(b, s)
    BY <2>1, HeapPrices
  <2> QED
    BY <2>1, <2>2, <2>3 DEF BestAt
<1>2. ASSUME LiveInHeap(b, s) = {}, NEW p, BestAt(v, s, p) PROVE FALSE
  <2>1. p \in LiveInHeap(b, s)
    BY <1>2, HeapPrices DEF BestAt
  <2> QED
    BY <2>1, <1>2
<1> QED
  BY <1>1, <1>2

LEMMA HeapCan ==
  ASSUME NEW b, IsBook(b), Indexed(b), Placed(b), NEW v, IsView(v), HeapShows(b, v),
         NEW t \in Order, t.side \in Sides
  PROVE  CanMatch(b, t) <=> CanTrade(v, t)
<1> DEFINE s == Opp(t.side)
<1>1. s \in Sides
  BY SideFacts
<1>2. ASSUME CanMatch(b, t) PROVE CanTrade(v, t)
  <2>1. LiveInHeap(b, s) # {} /\ t.qty > 0 /\ Crosses(t.side, Best(b, s), t.price)
    BY <1>2 DEF CanMatch
  <2>2. BestAt(v, s, Best(b, s))
    BY <1>1, <2>1, HeapBest
  <2>3. Best(b, s) \in Int
    BY <1>1, <2>2, BestAtUnique
  <2> QED
    BY <2>1, <2>2, <2>3 DEF CanTrade
<1>3. ASSUME CanTrade(v, t) PROVE CanMatch(b, t)
  <2>1. PICK p \in Int : BestAt(v, s, p) /\ Crosses(t.side, p, t.price)
    BY <1>3 DEF CanTrade
  <2>2. LiveInHeap(b, s) # {}
    BY <1>1, <2>1, HeapBest
  <2>3. BestAt(v, s, Best(b, s))
    BY <1>1, <2>2, HeapBest
  <2>4. Best(b, s) = p
    BY <1>1, <2>1, <2>3, BestAtUnique
  <2> QED
    BY <1>3, <2>1, <2>2, <2>4 DEF CanMatch, CanTrade
<1> QED
  BY <1>2, <1>3

\* The head of a list has nobody in front.
LEMMA HeadIsFirst ==
  ASSUME NEW S, NEW xs \in Seq(S), Once(xs), 1 \in 1..Len(xs), NEW i
  PROVE  ~InFront(xs, i, xs[1])
<1> SUFFICES ASSUME InFront(xs, i, xs[1]) PROVE FALSE
  OBVIOUS
<1>1. PICK k \in 1..Len(xs), m \in 1..Len(xs) : k < m /\ xs[m] = xs[1]
  BY DEF InFront
<1>2. m = 1
  BY <1>1 DEF Once
<1> QED
  BY <1>1, <1>2, LenProperties

LEMMA HeapTrade ==
  ASSUME NEW b, IsBook(b), Indexed(b), Placed(b), NEW v, IsView(v), HeapShows(b, v),
         NEW t \in Order, t.side \in Sides, CanMatch(b, t)
  PROVE  /\ FirstAt(v, Opp(t.side), Maker(b, t))
         /\ Exec(b, t) = Traded(v, t, Maker(b, t))
         /\ HeapShows(MatchOne(b, t), ViewTrade(v, t, Maker(b, t)))
<1> DEFINE s == Opp(t.side)
           m == Maker(b, t)
           p == Best(b, s)
           x == Exec(b, t)
           l == b.lvl[s][p]
           b1 == PopDead(b, s)
           c == MatchOne(b, t)
<1>1. /\ s \in Sides /\ p \in Prices /\ l \in LvIds /\ p \in LiveInHeap(b, s)
      /\ 1 \in 1..Len(b.q[l]) /\ m = b.q[l][1] /\ m \in Resting(b) /\ b.node[m].lv = l
      /\ b.node[m].qty \in Nat /\ x \in 1..t.qty /\ x <= b.node[m].qty
  BY MakerFacts
<1>2. b.node[m].side = s /\ b.node[m].price = p
  BY MatchOnePlaced
<1>3. x = IF t.qty < b.node[m].qty THEN t.qty ELSE b.node[m].qty
  BY DEF Exec
<1>4. /\ IsBook(b1) /\ Indexed(b1) /\ b1.node = b.node /\ b1.q = b.q /\ Resting(b1) = Resting(b)
  BY <1>1, PopDeadFields, PopDeadIndexed, Zenon
<1>5. \/ x < b.node[m].qty /\ c = [b1 EXCEPT !.node[m] = Reduced(@, x)]
      \/ ~(x < b.node[m].qty) /\ c \in {Unlink(b1, m), [Unlink(b1, m) EXCEPT !.lvl[s][p] = NoLv]}
  BY DEF MatchOne
<1>7. b.q[l] \in Seq(OrderIds) /\ Once(b.q[l])
  BY <1>1, IndexedLists, Zenon
<1>8. BestAt(v, s, p)
  BY <1>1, HeapBest, Zenon
<1> HIDE DEF s, m, p, x, l, b1, c
<1>6. x \in Nat
  BY <1>1
<1>9. m \in OrderIds /\ b.node[m] # NoNode
  BY <1>1 DEF Resting
<1>10. /\ v.side[m] = s /\ v.price[m] = p /\ v.qty[m] = b.node[m].qty
       /\ \A j \in OrderIds : j \in v.ahead[m] <=> InFront(b.q[l], j, m)
  BY <1>1, <1>2, <1>9 DEF HeapShows
<1>11. v.ahead[m] = {}
  <2>1. \A j \in OrderIds : ~InFront(b.q[l], j, m)
    BY <1>1, <1>7, HeadIsFirst
  <2>2. v.ahead[m] \in SUBSET OrderIds
    BY <1>9 DEF IsView
  <2> QED
    BY <1>10, <2>1, <2>2
<1>12. FirstAt(v, s, m)
  BY <1>8, <1>9, <1>10, <1>11 DEF FirstAt
<1>13. x = Traded(v, t, m)
  BY <1>3, <1>10 DEF Traded
<1>14. HeapShows(b1, v)
  BY <1>4, Zenon DEF HeapShows
<1>15. HeapShows(c, ViewTrade(v, t, m))
  <2>1. CASE x < b.node[m].qty /\ c = [b1 EXCEPT !.node[m] = Reduced(@, x)]
    <3>1. HeapShows(c, ViewReduce(v, m, x))
      BY <1>1, <1>4, <1>6, <1>14, <2>1, HeapReduce
    <3> QED
      BY <1>10, <1>13, <2>1, <3>1 DEF ViewTrade
  <2>2. CASE ~(x < b.node[m].qty) /\ c \in {Unlink(b1, m), [Unlink(b1, m) EXCEPT !.lvl[s][p] = NoLv]}
    <3>1. IsBook(Unlink(b1, m)) /\ m \in Resting(b1)
      BY <1>1, <1>4, UnlinkIndexed
    <3>2. c.q = Unlink(b1, m).q /\ c.node = Unlink(b1, m).node
      BY <1>1, <2>2, <3>1, SetLvlFields
    <3>3. HeapShows(c, ViewRemove(v, m))
      BY <1>4, <1>14, <3>1, <3>2, HeapRemove
    <3> QED
      BY <1>10, <1>13, <2>2, <3>3 DEF ViewTrade
  <2> QED
    BY <1>5, <2>1, <2>2
<1> QED
  BY <1>12, <1>13, <1>15 DEF s, m, x, c

LEMMA HeapCancel ==
  ASSUME NEW b, IsBook(b), Indexed(b), NEW i \in Resting(b), NEW seen,
         NEW v, IsView(v), HeapShows(b, v)
  PROVE  HeapShows(Cancel(b, i, seen), ViewRemove(v, i))
<1> DEFINE c == Cancel(b, i, seen)
           u == Unlink(b, i)
           d == CancelDeletesFrom(seen)
           p == b.node[i].price
<1>1. d \in Sides /\ p \in Prices
  BY RestingFields DEF CancelDeletesFrom, Sides
<1>2. c \in {u, [u EXCEPT !.lvl[d][p] = NoLv]}
  BY DEF Cancel
<1>3. IsBook(u)
  BY UnlinkIndexed
<1> HIDE DEF c, u, d, p
<1>4. c.q = u.q /\ c.node = u.node
  BY <1>1, <1>2, <1>3, SetLvlFields
<1> QED
  BY <1>4, HeapRemove DEF u, c

-----------------------------------------------------------------------------
(* The best of a set of prices *)

BestOf(s, T) == {p \in T : \A r \in T : AtLeast(s, p, r)}

LEMMA AtLeastOrder ==
  ASSUME NEW s \in Sides, NEW p \in Prices, NEW q \in Prices
  PROVE  /\ AtLeast(s, p, p) /\ (AtLeast(s, p, q) \/ AtLeast(s, q, p))
         /\ AtLeast(s, p, q) /\ AtLeast(s, q, p) => p = q
         /\ \A r \in Prices : AtLeast(s, p, q) /\ AtLeast(s, q, r) => AtLeast(s, p, r)
<1>1. \A r \in Prices : r \in Int
  BY PricesAssumption
<1> QED
  BY <1>1 DEF AtLeast

\* One more price: the best stays unless the new one is better.
LEMMA BestOfAdd ==
  ASSUME NEW s \in Sides, NEW T \in SUBSET Prices, NEW p \in Prices
  PROVE  /\ (\E r \in BestOf(s, T) : AtLeast(s, r, p)) => BestOf(s, T \cup {p}) = BestOf(s, T)
         /\ (\A r \in BestOf(s, T) : ~AtLeast(s, r, p)) => BestOf(s, T \cup {p}) = {p}
<1> DEFINE N == BestOf(s, T \cup {p})
<1>1. CASE \E r \in BestOf(s, T) : AtLeast(s, r, p)
  <2>1. PICK r \in BestOf(s, T) : AtLeast(s, r, p)
    BY <1>1
  <2>2. r \in T /\ r \in Prices /\ \A y \in T : AtLeast(s, r, y)
    BY <2>1 DEF BestOf
  <2>3. ASSUME NEW x \in BestOf(s, T) PROVE x \in N
    <3>1. x \in T /\ x \in Prices /\ \A y \in T : AtLeast(s, x, y)
      BY <2>3 DEF BestOf
    <3>2. x = r
      BY <2>2, <3>1, AtLeastOrder
    <3> QED
      BY <2>1, <3>1, <3>2 DEF BestOf
  <2>4. ASSUME NEW x \in N PROVE x \in BestOf(s, T)
    <3>1. (x \in T \/ x = p) /\ \A y \in T \cup {p} : AtLeast(s, x, y)
      BY <2>4 DEF BestOf
    <3>2. x = p => x = r
      BY <2>1, <2>2, <3>1, AtLeastOrder
    <3> QED
      BY <2>2, <3>1, <3>2 DEF BestOf
  <2> HIDE DEF N
  <2>5. N = BestOf(s, T)
    BY <2>3, <2>4
  <2> QED
    BY <1>1, <2>5 DEF N
<1>2. CASE ~\E r \in BestOf(s, T) : AtLeast(s, r, p)
  <2>1. \A y \in T : AtLeast(s, p, y)
    <3> SUFFICES ASSUME NEW y \in T PROVE AtLeast(s, p, y)
      OBVIOUS
    <3>1. PICK r \in T : \A z \in T : AtLeast(s, r, z)
      BY BestOfPrices
    <3>2. r \in BestOf(s, T) /\ r \in Prices /\ y \in Prices
      BY <3>1 DEF BestOf
    <3>3. AtLeast(s, p, r)
      BY <1>2, <3>2, AtLeastOrder
    <3> QED
      BY <3>1, <3>2, <3>3, AtLeastOrder
  <2>2. p \in N
    BY <2>1, AtLeastOrder DEF BestOf
  <2>3. ASSUME NEW x \in N PROVE x = p
    <3>1. (x \in T \/ x = p) /\ AtLeast(s, x, p)
      BY <2>3 DEF BestOf
    <3>2. CASE x \in T
      BY <2>1, <3>1, <3>2, AtLeastOrder
    <3> QED
      BY <3>1, <3>2
  <2> HIDE DEF N
  <2>4. N = {p}
    BY <2>2, <2>3
  <2> QED
    BY <1>2, <2>4 DEF N
<1> QED
  BY <1>1, <1>2

\* One price less: the best stays unless it was that one.
LEMMA BestOfLess ==
  ASSUME NEW s \in Sides, NEW T \in SUBSET Prices, NEW p \in T, BestOf(s, T) # {p}
  PROVE  BestOf(s, T \ {p}) = BestOf(s, T)
<1>1. PICK r \in T : \A z \in T : AtLeast(s, r, z)
  BY BestOfPrices
<1>2. r \in BestOf(s, T)
  BY <1>1 DEF BestOf
<1>3. \A x \in BestOf(s, T) : x = r
  BY <1>1, AtLeastOrder DEF BestOf
<1>4. r # p
  BY <1>2, <1>3
<1>5. ASSUME NEW x \in BestOf(s, T) PROVE x \in BestOf(s, T \ {p})
  BY <1>1, <1>3, <1>4 DEF BestOf
<1>6. ASSUME NEW x \in BestOf(s, T \ {p}) PROVE x \in BestOf(s, T)
  <2>1. x \in T /\ x \in Prices /\ r \in Prices /\ AtLeast(s, x, r)
    BY <1>1, <1>4 DEF BestOf
  <2>2. x = r
    BY <1>1, <2>1, AtLeastOrder
  <2> QED
    BY <1>2, <2>2
<1> QED
  BY <1>5, <1>6

LEMMA BestOfOne ==
  ASSUME NEW s \in Sides, NEW T \in SUBSET Prices
  PROVE  /\ \A p, r \in BestOf(s, T) : p = r
         /\ T # {} => BestOf(s, T) # {}
         /\ BestOf(s, T) \subseteq T
<1>1. \A p, r \in BestOf(s, T) : p = r
  BY AtLeastOrder DEF BestOf
<1>2. ASSUME T # {} PROVE BestOf(s, T) # {}
  BY <1>2, BestOfPrices DEF BestOf
<1> QED
  BY <1>1, <1>2 DEF BestOf

-----------------------------------------------------------------------------
(* The level book *)

Listed(b, i) == b.byID[i] # NoNode /\ b.byID[i].in = "list"

IsLevelBook(b) ==
  /\ b.q \in [Sides -> [Prices -> Seq(OrderIds)]]
  /\ b.best \in [Sides -> SUBSET Prices]
  /\ b.byID \in [OrderIds -> LevelNode \cup {NoNode}]
  /\ DOMAIN b = {"q", "best", "byID"}

\* byID and the lists describe the same orders.
Filed(b) ==
  /\ \A i \in OrderIds : Listed(b, i) => Has(b.q[b.byID[i].side][b.byID[i].price], i)
  /\ \A s \in Sides, p \in Prices :
       /\ Once(b.q[s][p])
       /\ \A i \in OrderIds : Has(b.q[s][p], i) =>
            Listed(b, i) /\ b.byID[i].side = s /\ b.byID[i].price = p

\* The cached prices are the best ones, so that the matching loop has nothing to heal.
Cached(b) == \A s \in Sides : b.best[s] = BestOf(s, Levels(b, s))

LevelOK(b) == IsLevelBook(b) /\ Filed(b) /\ Cached(b)

LevelShows(b, v) ==
  \A i \in OrderIds :
    /\ ~Listed(b, i) => v.side[i] = 0
    /\ Listed(b, i) =>
         /\ v.side[i] = b.byID[i].side /\ v.price[i] = b.byID[i].price /\ v.qty[i] = b.byID[i].qty
         /\ \A j \in OrderIds : j \in v.ahead[i] <=> InFront(b.q[b.byID[i].side][b.byID[i].price], j, i)

LEMMA LevelFields ==
  ASSUME NEW b, IsLevelBook(b)
  PROVE  /\ \A s \in Sides, p \in Prices : b.q[s][p] \in Seq(OrderIds)
         /\ \A s \in Sides : b.best[s] \in SUBSET Prices /\ Levels(b, s) \in SUBSET Prices
         /\ \A i \in OrderIds : b.byID[i] # NoNode =>
              /\ b.byID[i] \in LevelNode /\ b.byID[i].side \in Sides /\ b.byID[i].price \in Prices
              /\ b.byID[i].qty \in Nat \ {0} /\ b.byID[i].in \in Places
         /\ \A i \in OrderIds : Listed(b, i) => b.byID[i] # NoNode
BY DEF IsLevelBook, LevelNode, Levels, Listed

\* A list is empty where no order is.
LEMMA HasSome ==
  ASSUME NEW S, NEW xs \in Seq(S)
  PROVE  xs # <<>> <=> \E i \in S : Has(xs, i)
<1>1. ASSUME xs # <<>> PROVE \E i \in S : Has(xs, i)
  <2>1. 1 \in 1..Len(xs)
    BY <1>1, EmptySeq
  <2>2. xs[1] \in S
    BY <2>1, ElementOfSeq
  <2> QED
    BY <2>1, <2>2 DEF Has
<1>2. ASSUME NEW i, Has(xs, i), xs = <<>> PROVE FALSE
  BY <1>2, EmptySeq DEF Has
<1> QED
  BY <1>1, <1>2

\* The prices of a side that have a level are those of its orders.
LEMMA LevelPrices ==
  ASSUME NEW b, LevelOK(b), NEW v, LevelShows(b, v), NEW s \in Sides, NEW p
  PROVE  p \in Levels(b, s) <=> \E i \in OrderIds : v.side[i] = s /\ v.price[i] = p
<1>0. IsLevelBook(b) /\ Filed(b)
  BY DEF LevelOK
<1>1. ASSUME p \in Levels(b, s) PROVE \E i \in OrderIds : v.side[i] = s /\ v.price[i] = p
  <2>1. p \in Prices /\ b.q[s][p] # <<>> /\ b.q[s][p] \in Seq(OrderIds)
    BY <1>0, <1>1, LevelFields DEF Levels
  <2>2. PICK i \in OrderIds : Has(b.q[s][p], i)
    BY <2>1, HasSome
  <2>3. Listed(b, i) /\ b.byID[i].side = s /\ b.byID[i].price = p
    BY <1>0, <2>1, <2>2 DEF Filed
  <2> QED
    BY <2>3 DEF LevelShows
<1>2. ASSUME NEW i \in OrderIds, v.side[i] = s, v.price[i] = p PROVE p \in Levels(b, s)
  <2>1. Listed(b, i)
    BY <1>2, SideFacts DEF LevelShows
  <2>2. b.byID[i].side = s /\ b.byID[i].price = p
    BY <1>2, <2>1 DEF LevelShows
  <2>3. p \in Prices /\ Has(b.q[s][p], i)
    BY <1>0, <2>1, <2>2, LevelFields DEF Filed
  <2>4. b.q[s][p] # <<>>
    BY <1>0, <2>3, LevelFields, HasSome
  <2> QED
    BY <2>3, <2>4 DEF Levels
<1> QED
  BY <1>1, <1>2

LEMMA LevelBest ==
  ASSUME NEW b, LevelOK(b), NEW v, LevelShows(b, v), NEW s \in Sides, NEW p
  PROVE  p \in b.best[s] <=> BestAt(v, s, p)
<1>1. b.best[s] = BestOf(s, Levels(b, s))
  BY DEF LevelOK, Cached
<1>2. \A r : r \in Levels(b, s) <=> \E i \in OrderIds : v.side[i] = s /\ v.price[i] = r
  BY LevelPrices
<1> QED
  BY <1>1, <1>2 DEF BestOf, BestAt

\* The loop never finds a cached price without a level.
LEMMA NothingToHeal ==
  ASSUME NEW b, LevelOK(b), NEW t, t.side \in Sides
  PROVE  Healed(b, t) = b
<1>1. Opp(t.side) \in Sides
  BY SideFacts
<1>2. b.best[Opp(t.side)] \subseteq Levels(b, Opp(t.side))
  BY <1>1 DEF LevelOK, Cached, BestOf
<1> QED
  BY <1>2 DEF Healed

LEMMA LevelCanTrade ==
  ASSUME NEW b, LevelOK(b), NEW v, IsView(v), LevelShows(b, v), NEW t \in Order, t.side \in Sides
  PROVE  LevelCanMatch(b, t) <=> CanTrade(v, t)
<1>1. Opp(t.side) \in Sides
  BY SideFacts
<1>2. LevelCanMatch(b, t) <=> Looks(b, t)
  BY NothingToHeal DEF LevelCanMatch
<1>3. \A p : p \in b.best[Opp(t.side)] <=> BestAt(v, Opp(t.side), p)
  BY <1>1, LevelBest
<1>4. \A p : BestAt(v, Opp(t.side), p) => p \in Int
  BY <1>1, BestAtUnique
<1> QED
  BY <1>2, <1>3, <1>4 DEF Looks, CanTrade

LEMMA LevelAddNew ==
  ASSUME NEW b, LevelOK(b), NEW v, IsView(v), LevelShows(b, v),
         NEW o \in Order, o.side \in Sides, o.qty > 0, b.byID[o.id] = NoNode
  PROVE  LevelOK(LevelAdd(b, o)) /\ LevelShows(LevelAdd(b, o), ViewAdd(v, o)) /\ v.side[o.id] = 0
<1> DEFINE c == LevelAdd(b, o)
           w == ViewAdd(v, o)
           id == o.id
           s == o.side
           p == o.price
           a == Append(b.q[s][p], id)
           n == [side |-> s, price |-> p, qty |-> o.qty, in |-> "list"]
           t == IF \E r \in b.best[s] : AtLeast(s, r, p) THEN b.best[s] ELSE {p}
<1>0. id \in OrderIds /\ s \in Sides /\ p \in Prices /\ o.qty \in Nat \ {0} /\ b.byID[id] = NoNode
  BY BoundAssumption DEF Order
<1>1. IsLevelBook(b) /\ Filed(b) /\ Cached(b)
  BY DEF LevelOK
<1>2. n \in LevelNode /\ n # NoNode /\ n.side = s /\ n.price = p /\ n.qty = o.qty /\ n.in = "list"
  <2>1. n \in LevelNode
    BY <1>0 DEF LevelNode, Places
  <2> QED
    BY <2>1, NilsAssumption
<1>3. b.q[s][p] \in Seq(OrderIds) /\ a \in Seq(OrderIds)
  BY <1>0, <1>1, LevelFields, AppendProperties
<1>4. t \in SUBSET Prices
  BY <1>0, <1>1, LevelFields
<1>5. c = [b EXCEPT !.q[s][p] = a, !.byID[id] = n, !.best[s] = t]
  BY <1>0 DEF LevelAdd, Known
<1>6. /\ w.side = [v.side EXCEPT ![id] = s] /\ w.price = [v.price EXCEPT ![id] = p]
      /\ w.qty = [v.qty EXCEPT ![id] = o.qty] /\ w.ahead = [v.ahead EXCEPT ![id] = At(v, s, p)]
  BY DEF ViewAdd
<1>7. /\ Has(a, id) /\ a # <<>> /\ \A i : Has(a, i) <=> Has(b.q[s][p], i) \/ i = id
      /\ \A i, j : InFront(a, i, j) <=> InFront(b.q[s][p], i, j) \/ (j = id /\ Has(b.q[s][p], i))
      /\ Once(b.q[s][p]) /\ ~Has(b.q[s][p], id) => Once(a)
  <2> DEFINE xs == b.q[s][p]
  <2>1. xs \in Seq(OrderIds) /\ id \in OrderIds /\ a = Append(xs, id)
    BY <1>0, <1>3
  <2> HIDE DEF xs, id, a
  <2>2. /\ Has(a, id) /\ a # <<>> /\ \A i : Has(a, i) <=> Has(xs, i) \/ i = id
        /\ \A i, j : InFront(a, i, j) <=> InFront(xs, i, j) \/ (j = id /\ Has(xs, i))
        /\ Once(xs) /\ ~Has(xs, id) => Once(a)
    BY <2>1, FrontAppend
  <2> QED
    BY <2>2 DEF xs
<1>8. ~Listed(b, id)
  BY <1>0 DEF Listed
<1>9. v.side[id] = 0
  BY <1>0, <1>8 DEF LevelShows
<1>10. t = BestOf(s, Levels(b, s) \cup {p})
  <2>1. b.best[s] = BestOf(s, Levels(b, s)) /\ Levels(b, s) \in SUBSET Prices
    BY <1>0, <1>1, LevelFields DEF Cached
  <2>2. CASE \E r \in b.best[s] : AtLeast(s, r, p)
    <3>1. t = b.best[s]
      BY <2>2
    <3>2. BestOf(s, Levels(b, s) \cup {p}) = BestOf(s, Levels(b, s))
      BY <1>0, <2>1, <2>2, BestOfAdd
    <3> QED
      BY <2>1, <3>1, <3>2
  <2>3. CASE \A r \in b.best[s] : ~AtLeast(s, r, p)
    <3>1. t = {p}
      BY <2>3
    <3>2. BestOf(s, Levels(b, s) \cup {p}) = {p}
      BY <1>0, <2>1, <2>3, BestOfAdd
    <3> QED
      BY <3>1, <3>2
  <2> QED
    BY <2>2, <2>3
<1> HIDE DEF c, w, a, n, t, s, p, id
<1>11. /\ IsLevelBook(c) /\ c.q = [b.q EXCEPT ![s][p] = a]
       /\ c.byID = [b.byID EXCEPT ![id] = n] /\ c.best = [b.best EXCEPT ![s] = t]
  BY <1>0, <1>1, <1>2, <1>3, <1>4, <1>5 DEF IsLevelBook
<1>12. /\ c.q[s][p] = a
       /\ \A x \in Sides, y \in Prices : x # s \/ y # p => c.q[x][y] = b.q[x][y]
       /\ c.byID[id] = n /\ \A i \in OrderIds \ {id} : c.byID[i] = b.byID[i]
       /\ c.best[s] = t /\ \A x \in Sides \ {s} : c.best[x] = b.best[x]
  BY <1>0, <1>1, <1>11 DEF IsLevelBook
<1>13. Listed(c, id) /\ \A i \in OrderIds \ {id} : Listed(c, i) <=> Listed(b, i)
  BY <1>2, <1>12 DEF Listed
<1>14. \A i \in OrderIds, x \in Sides, y \in Prices : Has(b.q[x][y], i) =>
         Listed(b, i) /\ i # id /\ b.byID[i].side = x /\ b.byID[i].price = y
  BY <1>1, <1>8 DEF Filed
<1>15. Filed(c)
  <2>1. ASSUME NEW i \in OrderIds, Listed(c, i) PROVE Has(c.q[c.byID[i].side][c.byID[i].price], i)
    <3>1. CASE i = id
      BY <1>2, <1>7, <1>12, <3>1
    <3>2. CASE i # id
      <4>1. /\ c.byID[i] = b.byID[i] /\ Listed(b, i) /\ Has(b.q[b.byID[i].side][b.byID[i].price], i)
            /\ b.byID[i].side \in Sides /\ b.byID[i].price \in Prices
        BY <1>1, <1>12, <1>13, <2>1, <3>2, LevelFields DEF Filed
      <4>2. CASE b.byID[i].side = s /\ b.byID[i].price = p
        BY <1>7, <1>12, <4>1, <4>2
      <4>3. CASE b.byID[i].side # s \/ b.byID[i].price # p
        BY <1>12, <4>1, <4>3
      <4> QED
        BY <4>2, <4>3
    <3> QED
      BY <3>1, <3>2
  <2>2. ASSUME NEW x \in Sides, NEW y \in Prices
        PROVE  /\ Once(c.q[x][y])
               /\ \A i \in OrderIds : Has(c.q[x][y], i) =>
                    Listed(c, i) /\ c.byID[i].side = x /\ c.byID[i].price = y
    <3>1. CASE x = s /\ y = p
      <4>1. Once(a)
        BY <1>0, <1>1, <1>7, <1>14 DEF Filed
      <4>2. \A i \in OrderIds : Has(a, i) => Listed(c, i) /\ c.byID[i].side = s /\ c.byID[i].price = p
        BY <1>0, <1>2, <1>7, <1>12, <1>13, <1>14
      <4> QED
        BY <1>12, <3>1, <4>1, <4>2
    <3>2. CASE x # s \/ y # p
      <4>1. c.q[x][y] = b.q[x][y]
        BY <1>12, <3>2
      <4>2. Once(b.q[x][y])
        BY <1>1 DEF Filed
      <4> QED
        BY <1>12, <1>13, <1>14, <4>1, <4>2
    <3> QED
      BY <3>1, <3>2
  <2> QED
    BY <2>1, <2>2 DEF Filed
<1>16. Cached(c)
  <2>1. Levels(c, s) = Levels(b, s) \cup {p}
    <3>1. \A y \in Prices : c.q[s][y] # <<>> <=> b.q[s][y] # <<>> \/ y = p
      BY <1>0, <1>7, <1>12
    <3> QED
      BY <1>0, <3>1 DEF Levels
  <2>2. ASSUME NEW x \in Sides, x # s PROVE Levels(c, x) = Levels(b, x)
    <3>1. \A y \in Prices : c.q[x][y] = b.q[x][y]
      BY <1>12, <2>2
    <3> QED
      BY <3>1 DEF Levels
  <2> QED
    BY <1>1, <1>10, <1>12, <2>1, <2>2 DEF Cached
<1>17. \A i \in OrderIds : Has(b.q[s][p], i) <=> i \in At(v, s, p)
  <2> SUFFICES ASSUME NEW i \in OrderIds PROVE Has(b.q[s][p], i) <=> i \in At(v, s, p)
    OBVIOUS
  <2>1. i \in At(v, s, p) <=> Listed(b, i) /\ b.byID[i].side = s /\ b.byID[i].price = p
    <3>1. s # 0
      BY <1>0, SideFacts
    <3> QED
      BY <3>1 DEF At, LevelShows
  <2>2. Listed(b, i) => Has(b.q[b.byID[i].side][b.byID[i].price], i)
    BY <1>1 DEF Filed
  <2> QED
    BY <1>0, <1>14, <2>1, <2>2
<1>18. ASSUME NEW i \in OrderIds
       PROVE  /\ ~Listed(c, i) => w.side[i] = 0
              /\ Listed(c, i) =>
                   /\ w.side[i] = c.byID[i].side /\ w.price[i] = c.byID[i].price /\ w.qty[i] = c.byID[i].qty
                   /\ \A j \in OrderIds : j \in w.ahead[i] <=> InFront(c.q[c.byID[i].side][c.byID[i].price], j, i)
  <2>1. CASE i = id
    <3>1. w.side[id] = s /\ w.price[id] = p /\ w.qty[id] = o.qty /\ w.ahead[id] = At(v, s, p)
      BY <1>0, <1>6 DEF IsView
    <3>2. \A j \in OrderIds : InFront(a, j, id) <=> Has(b.q[s][p], j)
      <4>1. ~Has(b.q[s][p], id)
        BY <1>0, <1>14
      <4> QED
        BY <1>7, <4>1, FrontHas
    <3>3. c.q[c.byID[id].side][c.byID[id].price] = a
      BY <1>2, <1>12
    <3> QED
      BY <1>2, <1>12, <1>13, <1>17, <2>1, <3>1, <3>2, <3>3
  <2>2. CASE i # id
    <3>1. w.side[i] = v.side[i] /\ w.price[i] = v.price[i] /\ w.qty[i] = v.qty[i] /\ w.ahead[i] = v.ahead[i]
      BY <1>0, <1>6, <2>2 DEF IsView
    <3>2. c.byID[i] = b.byID[i] /\ (Listed(c, i) <=> Listed(b, i))
      BY <1>12, <1>13, <2>2
    <3>3. ASSUME Listed(b, i), NEW j \in OrderIds
          PROVE  InFront(c.q[c.byID[i].side][c.byID[i].price], j, i) <=> InFront(b.q[b.byID[i].side][b.byID[i].price], j, i)
      <4>1. b.byID[i].side \in Sides /\ b.byID[i].price \in Prices
        BY <1>1, <3>3, LevelFields
      <4>2. CASE b.byID[i].side = s /\ b.byID[i].price = p
        <5>1. c.q[c.byID[i].side][c.byID[i].price] = a /\ b.q[b.byID[i].side][b.byID[i].price] = b.q[s][p]
          BY <1>12, <3>2, <4>2
        <5> QED
          BY <1>7, <2>2, <5>1
      <4>3. CASE b.byID[i].side # s \/ b.byID[i].price # p
        BY <1>12, <3>2, <4>1, <4>3
      <4> QED
        BY <4>2, <4>3
    <3> QED
      BY <3>1, <3>2, <3>3 DEF LevelShows
  <2> QED
    BY <2>1, <2>2
<1>19. LevelOK(c) /\ LevelShows(c, w)
  BY <1>11, <1>15, <1>16, <1>18 DEF LevelOK, LevelShows
<1> QED
  BY <1>9, <1>19 DEF c, w, id

\* c is b without listed order i; nodes that are not in a list may have changed.
Drops(b, c, i) ==
  LET s == b.byID[i].side
      p == b.byID[i].price
  IN  /\ IsLevelBook(c)
      /\ c.q = [b.q EXCEPT ![s][p] = Without(b.q[s][p], PosOf(b.q[s][p], i))]
      /\ ~Listed(c, i)
      /\ \A j \in OrderIds \ {i} : /\ Listed(c, j) <=> Listed(b, j)
                                   /\ Listed(b, j) => c.byID[j] = b.byID[j]

LEMMA PosOfListed ==
  ASSUME NEW xs, NEW i, Has(xs, i)
  PROVE  PosOf(xs, i) \in 1..Len(xs) /\ xs[PosOf(xs, i)] = i
BY DEF PosOf, Has

\* The list of a listed order, without it.
LEMMA DroppedList ==
  ASSUME NEW b, LevelOK(b), NEW i \in OrderIds, Listed(b, i)
  PROVE  LET s == b.byID[i].side
             p == b.byID[i].price
             r == Without(b.q[s][p], PosOf(b.q[s][p], i))
         IN  /\ s \in Sides /\ p \in Prices /\ r \in Seq(OrderIds) /\ Once(r)
             /\ b.q[s][p] # <<>>
             /\ \A j : Has(r, j) <=> Has(b.q[s][p], j) /\ j # i
             /\ \A j, k : InFront(r, j, k) <=> InFront(b.q[s][p], j, k) /\ j # i /\ k # i
<1> DEFINE s == b.byID[i].side
           p == b.byID[i].price
           k == PosOf(b.q[s][p], i)
<1>1. s \in Sides /\ p \in Prices /\ Has(b.q[s][p], i) /\ b.q[s][p] \in Seq(OrderIds) /\ Once(b.q[s][p])
  BY LevelFields DEF LevelOK, Filed
<1>2. k \in 1..Len(b.q[s][p]) /\ b.q[s][p][k] = i
  BY <1>1, PosOfListed, Zenon
<1>3. b.q[s][p] # <<>>
  BY <1>1, HasSome
<1> HIDE DEF s, p, k
<1>4. /\ Without(b.q[s][p], k) \in Seq(OrderIds) /\ Once(Without(b.q[s][p], k))
      /\ \A j : Has(Without(b.q[s][p], k), j) <=> Has(b.q[s][p], j) /\ j # i
      /\ \A x, y : InFront(Without(b.q[s][p], k), x, y) <=> InFront(b.q[s][p], x, y) /\ x # i /\ y # i
  BY <1>1, <1>2, FrontWithout
<1> QED
  BY <1>1, <1>3, <1>4, Zenon DEF s, p, k

LEMMA DropsShows ==
  ASSUME NEW b, LevelOK(b), NEW v, IsView(v), LevelShows(b, v), NEW i \in OrderIds, Listed(b, i),
         NEW c, Drops(b, c, i)
  PROVE  Filed(c) /\ LevelShows(c, ViewRemove(v, i))
<1> DEFINE s == b.byID[i].side
           p == b.byID[i].price
           r == Without(b.q[s][p], PosOf(b.q[s][p], i))
           w == ViewRemove(v, i)
<1>0. IsLevelBook(b) /\ Filed(b)
  BY DEF LevelOK
<1>1. /\ s \in Sides /\ p \in Prices /\ Once(r)
      /\ \A j : Has(r, j) <=> Has(b.q[s][p], j) /\ j # i
      /\ \A j, k : InFront(r, j, k) <=> InFront(b.q[s][p], j, k) /\ j # i /\ k # i
  BY DroppedList
<1>2. /\ IsLevelBook(c) /\ c.q = [b.q EXCEPT ![s][p] = r] /\ ~Listed(c, i)
      /\ \A j \in OrderIds \ {i} : /\ Listed(c, j) <=> Listed(b, j)
                                   /\ Listed(b, j) => c.byID[j] = b.byID[j]
  BY DEF Drops
<1>3. /\ w.side = [v.side EXCEPT ![i] = 0] /\ w.price = v.price /\ w.qty = v.qty
      /\ w.ahead = [j \in OrderIds |-> v.ahead[j] \ {i}]
  BY DEF ViewRemove
<1>4. \A j \in OrderIds, x \in Sides, y \in Prices : Has(b.q[x][y], j) =>
        Listed(b, j) /\ b.byID[j].side = x /\ b.byID[j].price = y
  BY <1>0 DEF Filed
<1>5. i \in OrderIds /\ b.byID[i].side = s /\ b.byID[i].price = p
  OBVIOUS
<1> HIDE DEF s, p, r, w
<1>6. c.q[s][p] = r /\ \A x \in Sides, y \in Prices : x # s \/ y # p => c.q[x][y] = b.q[x][y]
  BY <1>0, <1>1, <1>2 DEF IsLevelBook
<1>7. ASSUME NEW j \in OrderIds, Listed(c, j)
      PROVE  /\ j # i /\ Listed(b, j) /\ c.byID[j] = b.byID[j]
             /\ b.byID[j].side \in Sides /\ b.byID[j].price \in Prices
             /\ Has(c.q[c.byID[j].side][c.byID[j].price], j)
             /\ \A x \in OrderIds : InFront(c.q[c.byID[j].side][c.byID[j].price], x, j) <=>
                                      InFront(b.q[b.byID[j].side][b.byID[j].price], x, j) /\ x # i
  <2>1. j # i /\ Listed(b, j) /\ c.byID[j] = b.byID[j]
    BY <1>2, <1>7
  <2>2. b.byID[j].side \in Sides /\ b.byID[j].price \in Prices /\ Has(b.q[b.byID[j].side][b.byID[j].price], j)
    BY <1>0, <2>1, LevelFields DEF Filed
  <2>3. CASE b.byID[j].side = s /\ b.byID[j].price = p
    <3>1. c.q[c.byID[j].side][c.byID[j].price] = r /\ b.q[b.byID[j].side][b.byID[j].price] = b.q[s][p]
      BY <1>6, <2>1, <2>3
    <3>2. Has(r, j)
      BY <1>1, <2>1, <2>2, <3>1
    <3> QED
      BY <1>1, <2>1, <2>2, <3>1, <3>2
  <2>4. CASE b.byID[j].side # s \/ b.byID[j].price # p
    <3>1. c.q[c.byID[j].side][c.byID[j].price] = b.q[b.byID[j].side][b.byID[j].price]
      BY <1>6, <2>1, <2>2, <2>4
    <3>2. \A x \in OrderIds : InFront(b.q[b.byID[j].side][b.byID[j].price], x, j) => x # i
      <4>1. ~Has(b.q[b.byID[j].side][b.byID[j].price], i)
        BY <1>4, <1>5, <2>2, <2>4
      <4> QED
        BY <4>1, FrontHas
    <3> QED
      BY <2>1, <2>2, <3>1, <3>2, Zenon
  <2> QED
    BY <2>3, <2>4
<1>8. Filed(c)
  <2>1. ASSUME NEW x \in Sides, NEW y \in Prices
        PROVE  /\ Once(c.q[x][y])
               /\ \A j \in OrderIds : Has(c.q[x][y], j) =>
                    Listed(c, j) /\ c.byID[j].side = x /\ c.byID[j].price = y
    <3>1. Once(c.q[x][y])
      <4>1. Once(b.q[x][y])
        BY <1>0 DEF Filed
      <4>2. CASE x = s /\ y = p
        BY <1>1, <1>6, <4>2
      <4>3. CASE x # s \/ y # p
        BY <1>6, <4>1, <4>3
      <4> QED
        BY <4>2, <4>3
    <3>2. \A j \in OrderIds : Has(c.q[x][y], j) => Has(b.q[x][y], j) /\ j # i
      <4>1. CASE x = s /\ y = p
        BY <1>1, <1>6, <4>1
      <4>2. CASE x # s \/ y # p
        <5>1. c.q[x][y] = b.q[x][y] /\ ~Has(b.q[x][y], i)
          BY <1>4, <1>5, <1>6, <4>2
        <5> QED
          BY <5>1
      <4> QED
        BY <4>1, <4>2
    <3> QED
      BY <1>2, <1>4, <3>1, <3>2
  <2> QED
    BY <1>7, <2>1 DEF Filed
<1>9. LevelShows(c, w)
  <2> SUFFICES ASSUME NEW j \in OrderIds
               PROVE  /\ ~Listed(c, j) => w.side[j] = 0
                      /\ Listed(c, j) =>
                           /\ w.side[j] = c.byID[j].side /\ w.price[j] = c.byID[j].price
                           /\ w.qty[j] = c.byID[j].qty
                           /\ \A x \in OrderIds : x \in w.ahead[j] <=> InFront(c.q[c.byID[j].side][c.byID[j].price], x, j)
    BY DEF LevelShows
  <2>1. ASSUME ~Listed(c, j) PROVE w.side[j] = 0
    <3>1. j = i \/ v.side[j] = 0
      BY <1>2, <2>1 DEF LevelShows
    <3> QED
      BY <1>3, <3>1 DEF IsView
  <2>2. ASSUME Listed(c, j)
        PROVE  /\ w.side[j] = c.byID[j].side /\ w.price[j] = c.byID[j].price
               /\ w.qty[j] = c.byID[j].qty
               /\ \A x \in OrderIds : x \in w.ahead[j] <=> InFront(c.q[c.byID[j].side][c.byID[j].price], x, j)
    <3>1. /\ j # i /\ Listed(b, j) /\ c.byID[j] = b.byID[j]
          /\ \A x \in OrderIds : InFront(c.q[c.byID[j].side][c.byID[j].price], x, j) <=>
                                   InFront(b.q[b.byID[j].side][b.byID[j].price], x, j) /\ x # i
      BY <1>7, <2>2
    <3>2. w.side[j] = v.side[j] /\ w.ahead[j] = v.ahead[j] \ {i}
      BY <1>3, <3>1 DEF IsView
    <3>3. /\ v.side[j] = b.byID[j].side /\ v.price[j] = b.byID[j].price /\ v.qty[j] = b.byID[j].qty
          /\ \A x \in OrderIds : x \in v.ahead[j] <=> InFront(b.q[b.byID[j].side][b.byID[j].price], x, j)
      BY <3>1 DEF LevelShows
    <3> QED
      BY <1>3, <3>1, <3>2, <3>3
  <2> QED
    BY <2>1, <2>2
<1> QED
  BY <1>8, <1>9 DEF w

\* lv.remove: the list loses i, and nodes that are in no list may lose their level.
LEMMA UnlinkedFields ==
  ASSUME NEW b, LevelOK(b), NEW i \in OrderIds, Listed(b, i)
  PROVE  LET s == b.byID[i].side
             p == b.byID[i].price
             c == Unlinked(b, i)
         IN  /\ IsLevelBook(c) /\ c.best = b.best
             /\ c.q = [b.q EXCEPT ![s][p] = Without(b.q[s][p], PosOf(b.q[s][p], i))]
             /\ \A j \in OrderIds : /\ Listed(c, j) <=> Listed(b, j)
                                    /\ Listed(b, j) => c.byID[j] = b.byID[j]
                                    /\ c.byID[j] = NoNode <=> b.byID[j] = NoNode
<1> DEFINE s == b.byID[i].side
           p == b.byID[i].price
           r == Without(b.q[s][p], PosOf(b.q[s][p], i))
           old(j) == /\ r = <<>> /\ b.byID[j] # NoNode /\ b.byID[j].in = "out"
                     /\ b.byID[j].side = s /\ b.byID[j].price = p
           B == [j \in OrderIds |-> IF old(j) THEN [b.byID[j] EXCEPT !.in = "gone"] ELSE b.byID[j]]
           c == Unlinked(b, i)
<1>0. IsLevelBook(b)
  BY DEF LevelOK
<1>1. s \in Sides /\ p \in Prices /\ r \in Seq(OrderIds)
  BY DroppedList
<1>2. c = [b EXCEPT !.q[s][p] = r, !.byID = B]
  BY DEF Unlinked
<1>3. ASSUME NEW j \in OrderIds
      PROVE  /\ B[j] \in LevelNode \cup {NoNode} /\ (B[j] = NoNode <=> b.byID[j] = NoNode)
             /\ (b.byID[j] # NoNode /\ b.byID[j].in = "list") <=> (B[j] # NoNode /\ B[j].in = "list")
             /\ b.byID[j] # NoNode /\ b.byID[j].in = "list" => B[j] = b.byID[j]
  <2>0. b.byID[j] \in LevelNode \cup {NoNode}
    BY <1>0 DEF IsLevelBook
  <2>1. CASE old(j)
    <3>1. B[j] = [b.byID[j] EXCEPT !.in = "gone"] /\ b.byID[j] # NoNode /\ b.byID[j].in = "out"
      BY <2>1
    <3>2. b.byID[j] \in LevelNode
      BY <2>0, <3>1
    <3>3. [b.byID[j] EXCEPT !.in = "gone"] \in LevelNode /\ [b.byID[j] EXCEPT !.in = "gone"].in = "gone"
      BY <3>2 DEF LevelNode, Places
    <3>4. B[j] # NoNode /\ B[j].in = "gone"
      BY <3>1, <3>3, NilsAssumption
    <3> HIDE DEF B
    <3> QED
      BY <3>1, <3>3, <3>4
  <2>2. CASE ~old(j)
    <3>1. B[j] = b.byID[j]
      BY <2>2
    <3> HIDE DEF B, old
    <3> QED
      BY <2>0, <3>1
  <2> QED
    BY <2>1, <2>2, Zenon
<1>4. B \in [OrderIds -> LevelNode \cup {NoNode}]
  <2>1. DOMAIN B = OrderIds /\ B = [j \in OrderIds |-> B[j]]
    OBVIOUS
  <2> HIDE DEF B
  <2> QED
    BY <1>3, <2>1
<1> HIDE DEF B, r, s, p, c, old
<1>5. IsLevelBook(c) /\ c.best = b.best /\ c.q = [b.q EXCEPT ![s][p] = r] /\ c.byID = B
  BY <1>0, <1>1, <1>2, <1>4 DEF IsLevelBook
<1>6. \A j \in OrderIds : /\ Listed(c, j) <=> Listed(b, j)
                          /\ Listed(b, j) => c.byID[j] = b.byID[j]
                          /\ c.byID[j] = NoNode <=> b.byID[j] = NoNode
  BY <1>3, <1>5, Zenon DEF Listed
<1> QED
  BY <1>5, <1>6 DEF r, s, p, c

LEMMA DropsLevels ==
  ASSUME NEW b, LevelOK(b), NEW i \in OrderIds, Listed(b, i), NEW c, Drops(b, c, i)
  PROVE  LET s == b.byID[i].side
             p == b.byID[i].price
         IN  /\ p \in Levels(b, s) /\ c.q[s][p] = Without(b.q[s][p], PosOf(b.q[s][p], i))
             /\ \A x \in Sides \ {s} : Levels(c, x) = Levels(b, x)
             /\ c.q[s][p] # <<>> => Levels(c, s) = Levels(b, s)
             /\ c.q[s][p] = <<>> => Levels(c, s) = Levels(b, s) \ {p}
<1> DEFINE s == b.byID[i].side
           p == b.byID[i].price
           r == Without(b.q[s][p], PosOf(b.q[s][p], i))
<1>1. s \in Sides /\ p \in Prices /\ b.q[s][p] # <<>>
  BY DroppedList
<1>2. c.q = [b.q EXCEPT ![s][p] = r]
  BY DEF Drops
<1>3. b.q \in [Sides -> [Prices -> Seq(OrderIds)]]
  BY DEF LevelOK, IsLevelBook
<1> HIDE DEF s, p, r
<1>4. c.q[s][p] = r /\ \A x \in Sides, y \in Prices : x # s \/ y # p => c.q[x][y] = b.q[x][y]
  BY <1>1, <1>2, <1>3
<1>5. \A x \in Sides \ {s} : Levels(c, x) = Levels(b, x)
  <2> SUFFICES ASSUME NEW x \in Sides \ {s} PROVE Levels(c, x) = Levels(b, x)
    OBVIOUS
  <2>1. \A y \in Prices : c.q[x][y] = b.q[x][y]
    BY <1>4
  <2> QED
    BY <2>1 DEF Levels
<1>6. p \in Levels(b, s)
  BY <1>1 DEF Levels
<1>7. ASSUME c.q[s][p] # <<>> PROVE Levels(c, s) = Levels(b, s)
  <2>1. \A y \in Prices : c.q[s][y] # <<>> <=> b.q[s][y] # <<>>
    BY <1>1, <1>4, <1>7
  <2> QED
    BY <2>1 DEF Levels
<1>8. ASSUME c.q[s][p] = <<>> PROVE Levels(c, s) = Levels(b, s) \ {p}
  <2>1. \A y \in Prices : c.q[s][y] # <<>> <=> b.q[s][y] # <<>> /\ y # p
    BY <1>1, <1>4, <1>8
  <2> QED
    BY <2>1 DEF Levels
<1> QED
  BY <1>4, <1>5, <1>6, <1>7, <1>8 DEF s, p, r

LEMMA RecomputeFields ==
  ASSUME NEW b, IsLevelBook(b), NEW s \in Sides
  PROVE  /\ IsLevelBook(Recompute(b, s)) /\ Recompute(b, s).q = b.q /\ Recompute(b, s).byID = b.byID
         /\ Recompute(b, s).best[s] = BestOf(s, Levels(b, s))
         /\ \A x \in Sides \ {s} : Recompute(b, s).best[x] = b.best[x]
<1> DEFINE t == BestOf(s, Levels(b, s))
           c == [b EXCEPT !.best[s] = t]
<1>1. Recompute(b, s) = c
  BY DEF Recompute, BestOf
<1>2. t \in SUBSET Prices
  BY LevelFields DEF BestOf
<1> HIDE DEF t
<1>3. IsLevelBook(c) /\ c.q = b.q /\ c.byID = b.byID /\ c.best = [b.best EXCEPT ![s] = t]
  BY <1>2 DEF IsLevelBook
<1>4. c.best[s] = t /\ \A x \in Sides \ {s} : c.best[x] = b.best[x]
  BY <1>3 DEF IsLevelBook
<1> QED
  BY <1>1, <1>3, <1>4 DEF t

\* Taking out a listed order, with the best price looked up again where it may have gone.
LEMMA LevelRemove ==
  ASSUME NEW b, LevelOK(b), NEW v, IsView(v), LevelShows(b, v), NEW i \in OrderIds, Listed(b, i),
         NEW d, Drops(b, d, i), d.best = b.best,
         NEW c, c = d \/ c = Recompute(d, b.byID[i].side),
         d.q[b.byID[i].side][b.byID[i].price] = <<>> /\ b.best[b.byID[i].side] = {b.byID[i].price} =>
           c = Recompute(d, b.byID[i].side)
  PROVE  LevelOK(c) /\ LevelShows(c, ViewRemove(v, i))
<1> DEFINE s == b.byID[i].side
           p == b.byID[i].price
<1>1. s \in Sides /\ p \in Prices
  BY DroppedList
<1>2. /\ p \in Levels(b, s)
      /\ \A x \in Sides \ {s} : Levels(d, x) = Levels(b, x)
      /\ d.q[s][p] # <<>> => Levels(d, s) = Levels(b, s)
      /\ d.q[s][p] = <<>> => Levels(d, s) = Levels(b, s) \ {p}
  BY DropsLevels
<1>3. IsLevelBook(d)
  BY DEF Drops
<1>4. c = d \/ c = Recompute(d, s)
  OBVIOUS
<1>5. d.q[s][p] = <<>> /\ b.best[s] = {p} => c = Recompute(d, s)
  OBVIOUS
<1>6. IsLevelBook(c) /\ c.q = d.q /\ c.byID = d.byID
  BY <1>1, <1>3, <1>4, RecomputeFields
<1>7. Filed(d) /\ LevelShows(d, ViewRemove(v, i))
  BY DropsShows
<1>8. Filed(c) /\ LevelShows(c, ViewRemove(v, i))
  <2>1. \A j : Listed(c, j) <=> Listed(d, j)
    BY <1>6 DEF Listed
  <2> QED
    BY <1>6, <1>7, <2>1 DEF Filed, LevelShows
<1>9. \A x : Levels(c, x) = Levels(d, x)
  BY <1>6 DEF Levels
<1>10. /\ \A x \in Sides : b.best[x] = BestOf(x, Levels(b, x))
       /\ Levels(b, s) \in SUBSET Prices
  BY <1>1, LevelFields DEF LevelOK, Cached
<1> HIDE DEF s, p
<1>11. \A x \in Sides \ {s} : c.best[x] = BestOf(x, Levels(c, x))
  <2> SUFFICES ASSUME NEW x \in Sides \ {s} PROVE c.best[x] = BestOf(x, Levels(c, x))
    OBVIOUS
  <2>1. c.best[x] = b.best[x]
    BY <1>1, <1>3, <1>4, RecomputeFields
  <2> QED
    BY <1>2, <1>9, <1>10, <2>1
<1>12. c.best[s] = BestOf(s, Levels(c, s))
  <2>1. CASE c = Recompute(d, s)
    BY <1>1, <1>3, <1>9, <2>1, RecomputeFields
  <2>2. CASE c = d /\ d.q[s][p] # <<>>
    BY <1>1, <1>2, <1>9, <1>10, <2>2
  <2>3. CASE c = d /\ d.q[s][p] = <<>> /\ b.best[s] # {p}
    <3>1. BestOf(s, Levels(b, s) \ {p}) = BestOf(s, Levels(b, s))
      BY <1>1, <1>2, <1>10, <2>3, BestOfLess
    <3> QED
      BY <1>1, <1>2, <1>9, <1>10, <2>3, <3>1
  <2> QED
    BY <1>4, <1>5, <2>1, <2>2, <2>3
<1> QED
  BY <1>6, <1>8, <1>11, <1>12 DEF LevelOK, Cached

LEMMA LevelCancelListed ==
  ASSUME NEW b, LevelOK(b), NEW v, IsView(v), LevelShows(b, v), NEW i \in OrderIds, Listed(b, i)
  PROVE  LevelOK(LevelCancel(b, i)) /\ LevelShows(LevelCancel(b, i), ViewRemove(v, i))
<1> DEFINE s == b.byID[i].side
           p == b.byID[i].price
           b1 == Unlinked(b, i)
           z == IF b1.q[s][p] = <<>> THEN "gone" ELSE "out"
           d == [b1 EXCEPT !.byID[i].in = z]
           c == LevelCancel(b, i)
<1>1. /\ IsLevelBook(b1) /\ b1.best = b.best
      /\ b1.q = [b.q EXCEPT ![s][p] = Without(b.q[s][p], PosOf(b.q[s][p], i))]
      /\ \A j \in OrderIds : /\ Listed(b1, j) <=> Listed(b, j)
                             /\ Listed(b, j) => b1.byID[j] = b.byID[j]
  BY UnlinkedFields
<1>2. z \in Places /\ z # "list"
  BY DEF Places
<1>3. c = IF d.q[s][p] = <<>> /\ d.best[s] = {p} THEN Recompute(d, s) ELSE d
  BY DEF LevelCancel, Listed
<1> HIDE DEF b1, z
<1> DEFINE n == [b1.byID[i] EXCEPT !.in = z]
<1>4. n \in LevelNode /\ n.in = z
  <2>1. b1.byID[i] \in LevelNode
    BY <1>1, LevelFields DEF Listed
  <2> QED
    BY <1>2, <2>1 DEF LevelNode
<1>5. d = [b1 EXCEPT !.byID[i] = n]
  OBVIOUS
<1> HIDE DEF n, d
<1>6. IsLevelBook(d) /\ d.q = b1.q /\ d.best = b1.best /\ d.byID = [b1.byID EXCEPT ![i] = n]
  BY <1>1, <1>4, <1>5, Zenon DEF IsLevelBook
<1>7. d.byID[i] = n /\ \A j \in OrderIds \ {i} : d.byID[j] = b1.byID[j]
  BY <1>1, <1>6, Zenon DEF IsLevelBook
<1>8. ~Listed(d, i)
  BY <1>2, <1>4, <1>7 DEF Listed
<1>9. \A j \in OrderIds \ {i} : /\ Listed(d, j) <=> Listed(b, j)
                                /\ Listed(b, j) => d.byID[j] = b.byID[j]
  BY <1>1, <1>7, Zenon DEF Listed
<1>10. Drops(b, d, i)
  BY <1>1, <1>6, <1>8, <1>9 DEF Drops
<1>11. d.best = b.best
  BY <1>1, <1>6
<1>12. c = d \/ c = Recompute(d, s)
  BY <1>3
<1>13. d.q[s][p] = <<>> /\ b.best[s] = {p} => c = Recompute(d, s)
  BY <1>3, <1>11
<1> HIDE DEF c
<1>14. LevelOK(c) /\ LevelShows(c, ViewRemove(v, i))
  BY <1>10, <1>11, <1>12, <1>13, LevelRemove
<1> QED
  BY <1>14 DEF c

\* A trade that does not fill the maker.
LEMMA LevelReduce ==
  ASSUME NEW b, LevelOK(b), NEW v, IsView(v), LevelShows(b, v), NEW i \in OrderIds, Listed(b, i),
         NEW x \in Nat, x < b.byID[i].qty
  PROVE  /\ LevelOK([b EXCEPT !.byID[i].qty = b.byID[i].qty - x])
         /\ LevelShows([b EXCEPT !.byID[i].qty = b.byID[i].qty - x], ViewReduce(v, i, x))
<1> DEFINE c == [b EXCEPT !.byID[i].qty = b.byID[i].qty - x]
           n == [b.byID[i] EXCEPT !.qty = b.byID[i].qty - x]
           w == ViewReduce(v, i, x)
<1>0. IsLevelBook(b) /\ Filed(b) /\ Cached(b)
  BY DEF LevelOK
<1>1. b.byID[i] \in LevelNode
  BY <1>0, LevelFields
<1>2. /\ n \in LevelNode /\ n.side = b.byID[i].side /\ n.price = b.byID[i].price
      /\ n.in = b.byID[i].in /\ n.qty = b.byID[i].qty - x
  BY <1>1 DEF LevelNode
<1>3. c = [b EXCEPT !.byID[i] = n]
  OBVIOUS
<1>4. /\ w.side = v.side /\ w.price = v.price /\ w.ahead = v.ahead
      /\ w.qty = [v.qty EXCEPT ![i] = v.qty[i] - x]
  BY DEF ViewReduce
<1> HIDE DEF n, w, c
<1>5. IsLevelBook(c) /\ c.q = b.q /\ c.best = b.best /\ c.byID = [b.byID EXCEPT ![i] = n]
  BY <1>0, <1>2, <1>3 DEF IsLevelBook
<1>6. c.byID[i] = n /\ \A j \in OrderIds \ {i} : c.byID[j] = b.byID[j]
  BY <1>0, <1>5 DEF IsLevelBook
<1>7. \A j \in OrderIds : /\ Listed(c, j) <=> Listed(b, j)
                          /\ c.byID[j].side = b.byID[j].side /\ c.byID[j].price = b.byID[j].price
  <2>1. Listed(c, i)
    BY <1>2, <1>6, NilsAssumption DEF Listed
  <2>2. \A j \in OrderIds : Listed(c, j) <=> Listed(b, j)
    BY <1>6, <2>1, Zenon DEF Listed
  <2>3. \A j \in OrderIds : c.byID[j].side = b.byID[j].side /\ c.byID[j].price = b.byID[j].price
    BY <1>2, <1>6, Zenon
  <2> QED
    BY <2>2, <2>3, Zenon
<1>8. Filed(c)
  BY <1>0, <1>5, <1>7 DEF Filed
<1>9. Cached(c)
  <2>1. \A s : Levels(c, s) = Levels(b, s)
    BY <1>5 DEF Levels
  <2> QED
    BY <1>0, <1>5, <2>1 DEF Cached
<1>10. v.qty[i] = b.byID[i].qty /\ w.qty[i] = v.qty[i] - x /\ \A j \in OrderIds \ {i} : w.qty[j] = v.qty[j]
  BY <1>4 DEF IsView, LevelShows
<1>11. LevelShows(c, w)
  <2>1. \A j \in OrderIds : Listed(b, j) => w.qty[j] = c.byID[j].qty
    BY <1>2, <1>6, <1>10 DEF LevelShows
  <2> QED
    BY <1>4, <1>5, <1>7, <2>1 DEF LevelShows
<1>12. LevelOK(c) /\ LevelShows(c, w)
  BY <1>5, <1>8, <1>9, <1>11 DEF LevelOK
<1> QED
  BY <1>12 DEF w, c

LEMMA FilledDrops ==
  ASSUME NEW b, LevelOK(b), NEW i \in OrderIds, Listed(b, i)
  PROVE  LET d == [Unlinked(b, i) EXCEPT !.byID[i] = NoNode]
         IN  Drops(b, d, i) /\ d.best = b.best
<1> DEFINE s == b.byID[i].side
           p == b.byID[i].price
           b1 == Unlinked(b, i)
           d == [b1 EXCEPT !.byID[i] = NoNode]
<1>1. /\ IsLevelBook(b1) /\ b1.best = b.best
      /\ b1.q = [b.q EXCEPT ![s][p] = Without(b.q[s][p], PosOf(b.q[s][p], i))]
      /\ \A j \in OrderIds : /\ Listed(b1, j) <=> Listed(b, j)
                             /\ Listed(b, j) => b1.byID[j] = b.byID[j]
  BY UnlinkedFields
<1>2. d = [b1 EXCEPT !.byID[i] = NoNode]
  OBVIOUS
<1> HIDE DEF b1, d
<1>3. IsLevelBook(d) /\ d.q = b1.q /\ d.best = b1.best /\ d.byID = [b1.byID EXCEPT ![i] = NoNode]
  BY <1>1, <1>2, Zenon DEF IsLevelBook
<1>4. d.byID[i] = NoNode /\ \A j \in OrderIds \ {i} : d.byID[j] = b1.byID[j]
  BY <1>1, <1>3, Zenon DEF IsLevelBook
<1>5. ~Listed(d, i)
  BY <1>4 DEF Listed
<1>6. \A j \in OrderIds \ {i} : /\ Listed(d, j) <=> Listed(b, j)
                                /\ Listed(b, j) => d.byID[j] = b.byID[j]
  BY <1>1, <1>4, Zenon DEF Listed
<1>7. d.q = [b.q EXCEPT ![s][p] = Without(b.q[s][p], PosOf(b.q[s][p], i))]
  BY <1>1, <1>3
<1>8. Drops(b, d, i)
  BY <1>3, <1>5, <1>6, <1>7 DEF Drops
<1>9. d.best = b.best
  BY <1>1, <1>3
<1> QED
  BY <1>8, <1>9 DEF d, b1

LEMMA LevelTrade ==
  ASSUME NEW b, LevelOK(b), NEW v, IsView(v), LevelShows(b, v), NEW t \in Order, t.side \in Sides,
         LevelCanMatch(b, t)
  PROVE  \E m \in OrderIds : /\ FirstAt(v, Opp(t.side), m)
                             /\ LevelExec(b, t) = Traded(v, t, m)
                             /\ LevelOK(LevelMatchOne(b, t))
                             /\ LevelShows(LevelMatchOne(b, t), ViewTrade(v, t, m))
<1> DEFINE s == Opp(t.side)
           m == Head(BestLevel(b, s))
           x == LevelExec(b, t)
           d == [Unlinked(b, m) EXCEPT !.byID[m] = NoNode]
           c == LevelMatchOne(b, t)
<1>0. s \in Sides /\ IsLevelBook(b) /\ Filed(b) /\ Cached(b)
  BY SideFacts DEF LevelOK
<1>1. Healed(b, t) = b
  BY NothingToHeal
<1>2. PICK p \in b.best[s] : Crosses(t.side, p, t.price)
  BY <1>1 DEF LevelCanMatch, Looks
<1>3. p \in Prices /\ p \in Levels(b, s) /\ b.best[s] = {p}
  <2>1. b.best[s] = BestOf(s, Levels(b, s)) /\ Levels(b, s) \in SUBSET Prices
    BY <1>0, LevelFields DEF Cached
  <2>2. \A r \in b.best[s] : r = p
    BY <1>0, <1>2, <2>1, BestOfOne
  <2> QED
    BY <1>0, <1>2, <2>1, <2>2, BestOfOne
<1>4. BestLevel(b, s) = b.q[s][p]
  <2>1. (CHOOSE r \in b.best[s] : TRUE) = p
    BY <1>3
  <2> QED
    BY <2>1 DEF BestLevel
<1>5. b.q[s][p] \in Seq(OrderIds) /\ b.q[s][p] # <<>>
  BY <1>0, <1>3, LevelFields DEF Levels
<1>6. 1 \in 1..Len(b.q[s][p]) /\ m = b.q[s][p][1] /\ m \in OrderIds /\ Has(b.q[s][p], m)
  BY <1>4, <1>5, TailIsWithout, ElementOfSeq DEF Has
<1>7. Listed(b, m) /\ b.byID[m].side = s /\ b.byID[m].price = p /\ b.byID[m].qty \in Nat \ {0}
  BY <1>0, <1>3, <1>6, LevelFields DEF Filed
<1>8. x = IF t.qty < b.byID[m].qty THEN t.qty ELSE b.byID[m].qty
  BY <1>1 DEF LevelExec
<1>9. c = IF x < b.byID[m].qty THEN [b EXCEPT !.byID[m].qty = b.byID[m].qty - x]
          ELSE IF d.best[s] \subseteq Levels(d, s) THEN d ELSE Recompute(d, s)
  BY <1>1 DEF LevelMatchOne
<1>10. t.qty \in Nat
  BY BoundAssumption DEF Order
<1> HIDE DEF s, m, x, d, c
<1>11. x \in Nat /\ x <= b.byID[m].qty
  BY <1>7, <1>8, <1>10
<1>12. /\ v.side[m] = s /\ v.price[m] = p /\ v.qty[m] = b.byID[m].qty
       /\ \A j \in OrderIds : j \in v.ahead[m] <=> InFront(b.q[s][p], j, m)
  BY <1>6, <1>7 DEF LevelShows
<1>13. FirstAt(v, s, m)
  <2>1. Once(b.q[s][p])
    BY <1>0, <1>3 DEF Filed
  <2>2. \A j \in OrderIds : ~InFront(b.q[s][p], j, m)
    BY <1>5, <1>6, <2>1, HeadIsFirst
  <2>3. v.ahead[m] \in SUBSET OrderIds
    BY <1>6 DEF IsView
  <2>4. v.ahead[m] = {}
    BY <1>12, <2>2, <2>3
  <2>5. BestAt(v, s, p)
    BY <1>0, <1>2, LevelBest
  <2> QED
    BY <1>6, <1>12, <2>4, <2>5 DEF FirstAt
<1>14. x = Traded(v, t, m)
  BY <1>8, <1>12 DEF Traded
<1>15. LevelOK(c) /\ LevelShows(c, ViewTrade(v, t, m))
  <2>1. CASE x < b.byID[m].qty
    <3>1. c = [b EXCEPT !.byID[m].qty = b.byID[m].qty - x]
      BY <1>9, <2>1
    <3>2. LevelOK(c) /\ LevelShows(c, ViewReduce(v, m, x))
      BY <1>6, <1>7, <1>11, <2>1, <3>1, LevelReduce, Zenon
    <3> QED
      BY <1>12, <1>14, <2>1, <3>2 DEF ViewTrade
  <2>2. CASE ~(x < b.byID[m].qty)
    <3>6. Drops(b, d, m) /\ d.best = b.best
      BY <1>6, <1>7, FilledDrops DEF d
    <3>7. c = IF d.best[s] \subseteq Levels(d, s) THEN d ELSE Recompute(d, s)
      BY <1>9, <2>2
    <3>9. d.q[s][p] = <<>> => p \notin Levels(d, s)
      BY DEF Levels
    <3>10. c = d \/ c = Recompute(d, b.byID[m].side)
      BY <1>7, <3>7
    <3>11. d.q[b.byID[m].side][b.byID[m].price] = <<>> /\ b.best[b.byID[m].side] = {b.byID[m].price} =>
             c = Recompute(d, b.byID[m].side)
      BY <1>3, <1>7, <3>7, <3>6, <3>9
    <3>12. LevelOK(c) /\ LevelShows(c, ViewRemove(v, m))
      <4>1. m \in OrderIds /\ Listed(b, m)
        BY <1>6, <1>7
      <4>2. Drops(b, d, m) /\ d.best = b.best
        BY <3>6
      <4> QED
        BY <3>10, <3>11, <4>1, <4>2, LevelRemove, Zenon
    <3> QED
      BY <1>12, <1>14, <2>2, <3>12 DEF ViewTrade
  <2> QED
    BY <2>1, <2>2
<1> QED
  BY <1>6, <1>13, <1>14, <1>15 DEF s, x, c

-----------------------------------------------------------------------------
(* The naive book *)

NaiveOrder == [id : OrderIds, price : Prices, qty : Nat \ {0}]

\* A slice of one side: best price first, and nobody twice.
SideOK(xs, s) ==
  /\ xs \in Seq(NaiveOrder)
  /\ \A k, m \in 1..Len(xs) : k < m => AtLeast(s, xs[k].price, xs[m].price)
  /\ \A k, m \in 1..Len(xs) : xs[k].id = xs[m].id => k = m

\* j is in front of the one at place k, at the same price.
Before(xs, j, k) == \E m \in 1..Len(xs) : m < k /\ xs[m].id = j /\ xs[m].price = xs[k].price

SideShows(xs, s, v) ==
  /\ \A k \in 1..Len(xs) :
       /\ v.side[xs[k].id] = s /\ v.price[xs[k].id] = xs[k].price /\ v.qty[xs[k].id] = xs[k].qty
       /\ \A j \in OrderIds : j \in v.ahead[xs[k].id] <=> Before(xs, j, k)
  /\ \A i \in OrderIds : v.side[i] = s => \E k \in 1..Len(xs) : xs[k].id = i

LEMMA SliceFields ==
  ASSUME NEW s, NEW xs, SideOK(xs, s)
  PROVE  /\ Len(xs) \in Nat
         /\ \A k \in 1..Len(xs) : /\ xs[k] \in NaiveOrder /\ xs[k].id \in OrderIds /\ xs[k].price \in Prices
                                  /\ xs[k].price \in Int /\ xs[k].qty \in Nat \ {0}
<1>1. xs \in Seq(NaiveOrder) /\ Len(xs) \in Nat
  BY LenProperties DEF SideOK
<1>2. ASSUME NEW k \in 1..Len(xs)
      PROVE  /\ xs[k] \in NaiveOrder /\ xs[k].id \in OrderIds /\ xs[k].price \in Prices
             /\ xs[k].price \in Int /\ xs[k].qty \in Nat \ {0}
  <2>1. xs[k] \in NaiveOrder
    BY <1>1, ElementOfSeq
  <2>2. xs[k].id \in OrderIds /\ xs[k].price \in Prices /\ xs[k].qty \in Nat \ {0}
    BY <2>1 DEF NaiveOrder
  <2>3. xs[k].price \in Int
    BY <2>2, PricesAssumption, Zenon
  <2> QED
    BY <2>1, <2>2, <2>3
<1> QED
  BY <1>1, <1>2

\* What happens to an order of one side is not seen on the other.
LEMMA OtherAdd ==
  ASSUME NEW r \in Sides, NEW xs, SideOK(xs, r), NEW v, IsView(v), SideShows(xs, r, v),
         NEW o \in Order, o.side \in Sides, o.side # r, v.side[o.id] = 0
  PROVE  SideShows(xs, r, ViewAdd(v, o))
<1> DEFINE w == ViewAdd(v, o)
           id == o.id
<1>1. id \in OrderIds
  BY DEF Order
<1>2. /\ w.side = [v.side EXCEPT ![id] = o.side] /\ w.price = [v.price EXCEPT ![id] = o.price]
      /\ w.qty = [v.qty EXCEPT ![id] = o.qty] /\ w.ahead = [v.ahead EXCEPT ![id] = At(v, o.side, o.price)]
  BY DEF ViewAdd
<1> HIDE DEF w
<1>3. /\ w.side[id] = o.side
      /\ \A i \in OrderIds \ {id} : /\ w.side[i] = v.side[i] /\ w.price[i] = v.price[i]
                                    /\ w.qty[i] = v.qty[i] /\ w.ahead[i] = v.ahead[i]
  BY <1>1, <1>2 DEF IsView
<1>4. \A k \in 1..Len(xs) : xs[k].id \in OrderIds \ {id}
  <2>1. r # 0
    BY SideFacts
  <2> QED
    BY <2>1, SliceFields DEF SideShows
<1>5. SideShows(xs, r, w)
  BY <1>3, <1>4 DEF SideShows
<1> QED
  BY <1>5 DEF w

LEMMA OtherRemove ==
  ASSUME NEW r \in Sides, NEW xs, SideOK(xs, r), NEW v, IsView(v), SideShows(xs, r, v),
         NEW i \in OrderIds, v.side[i] # r
  PROVE  SideShows(xs, r, ViewRemove(v, i))
<1> DEFINE w == ViewRemove(v, i)
<1>2. /\ w.side = [v.side EXCEPT ![i] = 0] /\ w.price = v.price /\ w.qty = v.qty
      /\ w.ahead = [j \in OrderIds |-> v.ahead[j] \ {i}]
  BY DEF ViewRemove
<1> HIDE DEF w
<1>3. /\ w.side[i] = 0 /\ r # 0
      /\ \A j \in OrderIds \ {i} : /\ w.side[j] = v.side[j] /\ w.price[j] = v.price[j]
                                    /\ w.qty[j] = v.qty[j] /\ w.ahead[j] = v.ahead[j] \ {i}
  BY <1>2, SideFacts DEF IsView
<1>4. \A k \in 1..Len(xs) : xs[k].id \in OrderIds \ {i}
  BY SliceFields DEF SideShows
<1>5. \A k \in 1..Len(xs) : ~Before(xs, i, k)
  BY <1>4 DEF Before
<1>6. SideShows(xs, r, w)
  BY <1>3, <1>4, <1>5 DEF SideShows
<1> QED
  BY <1>6 DEF w

LEMMA OtherReduce ==
  ASSUME NEW r \in Sides, NEW xs, SideOK(xs, r), NEW v, IsView(v), SideShows(xs, r, v),
         NEW i \in OrderIds, v.side[i] # r, NEW x
  PROVE  SideShows(xs, r, ViewReduce(v, i, x))
<1> DEFINE w == ViewReduce(v, i, x)
<1>2. /\ w.side = v.side /\ w.price = v.price /\ w.ahead = v.ahead
      /\ w.qty = [v.qty EXCEPT ![i] = v.qty[i] - x]
  BY DEF ViewReduce
<1> HIDE DEF w
<1>3. \A j \in OrderIds \ {i} : w.qty[j] = v.qty[j]
  BY <1>2 DEF IsView
<1>4. \A k \in 1..Len(xs) : xs[k].id \in OrderIds \ {i}
  BY SliceFields DEF SideShows
<1>6. SideShows(xs, r, w)
  BY <1>2, <1>3, <1>4 DEF SideShows
<1> QED
  BY <1>6 DEF w

LEMMA SideRemove ==
  ASSUME NEW s \in Sides, NEW xs, SideOK(xs, s), NEW v, IsView(v), SideShows(xs, s, v),
         NEW k \in 1..Len(xs)
  PROVE  SideOK(Without(xs, k), s) /\ SideShows(Without(xs, k), s, ViewRemove(v, xs[k].id))
<1> DEFINE ys == Without(xs, k)
           n == Len(xs)
           i == xs[k].id
           w == ViewRemove(v, i)
<1>0. ys \in Seq(NaiveOrder) /\ Shifted(ys, xs, k)
  BY WithoutPlaces DEF SideOK
<1>1. /\ w.side = [v.side EXCEPT ![i] = 0] /\ w.price = v.price /\ w.qty = v.qty
      /\ w.ahead = [j \in OrderIds |-> v.ahead[j] \ {i}]
  BY DEF ViewRemove
<1>2. /\ n \in Nat /\ k \in 1..n /\ i \in OrderIds /\ s # 0 /\ Len(ys) \in Nat
      /\ \A a \in 1..n : xs[a].id \in OrderIds /\ xs[a].price \in Int
  BY <1>0, SliceFields, LenProperties, SideFacts
<1>3. /\ \A a, c \in 1..n : a < c => AtLeast(s, xs[a].price, xs[c].price)
      /\ \A a, c \in 1..n : xs[a].id = xs[c].id => a = c
  BY DEF SideOK
<1>4. \A a \in 1..n \ {k} : xs[a].id # i
  BY <1>2, <1>3
<1> HIDE DEF ys, n, w, i
<1>5. /\ \A a \in 1..Len(ys) : \E c \in 1..n \ {k} : ys[a] = xs[c] /\ c = Back(a, k)
      /\ \A c \in 1..n \ {k} : \E a \in 1..Len(ys) : ys[a] = xs[c] /\ c = Back(a, k)
  BY <1>0 DEF Shifted, n
<1>6. /\ w.side[i] = 0
      /\ \A j \in OrderIds \ {i} : /\ w.side[j] = v.side[j] /\ w.price[j] = v.price[j]
                                    /\ w.qty[j] = v.qty[j] /\ w.ahead[j] = v.ahead[j] \ {i}
  BY <1>1, <1>2 DEF IsView
<1>7. \A a, c \in 1..Len(ys) : (a < c <=> Back(a, k) < Back(c, k)) /\ (a = c <=> Back(a, k) = Back(c, k))
  BY <1>2 DEF Back
<1>8. SideOK(ys, s)
  <2>1. ASSUME NEW a \in 1..Len(ys), NEW c \in 1..Len(ys)
        PROVE  /\ a < c => AtLeast(s, ys[a].price, ys[c].price)
               /\ ys[a].id = ys[c].id => a = c
    <3>1. PICK e \in 1..n \ {k} : ys[a] = xs[e] /\ e = Back(a, k)
      BY <1>5
    <3>2. PICK f \in 1..n \ {k} : ys[c] = xs[f] /\ f = Back(c, k)
      BY <1>5
    <3> QED
      BY <3>1, <3>2, <1>3, <1>7
  <2> QED
    BY <2>1, <1>0 DEF SideOK
<1>9. ASSUME NEW a \in 1..Len(ys)
      PROVE  /\ w.side[ys[a].id] = s /\ w.price[ys[a].id] = ys[a].price /\ w.qty[ys[a].id] = ys[a].qty
             /\ \A j \in OrderIds : j \in w.ahead[ys[a].id] <=> Before(ys, j, a)
  <2>1. PICK e \in 1..n \ {k} : ys[a] = xs[e] /\ e = Back(a, k)
    BY <1>5
  <2>2. ys[a].id \in OrderIds \ {i}
    BY <2>1, <1>2, <1>4
  <2>3. /\ v.side[xs[e].id] = s /\ v.price[xs[e].id] = xs[e].price /\ v.qty[xs[e].id] = xs[e].qty
        /\ \A j \in OrderIds : j \in v.ahead[xs[e].id] <=> Before(xs, j, e)
    BY <2>1 DEF SideShows, n
  <2>4. ASSUME NEW j \in OrderIds PROVE Before(ys, j, a) <=> Before(xs, j, e) /\ j # i
    <3>1. ASSUME Before(ys, j, a) PROVE Before(xs, j, e) /\ j # i
      <4>1. PICK c \in 1..Len(ys) : c < a /\ ys[c].id = j /\ ys[c].price = ys[a].price
        BY <3>1 DEF Before
      <4>2. PICK f \in 1..n \ {k} : ys[c] = xs[f] /\ f = Back(c, k)
        BY <1>5
      <4>3. f < e /\ xs[f].id = j /\ xs[f].price = xs[e].price /\ j # i
        BY <4>1, <4>2, <2>1, <1>4, <1>7
      <4> QED
        BY <4>3 DEF Before, n
    <3>2. ASSUME Before(xs, j, e), j # i PROVE Before(ys, j, a)
      <4>1. PICK f \in 1..n : f < e /\ xs[f].id = j /\ xs[f].price = xs[e].price
        BY <3>2 DEF Before, n
      <4>2. f \in 1..n \ {k}
        BY <4>1, <3>2 DEF i
      <4>3. PICK c \in 1..Len(ys) : ys[c] = xs[f] /\ f = Back(c, k)
        BY <4>2, <1>5
      <4>4. c < a
        BY <4>1, <4>3, <2>1, <1>7
      <4> QED
        BY <4>1, <4>3, <4>4, <2>1 DEF Before
    <3> QED
      BY <3>1, <3>2
  <2> QED
    BY <2>1, <2>2, <2>3, <2>4, <1>6
<1>10. ASSUME NEW j \in OrderIds, w.side[j] = s PROVE \E a \in 1..Len(ys) : ys[a].id = j
  <2>1. j # i /\ v.side[j] = s
    BY <1>10, <1>6, <1>2
  <2>2. PICK e \in 1..n : xs[e].id = j
    BY <2>1 DEF SideShows, n
  <2>3. e \in 1..n \ {k}
    BY <2>1, <2>2 DEF i
  <2> QED
    BY <2>2, <2>3, <1>5
<1> QED
  BY <1>8, <1>9, <1>10 DEF SideShows, ys, w, i

LEMMA SideReduce ==
  ASSUME NEW s \in Sides, NEW xs, SideOK(xs, s), NEW v, IsView(v), SideShows(xs, s, v),
         NEW k \in 1..Len(xs), NEW x \in Nat, x < xs[k].qty
  PROVE  /\ SideOK([xs EXCEPT ![k].qty = xs[k].qty - x], s)
         /\ SideShows([xs EXCEPT ![k].qty = xs[k].qty - x], s, ViewReduce(v, xs[k].id, x))
<1> DEFINE e == [xs[k] EXCEPT !.qty = xs[k].qty - x]
           ys == [xs EXCEPT ![k].qty = xs[k].qty - x]
           n == Len(xs)
           i == xs[k].id
           w == ViewReduce(v, i, x)
<1>1. /\ n \in Nat /\ k \in 1..n /\ i \in OrderIds /\ xs \in Seq(NaiveOrder) /\ xs[k] \in NaiveOrder
      /\ \A a \in 1..n : xs[a].id \in OrderIds
  BY SliceFields DEF SideOK
<1>2. e \in NaiveOrder /\ e.id = i /\ e.price = xs[k].price /\ e.qty = xs[k].qty - x
  <2>1. xs[k].qty - x \in Nat \ {0}
    BY <1>1, SliceFields
  <2>2. PICK q \in Nat \ {0} : q = xs[k].qty - x
    BY <2>1
  <2>3. e = [xs[k] EXCEPT !.qty = q]
    BY <2>2
  <2> HIDE DEF e
  <2> QED
    BY <1>1, <2>2, <2>3 DEF NaiveOrder
<1>3. ys = [xs EXCEPT ![k] = e]
  OBVIOUS
<1>4. /\ w.side = v.side /\ w.price = v.price /\ w.ahead = v.ahead
      /\ w.qty = [v.qty EXCEPT ![i] = v.qty[i] - x]
  BY DEF ViewReduce
<1>5. v.qty[i] = xs[k].qty
  BY DEF SideShows
<1>6. \A a \in 1..n \ {k} : xs[a].id # i
  BY <1>1 DEF SideOK
<1> HIDE DEF e, ys, w, i
<1>7. ys \in Seq(NaiveOrder) /\ Len(ys) = n /\ ys[k] = e /\ \A a \in 1..n \ {k} : ys[a] = xs[a]
  BY <1>1, <1>2, <1>3, ExceptSeq
<1> HIDE DEF n
<1>8. \A a \in 1..n : ys[a].id = xs[a].id /\ ys[a].price = xs[a].price
  BY <1>2, <1>7 DEF i
<1>9. w.qty[i] = e.qty /\ \A j \in OrderIds \ {i} : w.qty[j] = v.qty[j]
  BY <1>1, <1>2, <1>4, <1>5 DEF IsView
<1>10. \A a \in 1..n : w.qty[ys[a].id] = ys[a].qty
  <2> SUFFICES ASSUME NEW a \in 1..n PROVE w.qty[ys[a].id] = ys[a].qty
    OBVIOUS
  <2>1. CASE a = k
    BY <1>2, <1>7, <1>9, <2>1
  <2>2. CASE a # k
    BY <1>1, <1>6, <1>7, <1>9, <2>2 DEF SideShows, n
  <2> QED
    BY <2>1, <2>2
<1>11. SideOK(ys, s)
  BY <1>7, <1>8 DEF SideOK, n
<1>12. \A j, a : a \in 1..n => (Before(ys, j, a) <=> Before(xs, j, a))
  BY <1>7, <1>8 DEF Before, n
<1>13. SideShows(ys, s, w)
  BY <1>4, <1>7, <1>8, <1>10, <1>12 DEF SideShows, n
<1> QED
  BY <1>11, <1>13 DEF ys, w, i

\* The binary search ends somewhere.
LEMMA InsertPlace ==
  ASSUME NEW s \in Sides, NEW xs, SideOK(xs, s), NEW p \in Prices
  PROVE  \E k \in 0..Len(xs) : \A m \in 1..Len(xs) : AtLeast(s, xs[m].price, p) <=> m <= k
<1> DEFINE n == Len(xs)
           T == {k \in Nat : k \in 1..n /\ ~AtLeast(s, xs[k].price, p)}
<1>1. n \in Nat /\ \A k \in 1..n : xs[k].price \in Prices
  BY SliceFields
<1>2. CASE T = {}
  <2>1. n \in 0..n /\ \A m \in 1..n : AtLeast(s, xs[m].price, p) /\ m <= n
    BY <1>1, <1>2
  <2> QED
    BY <2>1
<1>3. CASE T # {}
  <2>1. PICK k \in T : \A y \in T : k <= y
    BY <1>3, LeastNatural
  <2>2. k \in Nat /\ k \in 1..n /\ ~AtLeast(s, xs[k].price, p) /\ \A m \in 1..n : m < k => AtLeast(s, xs[m].price, p)
    BY <1>1, <2>1
  <2>3. \A m \in 1..n : k < m => ~AtLeast(s, xs[m].price, p)
    <3> SUFFICES ASSUME NEW m \in 1..n, k < m, AtLeast(s, xs[m].price, p) PROVE FALSE
      OBVIOUS
    <3>1. AtLeast(s, xs[k].price, xs[m].price)
      BY <2>2 DEF SideOK
    <3> QED
      BY <1>1, <2>2, <3>1, AtLeastOrder
  <2>4. PICK j \in Nat : j = k - 1
    BY <2>2, <1>1
  <2>5. j \in 0..n /\ \A m \in 1..n : (m <= j <=> m < k) /\ (m < k \/ m = k \/ k < m)
    BY <1>1, <2>2, <2>4
  <2>6. \A m \in 1..n : AtLeast(s, xs[m].price, p) <=> m <= j
    BY <2>2, <2>3, <2>5
  <2> QED
    BY <2>5, <2>6
<1> QED
  BY <1>2, <1>3

LEMMA SideInsert ==
  ASSUME NEW s \in Sides, NEW xs, SideOK(xs, s), NEW v, IsView(v), SideShows(xs, s, v),
         NEW o \in Order, o.side = s, o.qty > 0, v.side[o.id] = 0,
         NEW k \in 1..(Len(xs) + 1), \A m \in 1..Len(xs) : AtLeast(s, xs[m].price, o.price) <=> m < k,
         NEW e, e = [id |-> o.id, price |-> o.price, qty |-> o.qty]
  PROVE  SideOK(InsertAt(xs, k, e), s) /\ SideShows(InsertAt(xs, k, e), s, ViewAdd(v, o))
<1> DEFINE ys == InsertAt(xs, k, e)
           n == Len(xs)
           id == o.id
           p == o.price
           w == ViewAdd(v, o)
<1>1. id \in OrderIds /\ p \in Prices /\ o.qty \in Nat \ {0} /\ s # 0
  BY BoundAssumption, SideFacts DEF Order
<1>2. e \in NaiveOrder /\ e.id = id /\ e.price = p /\ e.qty = o.qty
  BY <1>1 DEF NaiveOrder
<1>3. ys \in Seq(NaiveOrder) /\ Inserted(ys, xs, k, e)
  BY <1>2, InsertAtPlaces DEF SideOK
<1>4. /\ w.side = [v.side EXCEPT ![id] = s] /\ w.price = [v.price EXCEPT ![id] = p]
      /\ w.qty = [v.qty EXCEPT ![id] = o.qty] /\ w.ahead = [v.ahead EXCEPT ![id] = At(v, s, p)]
  BY DEF ViewAdd
<1>5. /\ n \in Nat /\ k \in 1..(n + 1) /\ Len(ys) \in Nat
      /\ \A a \in 1..n : xs[a].id \in OrderIds /\ xs[a].price \in Prices
      /\ \A a \in 1..n : AtLeast(s, xs[a].price, p) <=> a < k
  BY <1>3, SliceFields, LenProperties
<1>6. \A a \in 1..n : xs[a].id # id
  BY <1>1, <1>5 DEF SideShows
<1> HIDE DEF ys, n, w, id, p
<1>7. /\ k \in 1..Len(ys) /\ ys[k] = e
      /\ \A a \in 1..n : Pushed(a, k) \in 1..Len(ys) /\ ys[Pushed(a, k)] = xs[a]
      /\ \A c \in 1..Len(ys) : c = k \/ \E a \in 1..n : c = Pushed(a, k)
  BY <1>3 DEF Inserted, n
<1>8. /\ \A a, c \in 1..n : (Pushed(a, k) < Pushed(c, k) <=> a < c)
      /\ \A a \in 1..n : Pushed(a, k) # k /\ (Pushed(a, k) < k <=> a < k) /\ (k < Pushed(a, k) <=> ~(a < k))
  BY <1>5 DEF Pushed
<1>9. /\ w.side[id] = s /\ w.price[id] = p /\ w.qty[id] = o.qty /\ w.ahead[id] = At(v, s, p)
      /\ \A j \in OrderIds \ {id} : /\ w.side[j] = v.side[j] /\ w.price[j] = v.price[j]
                                    /\ w.qty[j] = v.qty[j] /\ w.ahead[j] = v.ahead[j]
  BY <1>1, <1>4 DEF IsView
<1>10. SideOK(ys, s)
  <2>1. ASSUME NEW a \in 1..Len(ys), NEW c \in 1..Len(ys), a < c PROVE AtLeast(s, ys[a].price, ys[c].price)
    <3>1. CASE a = k
      <4>1. PICK f \in 1..n : c = Pushed(f, k)
        BY <1>7, <2>1, <3>1
      <4>2. ~(f < k) /\ ys[c] = xs[f] /\ ys[a] = e
        BY <1>7, <1>8, <2>1, <3>1, <4>1
      <4> QED
        BY <1>1, <1>2, <1>5, <4>2, AtLeastOrder
    <3>2. CASE c = k
      <4>1. PICK f \in 1..n : a = Pushed(f, k)
        BY <1>7, <2>1, <3>2
      <4>2. f < k /\ ys[a] = xs[f] /\ ys[c] = e
        BY <1>7, <1>8, <2>1, <3>2, <4>1
      <4> QED
        BY <1>2, <1>5, <4>2
    <3>3. CASE a # k /\ c # k
      <4>1. PICK f \in 1..n : a = Pushed(f, k)
        BY <1>7, <3>3
      <4>2. PICK g \in 1..n : c = Pushed(g, k)
        BY <1>7, <3>3
      <4>3. f < g /\ ys[a] = xs[f] /\ ys[c] = xs[g]
        BY <1>7, <1>8, <2>1, <4>1, <4>2
      <4> QED
        BY <4>3 DEF SideOK, n
    <3> QED
      BY <3>1, <3>2, <3>3
  <2>2. ASSUME NEW a \in 1..Len(ys), NEW c \in 1..Len(ys), ys[a].id = ys[c].id PROVE a = c
    <3>1. CASE a = k
      BY <1>2, <1>6, <1>7, <2>2, <3>1
    <3>2. CASE c = k
      BY <1>2, <1>6, <1>7, <2>2, <3>2
    <3>3. CASE a # k /\ c # k
      <4>1. PICK f \in 1..n : a = Pushed(f, k)
        BY <1>7, <3>3
      <4>2. PICK g \in 1..n : c = Pushed(g, k)
        BY <1>7, <3>3
      <4>3. xs[f].id = xs[g].id
        BY <1>7, <2>2, <4>1, <4>2
      <4> QED
        BY <4>1, <4>2, <4>3 DEF SideOK, n
    <3> QED
      BY <3>1, <3>2, <3>3
  <2> QED
    BY <1>3, <2>1, <2>2 DEF SideOK
<1>11. ASSUME NEW j \in OrderIds PROVE j \in At(v, s, p) <=> Before(ys, j, k)
  <2>1. ASSUME j \in At(v, s, p) PROVE Before(ys, j, k)
    <3>1. v.side[j] = s /\ v.price[j] = p
      BY <2>1 DEF At
    <3>2. PICK a \in 1..n : xs[a].id = j
      BY <3>1 DEF SideShows, n
    <3>3. xs[a].price = p
      BY <3>1, <3>2 DEF SideShows, n
    <3>4. a < k
      BY <1>1, <1>5, <3>3, AtLeastOrder
    <3>5. Pushed(a, k) \in 1..Len(ys) /\ Pushed(a, k) < k /\ ys[Pushed(a, k)] = xs[a]
      BY <1>7, <1>8, <3>4
    <3> QED
      BY <1>2, <1>7, <3>2, <3>3, <3>5 DEF Before
  <2>2. ASSUME Before(ys, j, k) PROVE j \in At(v, s, p)
    <3>1. PICK c \in 1..Len(ys) : c < k /\ ys[c].id = j /\ ys[c].price = p
      BY <1>2, <1>7, <2>2 DEF Before
    <3>2. c # k
      BY <3>1, <1>5
    <3>3. PICK a \in 1..n : c = Pushed(a, k)
      BY <3>2, <1>7
    <3>4. xs[a].id = j /\ xs[a].price = p
      BY <3>1, <3>3, <1>7
    <3> QED
      BY <3>4 DEF SideShows, At, n
  <2> QED
    BY <2>1, <2>2
<1>12. ASSUME NEW a \in 1..n, NEW c, c = Pushed(a, k), NEW j \in OrderIds
       PROVE  Before(xs, j, a) <=> Before(ys, j, c)
  <2>1. ASSUME Before(xs, j, a) PROVE Before(ys, j, c)
    <3>1. PICK f \in 1..n : f < a /\ xs[f].id = j /\ xs[f].price = xs[a].price
      BY <2>1 DEF Before, n
    <3>2. Pushed(f, k) \in 1..Len(ys) /\ Pushed(f, k) < c /\ ys[Pushed(f, k)] = xs[f] /\ ys[c] = xs[a]
      BY <1>7, <1>8, <1>12, <3>1
    <3> QED
      BY <3>1, <3>2 DEF Before
  <2>2. ASSUME Before(ys, j, c) PROVE Before(xs, j, a)
    <3>1. PICK d \in 1..Len(ys) : d < c /\ ys[d].id = j /\ ys[d].price = ys[c].price
      BY <2>2 DEF Before
    <3>2. ys[c] = xs[a]
      BY <1>7, <1>12
    <3>3. d # k
      <4> SUFFICES ASSUME d = k PROVE FALSE
        OBVIOUS
      <4>1. ~(a < k) /\ xs[a].price = p
        BY <1>2, <1>7, <1>8, <1>12, <3>1, <3>2
      <4> QED
        BY <1>1, <1>5, <4>1, AtLeastOrder
    <3>4. PICK f \in 1..n : d = Pushed(f, k)
      BY <3>3, <1>7
    <3>5. f < a /\ xs[f].id = j /\ xs[f].price = xs[a].price
      BY <1>7, <1>8, <1>12, <3>1, <3>2, <3>4
    <3> QED
      BY <3>5 DEF Before, n
  <2> QED
    BY <2>1, <2>2
<1>13. ASSUME NEW c \in 1..Len(ys)
       PROVE  /\ w.side[ys[c].id] = s /\ w.price[ys[c].id] = ys[c].price /\ w.qty[ys[c].id] = ys[c].qty
              /\ \A j \in OrderIds : j \in w.ahead[ys[c].id] <=> Before(ys, j, c)
  <2>1. CASE c = k
    BY <1>2, <1>7, <1>9, <1>11, <2>1
  <2>2. CASE c # k
    <3>1. PICK a \in 1..n : c = Pushed(a, k)
      BY <2>2, <1>7
    <3>2. ys[c] = xs[a] /\ xs[a].id \in OrderIds \ {id}
      BY <3>1, <1>5, <1>6, <1>7
    <3>3. /\ v.side[xs[a].id] = s /\ v.price[xs[a].id] = xs[a].price /\ v.qty[xs[a].id] = xs[a].qty
          /\ \A j \in OrderIds : j \in v.ahead[xs[a].id] <=> Before(xs, j, a)
      BY DEF SideShows, n
    <3>4. \A j \in OrderIds : Before(xs, j, a) <=> Before(ys, j, c)
      BY <3>1, <1>12
    <3> QED
      BY <3>2, <3>3, <3>4, <1>9
  <2> QED
    BY <2>1, <2>2
<1>14. ASSUME NEW j \in OrderIds, w.side[j] = s PROVE \E c \in 1..Len(ys) : ys[c].id = j
  <2>1. CASE j = id
    BY <1>2, <1>7, <2>1
  <2>2. CASE j # id
    <3>1. v.side[j] = s
      BY <1>9, <1>14, <2>2
    <3>2. PICK a \in 1..n : xs[a].id = j
      BY <3>1 DEF SideShows, n
    <3>3. Pushed(a, k) \in 1..Len(ys) /\ ys[Pushed(a, k)] = xs[a]
      BY <1>7
    <3> QED
      BY <3>2, <3>3
  <2> QED
    BY <2>1, <2>2
<1> QED
  BY <1>10, <1>13, <1>14 DEF SideShows, ys, w

IsNaiveBook(b) ==
  /\ b.q \in [Sides -> Seq(NaiveOrder)]
  /\ b.pos \in [OrderIds -> Slot \cup {NoNode}]
  /\ DOMAIN b = {"q", "pos"}

\* Both slices, and an index, right or wrong, for every order in them.
NaiveOK(b) ==
  /\ IsNaiveBook(b)
  /\ \A s \in Sides : SideOK(b.q[s], s)
  /\ \A s \in Sides : \A k \in 1..Len(b.q[s]) : b.pos[b.q[s][k].id] # NoNode

NaiveShows(b, v) == \A s \in Sides : SideShows(b.q[s], s, v)

\* What a Cancel does to the orders.
ViewCancel(v, i) == IF v.side[i] = 0 THEN v ELSE ViewRemove(v, i)

LEMMA NaiveHas ==
  ASSUME NEW b, NaiveOK(b), NEW v, IsView(v), NaiveShows(b, v), NEW i \in OrderIds
  PROVE  /\ v.side[i] # 0 => \E k \in 1..Len(b.q[v.side[i]]) : b.q[v.side[i]][k].id = i
         /\ \A s \in Sides : \A k \in 1..Len(b.q[s]) : b.q[s][k].id = i => v.side[i] = s
<1>1. v.side[i] # 0 => v.side[i] \in Sides
  BY DEF IsView
<1> QED
  BY <1>1 DEF NaiveShows, SideShows

LEMMA NaiveAddNew ==
  ASSUME NEW b, NaiveOK(b), NEW v, IsView(v), NaiveShows(b, v),
         NEW o \in Order, o.side \in Sides, o.qty > 0, v.side[o.id] = 0
  PROVE  NaiveOK(NaiveAdd(b, o)) /\ NaiveShows(NaiveAdd(b, o), ViewAdd(v, o))
<1> DEFINE s == o.side
           id == o.id
           k == InsertAt0(b, o)
           e == [id |-> o.id, price |-> o.price, qty |-> o.qty]
           z == [side |-> o.side, index |-> k]
           ys == InsertAt(b.q[s], k + 1, e)
           c == NaiveAdd(b, o)
           w == ViewAdd(v, o)
<1>1. s \in Sides /\ id \in OrderIds /\ o.price \in Prices /\ o.qty \in Nat \ {0}
  BY BoundAssumption DEF Order
<1>2. SideOK(b.q[s], s) /\ SideShows(b.q[s], s, v)
  BY <1>1 DEF NaiveOK, NaiveShows
<1>3. k \in 0..Len(b.q[s]) /\ \A m \in 1..Len(b.q[s]) : AtLeast(s, b.q[s][m].price, o.price) <=> m <= k
  <2>1. \E a \in 0..Len(b.q[s]) : \A m \in 1..Len(b.q[s]) : AtLeast(s, b.q[s][m].price, o.price) <=> m <= a
    BY <1>1, <1>2, InsertPlace
  <2> QED
    BY <2>1, Zenon DEF InsertAt0
<1>4. c = [b EXCEPT !.q[s] = ys, !.pos[id] = z]
  BY <1>1 DEF NaiveAdd
<1>5. e.id = id /\ e = [id |-> o.id, price |-> o.price, qty |-> o.qty]
  OBVIOUS
<1>6. Len(b.q[s]) \in Nat
  BY <1>2, SliceFields
<1>7. z \in Slot /\ z # NoNode
  <2>1. k \in Nat
    BY <1>3, <1>6
  <2> HIDE DEF k
  <2>2. z \in Slot
    BY <1>1, <2>1 DEF Slot
  <2> QED
    BY <2>2, NilsAssumption
<1>8. SideOK(ys, s) /\ SideShows(ys, s, w) /\ ys \in Seq(NaiveOrder) /\ Inserted(ys, b.q[s], k + 1, e)
  <2> HIDE DEF k, e
  <2>1. PICK n : n = k + 1
    OBVIOUS
  <2>2. n \in 1..(Len(b.q[s]) + 1) /\ \A m \in 1..Len(b.q[s]) : m < n <=> m <= k
    BY <1>3, <1>6, <2>1
  <2>3. \A m \in 1..Len(b.q[s]) : AtLeast(s, b.q[s][m].price, o.price) <=> m < n
    BY <1>3, <2>2
  <2>4. SideOK(InsertAt(b.q[s], n, e), s) /\ SideShows(InsertAt(b.q[s], n, e), s, w)
    BY <1>1, <1>2, <1>5, <2>2, <2>3, SideInsert
  <2>5. e \in NaiveOrder
    BY <1>1, <1>5 DEF NaiveOrder
  <2>6. Inserted(InsertAt(b.q[s], n, e), b.q[s], n, e)
    BY <1>2, <2>2, <2>5, InsertAtPlaces DEF SideOK
  <2> QED
    BY <2>1, <2>4, <2>6 DEF SideOK
<1>9. IsNaiveBook(b)
  BY DEF NaiveOK
<1> HIDE DEF s, id, k, e, z, ys, c, w
<1>10. IsNaiveBook(c) /\ c.q = [b.q EXCEPT ![s] = ys] /\ c.pos = [b.pos EXCEPT ![id] = z]
  BY <1>1, <1>4, <1>7, <1>8, <1>9 DEF IsNaiveBook
<1>11. /\ c.q[s] = ys /\ \A r \in Sides \ {s} : c.q[r] = b.q[r]
       /\ c.pos[id] = z /\ \A i \in OrderIds \ {id} : c.pos[i] = b.pos[i]
  BY <1>1, <1>9, <1>10 DEF IsNaiveBook
<1>12. \A r \in Sides \ {s} : SideOK(b.q[r], r) /\ SideShows(b.q[r], r, w)
  BY <1>1, OtherAdd DEF NaiveOK, NaiveShows, w, s
<1>13. ASSUME NEW r \in Sides, NEW m \in 1..Len(c.q[r]) PROVE c.pos[c.q[r][m].id] # NoNode
  <2>1. c.q[r][m].id = id \/ \E a \in 1..Len(b.q[r]) : c.q[r][m].id = b.q[r][a].id
    <3>1. CASE r = s
      <4>1. m \in 1..Len(ys) /\ c.q[r][m] = ys[m]
        BY <1>11, <1>13, <3>1
      <4>2. m = k + 1 \/ \E a \in 1..Len(b.q[s]) : m = Pushed(a, k + 1)
        BY <1>8, <4>1 DEF Inserted
      <4>3. ys[k + 1] = e /\ \A a \in 1..Len(b.q[s]) : ys[Pushed(a, k + 1)] = b.q[s][a]
        BY <1>8 DEF Inserted
      <4> QED
        BY <1>5, <3>1, <4>1, <4>2, <4>3
    <3>2. CASE r # s
      BY <1>11, <1>13, <3>2
    <3> QED
      BY <3>1, <3>2
  <2>2. \A a \in 1..Len(b.q[r]) : b.pos[b.q[r][a].id] # NoNode /\ b.q[r][a].id \in OrderIds
    BY SliceFields DEF NaiveOK
  <2> QED
    BY <1>7, <1>11, <2>1, <2>2
<1>14. \A r \in Sides : SideOK(c.q[r], r) /\ SideShows(c.q[r], r, w)
  BY <1>8, <1>11, <1>12
<1> QED
  BY <1>10, <1>13, <1>14 DEF NaiveOK, NaiveShows, c, w

\* The order at place k of side s is taken out, and with it at most its own index.
NaiveDrops(b, c, s, k) ==
  /\ c.q = [b.q EXCEPT ![s] = Without(b.q[s], k)]
  /\ c.pos \in [OrderIds -> Slot \cup {NoNode}] /\ DOMAIN c = {"q", "pos"}
  /\ \A j \in OrderIds : j # b.q[s][k].id /\ b.pos[j] # NoNode => c.pos[j] # NoNode

LEMMA NaiveRemove ==
  ASSUME NEW b, NaiveOK(b), NEW v, IsView(v), NaiveShows(b, v), NEW s \in Sides, NEW k \in 1..Len(b.q[s]),
         NEW c, NaiveDrops(b, c, s, k)
  PROVE  NaiveOK(c) /\ NaiveShows(c, ViewRemove(v, b.q[s][k].id))
<1> DEFINE i == b.q[s][k].id
           w == ViewRemove(v, i)
           ys == Without(b.q[s], k)
<1>1. SideOK(b.q[s], s) /\ SideShows(b.q[s], s, v) /\ IsNaiveBook(b)
  BY DEF NaiveOK, NaiveShows
<1>2. SideOK(ys, s) /\ SideShows(ys, s, w)
  BY <1>1, SideRemove
<1>3. ys \in Seq(NaiveOrder) /\ Shifted(ys, b.q[s], k)
  BY <1>1, WithoutPlaces DEF SideOK
<1>4. i \in OrderIds /\ v.side[i] = s
  BY <1>1, SliceFields DEF SideShows
<1>5. c.q = [b.q EXCEPT ![s] = ys]
  BY DEF NaiveDrops
<1> HIDE DEF w, ys
<1>6. c.q[s] = ys /\ \A r \in Sides \ {s} : c.q[r] = b.q[r]
  BY <1>1, <1>5 DEF IsNaiveBook
<1>7. IsNaiveBook(c)
  BY <1>1, <1>3, <1>5 DEF IsNaiveBook, NaiveDrops
<1>8. \A r \in Sides \ {s} : SideOK(b.q[r], r) /\ SideShows(b.q[r], r, w)
  <2> HIDE DEF i
  <2> QED
    BY <1>4, OtherRemove DEF NaiveOK, NaiveShows, w
<1>9. ASSUME NEW r \in Sides, NEW m \in 1..Len(c.q[r])
      PROVE  \E a \in 1..Len(b.q[r]) : c.q[r][m].id = b.q[r][a].id /\ b.q[r][a].id # i
  <2>1. CASE r = s
    <3>1. m \in 1..Len(ys) /\ c.q[r][m] = ys[m]
      BY <1>6, <1>9, <2>1
    <3>2. PICK a \in 1..Len(b.q[s]) \ {k} : ys[m] = b.q[s][a]
      BY <1>3, <3>1 DEF Shifted
    <3>3. b.q[s][a].id # i
      BY <1>1 DEF SideOK
    <3> QED
      BY <2>1, <3>1, <3>2, <3>3
  <2>2. CASE r # s
    <3>1. v.side[b.q[r][m].id] = r /\ c.q[r] = b.q[r]
      BY <1>6, <1>9, <2>2 DEF NaiveShows, SideShows
    <3> QED
      BY <1>4, <1>9, <2>2, <3>1
  <2> QED
    BY <2>1, <2>2
<1>10. \A r \in Sides : \A a \in 1..Len(b.q[r]) : b.pos[b.q[r][a].id] # NoNode /\ b.q[r][a].id \in OrderIds
  BY SliceFields DEF NaiveOK
<1>11. \A r \in Sides : \A m \in 1..Len(c.q[r]) : c.pos[c.q[r][m].id] # NoNode
  <2> SUFFICES ASSUME NEW r \in Sides, NEW m \in 1..Len(c.q[r]) PROVE c.pos[c.q[r][m].id] # NoNode
    OBVIOUS
  <2>1. PICK a \in 1..Len(b.q[r]) : c.q[r][m].id = b.q[r][a].id /\ b.q[r][a].id # i
    BY <1>9
  <2>2. PICK j \in OrderIds : j = b.q[r][a].id /\ b.pos[j] # NoNode
    BY <1>10
  <2>3. c.pos[j] # NoNode
    BY <2>1, <2>2 DEF NaiveDrops
  <2> QED
    BY <2>1, <2>2, <2>3
<1>12. \A r \in Sides : SideOK(c.q[r], r) /\ SideShows(c.q[r], r, w)
  BY <1>2, <1>6, <1>8
<1> QED
  BY <1>7, <1>11, <1>12 DEF NaiveOK, NaiveShows, w

LEMMA NaiveBest ==
  ASSUME NEW b, NaiveOK(b), NEW v, IsView(v), NaiveShows(b, v), NEW s \in Sides
  PROVE  /\ b.q[s] # <<>> => 1 \in 1..Len(b.q[s]) /\ Head(b.q[s]) = b.q[s][1] /\ BestAt(v, s, b.q[s][1].price)
         /\ b.q[s] = <<>> => \A p : ~BestAt(v, s, p)
<1>1. SideOK(b.q[s], s) /\ SideShows(b.q[s], s, v) /\ b.q[s] \in Seq(NaiveOrder)
  BY DEF NaiveOK, NaiveShows, SideOK
<1>2. ASSUME b.q[s] # <<>>
      PROVE  1 \in 1..Len(b.q[s]) /\ Head(b.q[s]) = b.q[s][1] /\ BestAt(v, s, b.q[s][1].price)
  <2>1. 1 \in 1..Len(b.q[s]) /\ Head(b.q[s]) = b.q[s][1]
    BY <1>1, <1>2, TailIsWithout
  <2>2. v.side[b.q[s][1].id] = s /\ v.price[b.q[s][1].id] = b.q[s][1].price /\ b.q[s][1].id \in OrderIds
    BY <1>1, <2>1, SliceFields DEF SideShows
  <2>3. ASSUME NEW j \in OrderIds, v.side[j] = s PROVE AtLeast(s, b.q[s][1].price, v.price[j])
    <3>1. PICK k \in 1..Len(b.q[s]) : b.q[s][k].id = j
      BY <1>1, <2>3 DEF SideShows
    <3>2. v.price[j] = b.q[s][k].price
      BY <1>1, <3>1 DEF SideShows
    <3>3. k = 1 \/ 1 < k
      BY <3>1
    <3>4. AtLeast(s, b.q[s][1].price, b.q[s][1].price)
      BY <1>1, <2>1, SliceFields, AtLeastOrder
    <3> QED
      BY <1>1, <2>1, <3>1, <3>2, <3>3, <3>4 DEF SideOK
  <2> QED
    BY <2>1, <2>2, <2>3 DEF BestAt
<1>3. ASSUME b.q[s] = <<>>, NEW p, BestAt(v, s, p) PROVE FALSE
  <2>1. PICK i \in OrderIds : v.side[i] = s
    BY <1>3 DEF BestAt
  <2>2. PICK k \in 1..Len(b.q[s]) : b.q[s][k].id = i
    BY <1>1, <2>1 DEF SideShows
  <2>3. Len(b.q[s]) = 0
    BY <1>3, EmptySeq
  <2> QED
    BY <2>2, <2>3
<1> QED
  BY <1>2, <1>3

LEMMA NaiveCanTrade ==
  ASSUME NEW b, NaiveOK(b), NEW v, IsView(v), NaiveShows(b, v), NEW t \in Order, t.side \in Sides
  PROVE  NaiveCanMatch(b, t) <=> CanTrade(v, t)
<1> DEFINE s == Opp(t.side)
<1>1. s \in Sides
  BY SideFacts
<1>2. CASE b.q[s] = <<>>
  BY <1>1, <1>2, NaiveBest DEF NaiveCanMatch, CanTrade
<1>3. CASE b.q[s] # <<>>
  <2>1. Head(b.q[s]) = b.q[s][1] /\ BestAt(v, s, b.q[s][1].price)
    BY <1>1, <1>3, NaiveBest
  <2>2. b.q[s][1].price \in Int /\ \A p : BestAt(v, s, p) => p = b.q[s][1].price
    BY <1>1, <2>1, BestAtUnique
  <2> QED
    BY <1>3, <2>1, <2>2 DEF NaiveCanMatch, CanTrade
<1> QED
  BY <1>2, <1>3

LEMMA NaiveReduce ==
  ASSUME NEW b, NaiveOK(b), NEW v, IsView(v), NaiveShows(b, v), NEW s \in Sides, 1 \in 1..Len(b.q[s]),
         NEW x \in Nat, x < b.q[s][1].qty
  PROVE  /\ NaiveOK([b EXCEPT !.q[s][1].qty = b.q[s][1].qty - x])
         /\ NaiveShows([b EXCEPT !.q[s][1].qty = b.q[s][1].qty - x], ViewReduce(v, b.q[s][1].id, x))
<1> DEFINE i == b.q[s][1].id
           w == ViewReduce(v, i, x)
           ys == [b.q[s] EXCEPT ![1].qty = b.q[s][1].qty - x]
           c == [b EXCEPT !.q[s][1].qty = b.q[s][1].qty - x]
<1>1. SideOK(b.q[s], s) /\ SideShows(b.q[s], s, v) /\ IsNaiveBook(b)
  BY DEF NaiveOK, NaiveShows
<1>2. SideOK(ys, s) /\ SideShows(ys, s, w)
  BY <1>1, SideReduce
<1>3. ys \in Seq(NaiveOrder)
  BY <1>2 DEF SideOK
<1>4. i \in OrderIds /\ v.side[i] = s
  BY <1>1, SliceFields DEF SideShows
<1>5. c = [b EXCEPT !.q[s] = ys]
  OBVIOUS
<1>a. Len(ys) = Len(b.q[s]) /\ \A k \in 1..Len(b.q[s]) : ys[k].id = b.q[s][k].id
  <2>1. b.q[s] \in Seq(NaiveOrder) /\ Len(b.q[s]) \in Nat
    BY <1>1, LenProperties DEF SideOK
  <2>2. DOMAIN ys = 1..Len(b.q[s])
    BY <2>1
  <2>3. Len(ys) = Len(b.q[s])
    BY <1>3, <2>1, <2>2, LenProperties
  <2>4. \A k \in 1..Len(b.q[s]) : ys[k].id = b.q[s][k].id
    <3> SUFFICES ASSUME NEW k \in 1..Len(b.q[s]) PROVE ys[k].id = b.q[s][k].id
      OBVIOUS
    <3>1. b.q[s][k] \in NaiveOrder
      BY <1>1, SliceFields
    <3>2. CASE k # 1
      BY <2>1, <3>2
    <3>3. CASE k = 1
      BY <2>1, <3>1, <3>3 DEF NaiveOrder
    <3> QED
      BY <3>2, <3>3
  <2> QED
    BY <2>3, <2>4
<1> HIDE DEF w, ys, c
<1>6. IsNaiveBook(c) /\ c.q = [b.q EXCEPT ![s] = ys] /\ c.pos = b.pos
  BY <1>1, <1>3, <1>5 DEF IsNaiveBook
<1>7. c.q[s] = ys /\ \A r \in Sides \ {s} : c.q[r] = b.q[r]
  BY <1>1, <1>6 DEF IsNaiveBook
<1>8. \A r \in Sides \ {s} : SideOK(b.q[r], r) /\ SideShows(b.q[r], r, w)
  <2> HIDE DEF i
  <2> QED
    BY <1>4, OtherReduce DEF NaiveOK, NaiveShows, w
<1>9. \A r \in Sides : SideOK(c.q[r], r) /\ SideShows(c.q[r], r, w)
  BY <1>2, <1>7, <1>8
<1>10. ASSUME NEW r \in Sides, NEW m \in 1..Len(c.q[r]) PROVE c.pos[c.q[r][m].id] # NoNode
  <2>1. m \in 1..Len(b.q[r]) /\ c.q[r][m].id = b.q[r][m].id
    <3>1. CASE r = s
      BY <1>7, <1>a, <1>10, <3>1
    <3>2. CASE r # s
      BY <1>7, <1>10, <3>2
    <3> QED
      BY <3>1, <3>2
  <2> QED
    BY <1>6, <2>1 DEF NaiveOK
<1>11. NaiveOK(c) /\ NaiveShows(c, w)
  BY <1>6, <1>9, <1>10 DEF NaiveOK, NaiveShows
<1> QED
  BY <1>11 DEF c, w

LEMMA NaiveTrade ==
  ASSUME NEW b, NaiveOK(b), NEW v, IsView(v), NaiveShows(b, v), NEW t \in Order, t.side \in Sides,
         NaiveCanMatch(b, t)
  PROVE  \E m \in OrderIds : /\ FirstAt(v, Opp(t.side), m)
                             /\ NaiveExec(b, t) = Traded(v, t, m)
                             /\ NaiveOK(NaiveMatchOne(b, t))
                             /\ NaiveShows(NaiveMatchOne(b, t), ViewTrade(v, t, m))
<1> DEFINE s == Opp(t.side)
           m == b.q[s][1].id
           x == NaiveExec(b, t)
           c == NaiveMatchOne(b, t)
<1>0. s \in Sides
  BY SideFacts
<1>1. b.q[s] # <<>>
  BY DEF NaiveCanMatch
<1>2. 1 \in 1..Len(b.q[s]) /\ Head(b.q[s]) = b.q[s][1] /\ BestAt(v, s, b.q[s][1].price)
  BY <1>0, <1>1, NaiveBest
<1>3. SideOK(b.q[s], s) /\ SideShows(b.q[s], s, v) /\ IsNaiveBook(b) /\ b.q[s] \in Seq(NaiveOrder)
  BY <1>0 DEF NaiveOK, NaiveShows, SideOK
<1>4. b.q[s][1].qty \in Nat \ {0} /\ m \in OrderIds
  BY <1>2, <1>3, SliceFields
<1>5. /\ v.side[m] = s /\ v.price[m] = b.q[s][1].price /\ v.qty[m] = b.q[s][1].qty
      /\ \A j \in OrderIds : j \in v.ahead[m] <=> Before(b.q[s], j, 1)
  BY <1>2, <1>3 DEF SideShows
<1>6. FirstAt(v, s, m)
  <2>1. \A j : ~Before(b.q[s], j, 1)
    BY DEF Before
  <2>2. v.ahead[m] \in SUBSET OrderIds
    BY <1>4 DEF IsView
  <2>3. v.ahead[m] = {}
    BY <1>5, <2>1, <2>2, Zenon
  <2> QED
    BY <1>2, <1>4, <1>5, <2>3, Zenon DEF FirstAt
<1>7. x = IF t.qty < b.q[s][1].qty THEN t.qty ELSE b.q[s][1].qty
  BY <1>2 DEF NaiveExec
<1>8. c = IF x = b.q[s][1].qty THEN [b EXCEPT !.q[s] = Tail(b.q[s])]
          ELSE [b EXCEPT !.q[s][1].qty = b.q[s][1].qty - x]
  BY <1>2 DEF NaiveMatchOne
<1>9. t.qty \in Nat
  BY BoundAssumption DEF Order
<1>10. x = Traded(v, t, m)
  BY <1>5, <1>7 DEF Traded
<1> HIDE DEF s, x, c
<1>11. x \in Nat /\ x <= b.q[s][1].qty
  BY <1>4, <1>7, <1>9
<1>12. NaiveOK(c) /\ NaiveShows(c, ViewTrade(v, t, m))
  <2>1. CASE x < b.q[s][1].qty
    <3>1. c = [b EXCEPT !.q[s][1].qty = b.q[s][1].qty - x]
      BY <1>4, <1>8, <1>11, <2>1
    <3>2. NaiveOK(c) /\ NaiveShows(c, ViewReduce(v, m, x))
      BY <1>0, <1>2, <1>11, <2>1, <3>1, NaiveReduce
    <3> QED
      BY <1>5, <1>10, <2>1, <3>2 DEF ViewTrade
  <2>2. CASE ~(x < b.q[s][1].qty)
    <3>0. x = b.q[s][1].qty
      BY <1>4, <1>11, <2>2
    <3>1. c = [b EXCEPT !.q[s] = Tail(b.q[s])] /\ Tail(b.q[s]) = Without(b.q[s], 1)
      BY <1>1, <1>3, <1>8, <3>0, TailIsWithout
    <3>2. c.q = [b.q EXCEPT ![s] = Without(b.q[s], 1)] /\ c.pos = b.pos /\ DOMAIN c = {"q", "pos"}
      BY <1>3, <3>1 DEF IsNaiveBook
    <3>3. NaiveDrops(b, c, s, 1)
      BY <1>3, <3>2 DEF NaiveDrops, IsNaiveBook
    <3>4. NaiveOK(c) /\ NaiveShows(c, ViewRemove(v, m))
      BY <1>0, <1>2, <3>3, NaiveRemove
    <3> QED
      BY <1>5, <1>10, <2>2, <3>4 DEF ViewTrade
  <2> QED
    BY <2>1, <2>2
<1> QED
  BY <1>4, <1>6, <1>10, <1>12 DEF s, x, c

LEMMA NaiveCancelled ==
  ASSUME NEW b, NaiveOK(b), NEW v, IsView(v), NaiveShows(b, v), NEW i \in OrderIds
  PROVE  NaiveOK(NaiveCancel(b, i)) /\ NaiveShows(NaiveCancel(b, i), ViewCancel(v, i))
<1> DEFINE at(s) == {k \in 1..Len(b.q[s]) : b.q[s][k].id = i}
           first(s) == CHOOSE k \in at(s) : \A j \in at(s) : k <= j
           c == NaiveCancel(b, i)
<1>1. c = CASE at(Buy) # {}  -> [b EXCEPT !.q[Buy] = RemoveAt(b.q[Buy], first(Buy))]
            [] at(Sell) # {} -> [b EXCEPT !.q[Sell] = RemoveAt(b.q[Sell], first(Sell))]
            [] OTHER         -> b
  BY DEF NaiveCancel
<1>2. \A s \in Sides : at(s) # {} <=> v.side[i] = s
  <2> SUFFICES ASSUME NEW s \in Sides PROVE at(s) # {} <=> v.side[i] = s
    OBVIOUS
  <2>1. s # 0
    BY SideFacts
  <2> QED
    BY <2>1, NaiveHas
<1>3. Buy \in Sides /\ Sell \in Sides /\ Buy # Sell /\ Buy # 0 /\ Sell # 0
  BY SideFacts
<1>4. v.side[i] = 0 \/ v.side[i] = Buy \/ v.side[i] = Sell
  BY DEF IsView, Sides
<1>5. \A s \in Sides : at(s) # {} => first(s) \in at(s)
  <2> SUFFICES ASSUME NEW s \in Sides, at(s) # {} PROVE first(s) \in at(s)
    OBVIOUS
  <2>1. at(s) \subseteq Nat
    OBVIOUS
  <2>2. \E k \in at(s) : \A j \in at(s) : k <= j
    BY <2>1, LeastNatural
  <2> HIDE DEF at
  <2> QED
    BY <2>2
<1>6. ASSUME NEW s \in Sides, v.side[i] = s, NEW k \in at(s), c = [b EXCEPT !.q[s] = RemoveAt(b.q[s], k)]
      PROVE  NaiveOK(c) /\ NaiveShows(c, ViewCancel(v, i))
  <2>1. k \in 1..Len(b.q[s]) /\ b.q[s][k].id = i
    OBVIOUS
  <2>2. b.q[s] \in Seq(NaiveOrder) /\ IsNaiveBook(b)
    BY DEF NaiveOK, SideOK
  <2>3. RemoveAt(b.q[s], k) = Without(b.q[s], k)
    BY <2>1, <2>2, RemoveAtIsWithout
  <2> HIDE DEF c
  <2>4. c.q = [b.q EXCEPT ![s] = Without(b.q[s], k)] /\ c.pos = b.pos /\ DOMAIN c = {"q", "pos"}
    BY <1>6, <2>2, <2>3 DEF IsNaiveBook
  <2>5. NaiveDrops(b, c, s, k)
    BY <2>2, <2>4 DEF NaiveDrops, IsNaiveBook
  <2>6. NaiveOK(c) /\ NaiveShows(c, ViewRemove(v, b.q[s][k].id))
    BY <2>1, <2>5, NaiveRemove
  <2>7. s # 0
    BY SideFacts
  <2> QED
    BY <1>6, <2>1, <2>6, <2>7 DEF ViewCancel
<1> HIDE DEF at, first, c
<1>7. CASE v.side[i] = 0
  <2>1. c = b
    BY <1>1, <1>2, <1>3, <1>7
  <2> QED
    BY <1>7, <2>1 DEF ViewCancel, c
<1>8. CASE v.side[i] = Buy
  <2>1. c = [b EXCEPT !.q[Buy] = RemoveAt(b.q[Buy], first(Buy))]
    BY <1>1, <1>2, <1>3, <1>8
  <2> QED
    BY <1>2, <1>3, <1>5, <1>6, <1>8, <2>1 DEF c
<1>9. CASE v.side[i] = Sell
  <2>1. c = [b EXCEPT !.q[Sell] = RemoveAt(b.q[Sell], first(Sell))]
    BY <1>1, <1>2, <1>3, <1>9
  <2> QED
    BY <1>2, <1>3, <1>5, <1>6, <1>9, <2>1 DEF c
<1> QED
  BY <1>4, <1>7, <1>8, <1>9

\* Cancel2, where it finds the order at the index it has.
LEMMA NaiveCancelled2 ==
  ASSUME NEW b, NaiveOK(b), NEW v, IsView(v), NaiveShows(b, v), NEW i \in OrderIds,
         b.pos[i] # NoNode => ~Cancel2Panics(b, i) /\ b.q[b.pos[i].side][b.pos[i].index + 1].id = i
  PROVE  NaiveOK(Cancel2(b, i)) /\ NaiveShows(Cancel2(b, i), ViewCancel(v, i))
<1>0. IsNaiveBook(b)
  BY DEF NaiveOK
<1>1. CASE b.pos[i] = NoNode
  <2>1. v.side[i] = 0
    <3>1. \A s \in Sides : \A k \in 1..Len(b.q[s]) : b.q[s][k].id # i
      BY <1>1 DEF NaiveOK
    <3>2. v.side[i] \in {0} \cup Sides
      BY DEF IsView
    <3> QED
      BY <3>1, <3>2, NaiveHas
  <2> QED
    BY <1>1, <2>1 DEF Cancel2, ViewCancel
<1>2. CASE b.pos[i] # NoNode
  <2> DEFINE s == b.pos[i].side
             k == b.pos[i].index
             r == RemoveAt(b.q[s], k + 1)
             P == [j \in OrderIds |->
                     IF j = i THEN NoNode
                     ELSE IF \E n \in (k + 1)..Len(r) : r[n].id = j
                          THEN [side |-> s, index |-> (CHOOSE n \in (k + 1)..Len(r) : r[n].id = j) - 1]
                          ELSE b.pos[j]]
             c == Cancel2(b, i)
  <2>1. s \in Sides /\ k \in Nat
    BY <1>0, <1>2 DEF IsNaiveBook, Slot
  <2>2. b.q[s] \in Seq(NaiveOrder) /\ Len(b.q[s]) \in Nat
    BY <2>1, LenProperties DEF NaiveOK, SideOK
  <2>3. ~(k >= Len(b.q[s])) /\ b.q[s][k + 1].id = i
    BY <1>2 DEF Cancel2Panics
  <2>4. c = [q |-> [b.q EXCEPT ![s] = r], pos |-> P]
    BY <1>2 DEF Cancel2
  <2> HIDE DEF s, k, c, P, r
  <2>5. PICK m \in 1..Len(b.q[s]) : m = k + 1
    BY <2>1, <2>2, <2>3
  <2>6. r = Without(b.q[s], m) /\ Len(r) \in Nat
    <3>1. r = Without(b.q[s], m)
      BY <2>2, <2>5, RemoveAtIsWithout DEF r
    <3>2. Without(b.q[s], m) \in Seq(NaiveOrder)
      BY <2>2, WithoutPlaces
    <3> QED
      BY <3>1, <3>2, LenProperties
  <2>7. ASSUME NEW j \in OrderIds, j # i
        PROVE  P[j] \in Slot \cup {NoNode} /\ (b.pos[j] # NoNode => P[j] # NoNode)
    <3>1. CASE \E n \in (k + 1)..Len(r) : r[n].id = j
      <4> DEFINE a == CHOOSE n \in (k + 1)..Len(r) : r[n].id = j
      <4>1. a \in (k + 1)..Len(r)
        BY <3>1
      <4>2. P[j] = [side |-> s, index |-> a - 1]
        BY <2>7, <3>1 DEF P
      <4> HIDE DEF a
      <4>3. a - 1 \in Nat
        BY <2>1, <2>6, <4>1
      <4>4. P[j] \in Slot
        BY <2>1, <4>2, <4>3 DEF Slot
      <4> QED
        BY <4>4, NilsAssumption
    <3>2. CASE ~\E n \in (k + 1)..Len(r) : r[n].id = j
      <4>1. P[j] = b.pos[j]
        BY <2>7, <3>2 DEF P
      <4> QED
        BY <1>0, <4>1 DEF IsNaiveBook
    <3> QED
      BY <3>1, <3>2
  <2>8. P \in [OrderIds -> Slot \cup {NoNode}]
    <3>1. P[i] = NoNode
      BY DEF P
    <3>2. \A j \in OrderIds : P[j] \in Slot \cup {NoNode}
      BY <2>7, <3>1, Zenon
    <3>3. P = [j \in OrderIds |-> P[j]]
      BY DEF P
    <3> QED
      BY <3>2, <3>3
  <2>9. c.q = [b.q EXCEPT ![s] = Without(b.q[s], m)] /\ c.pos = P /\ DOMAIN c = {"q", "pos"}
    BY <2>4, <2>6
  <2>10. b.q[s][m].id = i
    BY <2>3, <2>5
  <2>11. NaiveDrops(b, c, s, m)
    BY <2>7, <2>8, <2>9, <2>10 DEF NaiveDrops
  <2>12. NaiveOK(c) /\ NaiveShows(c, ViewRemove(v, i))
    BY <2>1, <2>5, <2>10, <2>11, NaiveRemove
  <2>13. v.side[i] = s /\ s # 0
    <3>1. s # 0
      BY <2>1, SideFacts
    <3> QED
      BY <2>1, <2>5, <2>10, <3>1, NaiveHas
  <2> QED
    BY <2>12, <2>13 DEF ViewCancel, c
<1> QED
  BY <1>1, <1>2

-----------------------------------------------------------------------------
(* What a view says of the queues and the best prices *)

\* ids are the orders of price p on side s, in time order.
IsQueue(ids, v, s, p) ==
  /\ ids \in Seq(OrderIds) /\ Once(ids)
  /\ \A i \in OrderIds : Has(ids, i) <=> v.side[i] = s /\ v.price[i] = p
  /\ \A i, j \in OrderIds : Has(ids, i) /\ Has(ids, j) => (InFront(ids, i, j) <=> i \in v.ahead[j])

LEMMA OneQueue ==
  ASSUME NEW v, NEW s, NEW p, NEW xs, NEW ys, IsQueue(xs, v, s, p), IsQueue(ys, v, s, p)
  PROVE  xs = ys
<1>1. xs \in Seq(OrderIds) /\ ys \in Seq(OrderIds) /\ Once(xs) /\ Once(ys)
  BY DEF IsQueue
<1>2. \A i : Has(xs, i) \/ Has(ys, i) => i \in OrderIds
  BY <1>1, ElementOfSeq DEF Has
<1>3. \A i : Has(xs, i) <=> Has(ys, i)
  BY <1>2, Zenon DEF IsQueue
<1>4. \A i, j : Has(xs, i) /\ Has(xs, j) => (InFront(xs, i, j) <=> InFront(ys, i, j))
  BY <1>2, <1>3 DEF IsQueue
<1> QED
  BY <1>1, <1>3, <1>4, OneOrdering

LEMMA NoQueue ==
  ASSUME NEW v, NEW s, NEW p, \A i \in OrderIds : ~(v.side[i] = s /\ v.price[i] = p)
  PROVE  IsQueue(<<>>, v, s, p)
<1>0. 1..Len(<<>>) = {}
  OBVIOUS
<1>1. \A i : ~Has(<<>>, i)
  BY <1>0, Zenon DEF Has
<1>2. Once(<<>>) /\ <<>> \in Seq(OrderIds)
  BY <1>0 DEF Once
<1> QED
  BY <1>1, <1>2 DEF IsQueue

LEMMA LevelQueue ==
  ASSUME NEW b, LevelOK(b), NEW v, IsView(v), LevelShows(b, v), NEW s \in Sides, NEW p \in Prices
  PROVE  /\ IsQueue(b.q[s][p], v, s, p)
         /\ \A k \in 1..Len(b.q[s][p]) : b.byID[b.q[s][p][k]].qty = v.qty[b.q[s][p][k]]
<1> DEFINE ids == b.q[s][p]
<1>0. IsLevelBook(b) /\ Filed(b)
  BY DEF LevelOK
<1>1. ids \in Seq(OrderIds) /\ Once(ids)
  BY <1>0, LevelFields DEF Filed
<1>2. \A i \in OrderIds : Has(ids, i) => Listed(b, i) /\ b.byID[i].side = s /\ b.byID[i].price = p
  BY <1>0 DEF Filed
<1>3. s # 0
  BY SideFacts
<1>4. ASSUME NEW i \in OrderIds, v.side[i] = s, v.price[i] = p PROVE Has(ids, i)
  <2>1. Listed(b, i) /\ b.byID[i].side = s /\ b.byID[i].price = p
    BY <1>3, <1>4 DEF LevelShows
  <2>2. Has(b.q[b.byID[i].side][b.byID[i].price], i)
    BY <1>0, <2>1 DEF Filed
  <2> QED
    BY <2>1, <2>2
<1>5. ASSUME NEW j \in OrderIds, Has(ids, j)
      PROVE  /\ v.side[j] = s /\ v.price[j] = p /\ v.qty[j] = b.byID[j].qty
             /\ \A i \in OrderIds : InFront(ids, i, j) <=> i \in v.ahead[j]
  BY <1>2, <1>5 DEF LevelShows
<1>6. \A k \in 1..Len(ids) : ids[k] \in OrderIds /\ Has(ids, ids[k])
  BY <1>1, ElementOfSeq DEF Has
<1> QED
  BY <1>1, <1>4, <1>5, <1>6 DEF IsQueue

HeapIds(b, s, p) == IF Live(b, s, p) THEN b.q[b.lvl[s][p]] ELSE <<>>

LEMMA HeapQueue ==
  ASSUME NEW b, IsBook(b), Indexed(b), Placed(b), NEW v, IsView(v), HeapShows(b, v),
         NEW s \in Sides, NEW p \in Prices
  PROVE  /\ IsQueue(HeapIds(b, s, p), v, s, p)
         /\ \A k \in 1..Len(HeapIds(b, s, p)) : b.node[HeapIds(b, s, p)[k]].qty = v.qty[HeapIds(b, s, p)[k]]
<1>0. s # 0
  BY SideFacts
<1>1. ASSUME NEW i \in OrderIds, v.side[i] = s, v.price[i] = p
      PROVE  /\ i \in Resting(b) /\ b.node[i].lv = b.lvl[s][p] /\ b.node[i].lv \in LvIds
             /\ Has(b.q[b.lvl[s][p]], i)
  <2>1. i \in Resting(b) /\ b.node[i].side = s /\ b.node[i].price = p
    BY <1>0, <1>1 DEF HeapShows, Resting
  <2>2. b.node[i].lv = b.lvl[s][p] /\ b.node[i].lv \in LvIds
    BY <2>1, RestingFields DEF Placed
  <2>3. Has(b.q[b.node[i].lv], i)
    BY <2>1, <2>2, IndexedLists
  <2> QED
    BY <2>1, <2>2, <2>3
<1>2. CASE Live(b, s, p)
  <2> DEFINE l == b.lvl[s][p]
             ids == b.q[l]
  <2>1. l \in LvIds
    BY <1>2, BookFields DEF Live
  <2>2. /\ ids \in Seq(OrderIds) /\ Once(ids)
        /\ \A i \in OrderIds : Has(ids, i) <=> i \in Resting(b) /\ b.node[i].lv = l
    BY <2>1, IndexedLists
  <2>3. ASSUME NEW j \in OrderIds, Has(ids, j)
        PROVE  /\ v.side[j] = s /\ v.price[j] = p /\ v.qty[j] = b.node[j].qty
               /\ \A i \in OrderIds : InFront(ids, i, j) <=> i \in v.ahead[j]
    <3>1. j \in Resting(b) /\ b.node[j].lv = l /\ b.node[j].side = s /\ b.node[j].price = p
      BY <2>2, <2>3 DEF Placed
    <3> QED
      BY <3>1 DEF HeapShows, Resting
  <2>4. \A i \in OrderIds : v.side[i] = s /\ v.price[i] = p => Has(ids, i)
    BY <1>1
  <2>5. \A k \in 1..Len(ids) : ids[k] \in OrderIds /\ Has(ids, ids[k])
    BY <2>2, ElementOfSeq DEF Has
  <2>6. IsQueue(ids, v, s, p)
    BY <2>2, <2>3, <2>4 DEF IsQueue
  <2>7. \A k \in 1..Len(ids) : b.node[ids[k]].qty = v.qty[ids[k]]
    BY <2>3, <2>5
  <2> QED
    BY <1>2, <2>6, <2>7, Zenon DEF HeapIds
<1>3. CASE ~Live(b, s, p)
  <2>1. \A i \in OrderIds : ~(v.side[i] = s /\ v.price[i] = p)
    <3> SUFFICES ASSUME NEW i \in OrderIds, v.side[i] = s, v.price[i] = p PROVE FALSE
      OBVIOUS
    <3>1. /\ i \in Resting(b) /\ b.node[i].lv = b.lvl[s][p] /\ b.node[i].lv \in LvIds
          /\ Has(b.q[b.lvl[s][p]], i)
      BY <1>1
    <3>2. b.q[b.lvl[s][p]] # <<>>
      BY <3>1, EmptySeq DEF Has
    <3> QED
      BY <1>3, <3>1, <3>2, NilAssumption DEF Live
  <2>2. IsQueue(<<>>, v, s, p)
    BY <2>1, NoQueue
  <2>3. 1..Len(<<>>) = {}
    OBVIOUS
  <2> QED
    BY <1>3, <2>2, <2>3 DEF HeapIds
<1> QED
  BY <1>2, <1>3

LEMMA GreatestPlace ==
  ASSUME NEW n \in Nat, NEW A \in SUBSET (1..n), A # {}
  PROVE  \E k \in A : \A j \in A : j <= k
<1> DEFINE T == {y \in Nat : n - y \in A}
<1>1. T # {}
  <2>1. PICK k \in A : TRUE
    OBVIOUS
  <2>2. n - k \in Nat /\ n - (n - k) = k
    BY <2>1
  <2> QED
    BY <2>1, <2>2
<1>2. PICK y \in T : \A z \in T : y <= z
  BY <1>1, LeastNatural
<1>3. y \in Nat /\ n - y \in A
  BY <1>2
<1>4. ASSUME NEW j \in A PROVE j <= n - y
  <2>1. j \in Int /\ n - j \in Nat /\ n - (n - j) = j
    OBVIOUS
  <2>2. n - j \in T
    BY <2>1
  <2> QED
    BY <1>2, <1>3, <2>1, <2>2
<1> QED
  BY <1>3, <1>4

\* at is the part of xs from its first order of price p to its last, and has them all.
IsStretch(at, xs, p, a, z) ==
  /\ a \in 1..Len(xs) /\ z \in 1..Len(xs) /\ a <= z
  /\ at \in Seq(NaiveOrder) /\ Len(at) = z - a + 1
  /\ \A i \in 1..Len(at) : at[i] = xs[a + i - 1] /\ at[i].price = p /\ a + i - 1 \in 1..Len(xs)
  /\ \A k \in 1..Len(xs) : xs[k].price = p => k - a + 1 \in 1..Len(at)

LEMMA StretchPlaces ==
  ASSUME NEW s \in Sides, NEW xs, SideOK(xs, s), NEW p \in Prices, NEW f \in 1..Len(xs), xs[f].price = p
  PROVE  \E a, z : IsStretch(Stretch(xs, p), xs, p, a, z)
<1> DEFINE n == Len(xs)
           A == {k \in 1..n : xs[k].price = p}
           a == Min(A)
           z == Max(A)
           at == SubSeq(xs, a, z)
<1>0. /\ n \in Nat /\ xs \in Seq(NaiveOrder)
      /\ \A k \in 1..n : xs[k] \in NaiveOrder /\ xs[k].price \in Prices
      /\ \A k, m \in 1..n : k < m => AtLeast(s, xs[k].price, xs[m].price)
  BY SliceFields DEF SideOK
<1>1. A # {} /\ A \in SUBSET (1..n) /\ A \in SUBSET Nat
  OBVIOUS
<1>2. \A k \in 1..n : k \in A <=> xs[k].price = p
  OBVIOUS
<1>3. Stretch(xs, p) = at
  BY <1>1 DEF Stretch
<1> HIDE DEF A, n
<1>4. a \in A /\ \A k \in A : a <= k
  <2>1. \E x \in A : \A y \in A : x <= y
    BY <1>1, LeastNatural
  <2> QED
    BY <2>1 DEF Min
<1>5. z \in A /\ \A k \in A : z >= k
  <2>1. PICK x \in A : \A y \in A : y <= x
    BY <1>0, <1>1, GreatestPlace
  <2>2. \A y \in A : x >= y
    BY <1>1, <2>1
  <2> QED
    BY <2>2 DEF Max
<1> HIDE DEF a, z
<1>6. a \in 1..n /\ z \in 1..n /\ a <= z /\ xs[a].price = p /\ xs[z].price = p
  BY <1>1, <1>2, <1>4, <1>5
<1>7. ASSUME NEW k \in a..z PROVE k \in 1..n /\ xs[k].price = p /\ xs[k] \in NaiveOrder
  <2>1. k \in 1..n
    BY <1>0, <1>6
  <2>2. AtLeast(s, p, xs[k].price) /\ AtLeast(s, xs[k].price, p)
    <3>1. AtLeast(s, p, p)
      BY AtLeastOrder
    <3>2. k = a \/ a < k
      BY <1>6
    <3>3. k = z \/ k < z
      BY <1>6
    <3>4. AtLeast(s, p, xs[k].price)
      BY <1>0, <1>6, <2>1, <3>1, <3>2
    <3>5. AtLeast(s, xs[k].price, p)
      BY <1>0, <1>6, <2>1, <3>1, <3>3
    <3> QED
      BY <3>4, <3>5
  <2> QED
    BY <1>0, <2>1, <2>2, AtLeastOrder
<1>8. at \in Seq(NaiveOrder) /\ Len(at) = z - a + 1 /\ \A i \in 1..(z - a + 1) : at[i] = xs[a + i - 1]
  <2>1. a \in Int /\ z \in Int /\ \A i \in a..z : xs[i] \in NaiveOrder
    BY <1>6, <1>7
  <2>2. /\ at \in Seq(NaiveOrder) /\ Len(at) = IF a <= z THEN z - a + 1 ELSE 0
        /\ \A i \in 1..(z - a + 1) : at[i] = xs[a + i - 1]
    BY <2>1, SubSeqProperties
  <2> HIDE DEF at
  <2> QED
    BY <1>6, <2>2
<1> HIDE DEF at
<1>9. ASSUME NEW i \in 1..Len(at) PROVE at[i] = xs[a + i - 1] /\ at[i].price = p /\ a + i - 1 \in 1..n
  <2>1. i \in 1..(z - a + 1) /\ a + i - 1 \in a..z
    BY <1>6, <1>8
  <2> QED
    BY <1>7, <1>8, <2>1
<1>10. ASSUME NEW k \in 1..n, xs[k].price = p PROVE k - a + 1 \in 1..Len(at)
  <2>1. a <= k /\ k <= z
    BY <1>1, <1>2, <1>4, <1>5, <1>10
  <2> QED
    BY <1>6, <1>8, <2>1
<1>11. IsStretch(at, xs, p, a, z)
  BY <1>6, <1>8, <1>9, <1>10 DEF IsStretch, n
<1> QED
  BY <1>3, <1>11

\* The ids of a slice of orders.
IdsOf(at) == [k \in 1..Len(at) |-> at[k].id]

LEMMA NoStretch ==
  ASSUME NEW xs, NEW p, \A k \in 1..Len(xs) : xs[k].price # p
  PROVE  Stretch(xs, p) = <<>>
<1>1. {k \in 1..Len(xs) : xs[k].price = p} = {}
  OBVIOUS
<1> QED
  BY <1>1 DEF Stretch

LEMMA SideQueue ==
  ASSUME NEW s \in Sides, NEW xs, SideOK(xs, s), NEW v, IsView(v), SideShows(xs, s, v), NEW p \in Prices
  PROVE  LET at == Stretch(xs, p)
         IN  /\ at \in Seq(NaiveOrder) /\ IsQueue(IdsOf(at), v, s, p)
             /\ \A k \in 1..Len(at) : at[k].qty = v.qty[at[k].id]
<1> DEFINE at == Stretch(xs, p)
           ids == IdsOf(at)
           n == Len(xs)
<1>0. n \in Nat /\ \A k \in 1..n : xs[k].id \in OrderIds
  BY SliceFields
<1>1. ASSUME NEW i \in OrderIds, v.side[i] = s, v.price[i] = p
      PROVE  \E k \in 1..n : xs[k].id = i /\ xs[k].price = p
  BY <1>1 DEF SideShows
<1>2. ASSUME \A k \in 1..n : xs[k].price # p
      PROVE  /\ at \in Seq(NaiveOrder) /\ IsQueue(ids, v, s, p)
             /\ \A k \in 1..Len(at) : at[k].qty = v.qty[at[k].id]
  <2>1. at = <<>>
    BY <1>2, NoStretch
  <2>2. 1..Len(at) = {} /\ at \in Seq(NaiveOrder)
    BY <2>1
  <2>3. ids = <<>>
    BY <2>2 DEF IdsOf
  <2>4. IsQueue(<<>>, v, s, p)
    BY <1>1, <1>2, NoQueue
  <2> QED
    BY <2>2, <2>3, <2>4
<1>3. ASSUME NEW f \in 1..n, xs[f].price = p
      PROVE  /\ at \in Seq(NaiveOrder) /\ IsQueue(ids, v, s, p)
             /\ \A k \in 1..Len(at) : at[k].qty = v.qty[at[k].id]
  <2>1. PICK a, z : IsStretch(at, xs, p, a, z)
    BY <1>3, StretchPlaces
  <2> HIDE DEF at
  <2>2. /\ a \in 1..n /\ at \in Seq(NaiveOrder) /\ Len(at) \in Nat
        /\ \A i \in 1..Len(at) : at[i] = xs[a + i - 1] /\ at[i].price = p /\ a + i - 1 \in 1..n
        /\ \A k \in 1..n : xs[k].price = p => k - a + 1 \in 1..Len(at)
    BY <2>1, LenProperties DEF IsStretch
  <2>3. /\ ids \in Seq(OrderIds) /\ Len(ids) = Len(at)
        /\ \A i \in 1..Len(at) : ids[i] = at[i].id /\ ids[i] = xs[a + i - 1].id
    <3>1. \A i \in 1..Len(at) : at[i].id \in OrderIds
      BY <1>0, <2>2
    <3>2. ids \in Seq(OrderIds) /\ Len(ids) = Len(at)
      BY <2>2, <3>1, LenProperties DEF IdsOf
    <3> QED
      BY <2>2, <3>2 DEF IdsOf
  <2> HIDE DEF ids, n
  <2>4. ASSUME NEW k \in 1..n, xs[k].price = p
        PROVE  \E i \in 1..Len(at) : k = a + i - 1 /\ ids[i] = xs[k].id
    <3>1. PICK i \in 1..Len(at) : i = k - a + 1
      BY <2>2, <2>4
    <3>2. k = a + i - 1
      BY <2>2, <3>1, <1>0
    <3> QED
      BY <2>3, <3>2
  <2>5. Once(ids)
    <3> SUFFICES ASSUME NEW i \in 1..Len(at), NEW j \in 1..Len(at), ids[i] = ids[j] PROVE i = j
      BY <2>3 DEF Once
    <3>1. a + i - 1 = a + j - 1
      BY <2>2, <2>3 DEF SideOK, n
    <3> QED
      BY <2>2, <3>1, <1>0
  <2>6. ASSUME NEW i \in OrderIds PROVE Has(ids, i) <=> v.side[i] = s /\ v.price[i] = p
    <3>1. ASSUME Has(ids, i) PROVE v.side[i] = s /\ v.price[i] = p
      <4>1. PICK k \in 1..Len(at) : ids[k] = i
        BY <2>3, <3>1 DEF Has
      <4>2. PICK m \in 1..n : m = a + k - 1 /\ xs[m].id = i /\ xs[m].price = p
        BY <2>2, <2>3, <4>1
      <4> QED
        BY <4>2 DEF SideShows, n
    <3>2. ASSUME v.side[i] = s, v.price[i] = p PROVE Has(ids, i)
      <4>1. PICK k \in 1..n : xs[k].id = i /\ xs[k].price = p
        BY <1>1, <3>2
      <4> QED
        BY <2>3, <2>4, <4>1 DEF Has
    <3> QED
      BY <3>1, <3>2
  <2>7. ASSUME NEW i \in OrderIds, NEW j \in OrderIds, Has(ids, i), Has(ids, j)
        PROVE  InFront(ids, i, j) <=> i \in v.ahead[j]
    <3>1. PICK c \in 1..Len(at) : ids[c] = j
      BY <2>3, <2>7 DEF Has
    <3>2. PICK m \in 1..n : m = a + c - 1 /\ xs[m].id = j /\ xs[m].price = p
      BY <2>2, <2>3, <3>1
    <3>3. i \in v.ahead[j] <=> Before(xs, i, m)
      BY <3>2 DEF SideShows, n
    <3>4. ASSUME InFront(ids, i, j) PROVE Before(xs, i, m)
      <4>1. PICK d \in 1..Len(at), e \in 1..Len(at) : d < e /\ ids[d] = i /\ ids[e] = j
        BY <2>3, <3>4 DEF InFront
      <4>2. e = c
        BY <2>3, <2>5, <3>1, <4>1 DEF Once
      <4>3. PICK k \in 1..n : k = a + d - 1 /\ xs[k].id = i /\ xs[k].price = p
        BY <2>2, <2>3, <4>1
      <4>4. k < m
        BY <1>0, <2>2, <3>2, <4>1, <4>2, <4>3
      <4> QED
        BY <3>2, <4>3, <4>4 DEF Before, n
    <3>5. ASSUME Before(xs, i, m) PROVE InFront(ids, i, j)
      <4>1. PICK k \in 1..n : k < m /\ xs[k].id = i /\ xs[k].price = p
        BY <3>2, <3>5 DEF Before, n
      <4>2. PICK d \in 1..Len(at) : k = a + d - 1 /\ ids[d] = i
        BY <2>4, <4>1
      <4>3. d < c
        BY <1>0, <2>2, <3>2, <4>1, <4>2
      <4> QED
        BY <2>3, <3>1, <4>2, <4>3 DEF InFront
    <3> QED
      BY <3>3, <3>4, <3>5
  <2>8. \A k \in 1..Len(at) : at[k].qty = v.qty[at[k].id]
    <3> SUFFICES ASSUME NEW k \in 1..Len(at) PROVE at[k].qty = v.qty[at[k].id]
      OBVIOUS
    <3>1. PICK m \in 1..n : at[k] = xs[m]
      BY <2>2
    <3>2. v.qty[xs[m].id] = xs[m].qty
      BY <3>1 DEF SideShows, n
    <3> QED
      BY <3>1, <3>2
  <2> QED
    BY <2>2, <2>3, <2>5, <2>6, <2>7, <2>8 DEF IsQueue
<1>a. (\A k \in 1..n : xs[k].price # p) \/ \E k \in 1..n : xs[k].price = p
  OBVIOUS
<1> HIDE DEF at, ids, n
<1>4. /\ at \in Seq(NaiveOrder) /\ IsQueue(ids, v, s, p)
      /\ \A k \in 1..Len(at) : at[k].qty = v.qty[at[k].id]
  <2>1. CASE \E k \in 1..n : xs[k].price = p
    <3>1. PICK f \in 1..n : xs[f].price = p
      BY <2>1
    <3> QED
      BY <1>3, <3>1
  <2> QED
    BY <1>2, <1>a, <2>1
<1> QED
  BY <1>4 DEF at, ids

-----------------------------------------------------------------------------
(* The three books side by side *)

\* v is what every book shows that nothing has struck, ...
Shown(v) ==
  /\ IsView(v)
  /\ ~misplaced => HeapShows(book, v)
  /\ "level" \in sound => LevelOK(level) /\ LevelShows(level, v)
  /\ "naive" \in sound => NaiveOK(naive) /\ NaiveShows(naive, v)

\* ... and n is what each of them has left of the taker.
Left(n) ==
  /\ n \in 0..MaxQty
  /\ taker = NoTaker => n = 0
  /\ taker # NoTaker /\ ~misplaced => taker.qty = n
  /\ \A o \in sound : rest[o] = n

HeapInv == IndexInv /\ TakerHasSide /\ PlaceInv

BooksInv == HeapInv /\ sound \subseteq Others /\ \E v, n : Shown(v) /\ Left(n)

LEMMA ShownQueue ==
  ASSUME HeapInv, NEW v, Shown(v), sound \subseteq Others, NEW b \in Sound, NEW s \in Sides, NEW p \in Prices
  PROVE  \E ids : /\ IsQueue(ids, v, s, p)
                  /\ QueueIn(b, s, p) = [k \in 1..Len(ids) |-> <<ids[k], v.qty[ids[k]]>>]
<1>1. CASE b = "heap"
  <2> DEFINE ids == HeapIds(book, s, p)
  <2>1. ~misplaced
    BY <1>1 DEF Sound, Others
  <2>2. IsBook(book) /\ Indexed(book) /\ Placed(book) /\ IsView(v) /\ HeapShows(book, v)
    BY <2>1 DEF HeapInv, IndexInv, TypeOK, PlaceInv, Shown
  <2>3. IsQueue(ids, v, s, p) /\ \A k \in 1..Len(ids) : book.node[ids[k]].qty = v.qty[ids[k]]
    BY <2>2, HeapQueue
  <2>4. QueueIn(b, s, p) = [k \in DOMAIN ids |-> <<ids[k], book.node[ids[k]].qty>>]
    BY <1>1 DEF QueueIn, HeapIds
  <2> HIDE DEF ids
  <2>5. DOMAIN ids = 1..Len(ids)
    BY <2>3, LenProperties DEF IsQueue
  <2> QED
    BY <2>3, <2>4, <2>5
<1>2. CASE b = "level"
  <2> DEFINE ids == level.q[s][p]
  <2>1. "level" \in sound
    BY <1>2 DEF Sound
  <2>2. IsQueue(ids, v, s, p) /\ \A k \in 1..Len(ids) : level.byID[ids[k]].qty = v.qty[ids[k]]
    BY <2>1, LevelQueue DEF Shown
  <2>4. QueueIn(b, s, p) = [k \in DOMAIN ids |-> <<ids[k], level.byID[ids[k]].qty>>]
    BY <1>2 DEF QueueIn
  <2> HIDE DEF ids
  <2>5. DOMAIN ids = 1..Len(ids)
    BY <2>2, LenProperties DEF IsQueue
  <2> QED
    BY <2>2, <2>4, <2>5
<1>3. CASE b = "naive"
  <2> DEFINE at == Stretch(naive.q[s], p)
             ids == IdsOf(at)
  <2>1. "naive" \in sound
    BY <1>3 DEF Sound
  <2>2. SideOK(naive.q[s], s) /\ SideShows(naive.q[s], s, v) /\ IsView(v)
    BY <2>1 DEF Shown, NaiveOK, NaiveShows
  <2>3. /\ at \in Seq(NaiveOrder) /\ IsQueue(ids, v, s, p)
        /\ \A k \in 1..Len(at) : at[k].qty = v.qty[at[k].id]
    BY <2>2, SideQueue
  <2>4. QueueIn(b, s, p) = [k \in DOMAIN at |-> <<at[k].id, at[k].qty>>]
    BY <1>3 DEF QueueIn
  <2> HIDE DEF at
  <2>5. DOMAIN at = 1..Len(at) /\ Len(at) \in Nat
    BY <2>3, LenProperties
  <2>6. /\ \A k \in 1..Len(at) : ids[k] = at[k].id
        /\ Len(ids) = Len(at)
    <3>1. ids \in Seq(OrderIds)
      BY <2>3 DEF IsQueue
    <3>2. DOMAIN ids = 1..Len(at)
      BY DEF IdsOf
    <3>3. Len(ids) = Len(at)
      BY <2>5, <3>1, <3>2, LenProperties
    <3> QED
      BY <3>3 DEF IdsOf
  <2> HIDE DEF ids
  <2>7. [k \in DOMAIN at |-> <<at[k].id, at[k].qty>>] = [k \in 1..Len(ids) |-> <<ids[k], v.qty[ids[k]]>>]
    BY <2>3, <2>5, <2>6
  <2> QED
    BY <2>3, <2>4, <2>7
<1> QED
  BY <1>1, <1>2, <1>3 DEF Sound, Others

LEMMA ShownBest ==
  ASSUME HeapInv, NEW v, Shown(v), sound \subseteq Others, NEW b \in Sound, NEW s \in Sides
  PROVE  BestIn(b, s) = {p \in Int : BestAt(v, s, p)}
<1>0. IsView(v) /\ \A p : BestAt(v, s, p) => p \in Int
  BY BestAtUnique DEF Shown
<1>1. CASE b = "heap"
  <2>1. ~misplaced
    BY <1>1 DEF Sound, Others
  <2>2. IsBook(book) /\ Indexed(book) /\ Placed(book) /\ HeapShows(book, v)
    BY <2>1 DEF HeapInv, IndexInv, TypeOK, PlaceInv, Shown
  <2>3. /\ LiveInHeap(book, s) # {} => BestAt(v, s, Best(book, s))
        /\ LiveInHeap(book, s) = {} => \A p : ~BestAt(v, s, p)
    BY <1>0, <2>2, HeapBest
  <2>4. BestIn(b, s) = IF LiveInHeap(book, s) = {} THEN {} ELSE {Best(book, s)}
    BY <1>1 DEF BestIn
  <2>5. \A p, r : BestAt(v, s, p) /\ BestAt(v, s, r) => p = r
    BY <1>0, BestAtUnique
  <2> QED
    BY <1>0, <2>3, <2>4, <2>5
<1>2. CASE b = "level"
  <2>1. LevelOK(level) /\ LevelShows(level, v)
    BY <1>2 DEF Sound, Shown
  <2>2. \A p : p \in level.best[s] <=> BestAt(v, s, p)
    BY <2>1, LevelBest
  <2>3. BestIn(b, s) = level.best[s]
    BY <1>2 DEF BestIn
  <2> QED
    BY <1>0, <2>2, <2>3
<1>3. CASE b = "naive"
  <2>1. NaiveOK(naive) /\ NaiveShows(naive, v)
    BY <1>3 DEF Sound, Shown
  <2>2. /\ naive.q[s] # <<>> => Head(naive.q[s]) = naive.q[s][1] /\ BestAt(v, s, naive.q[s][1].price)
        /\ naive.q[s] = <<>> => \A p : ~BestAt(v, s, p)
    BY <1>0, <2>1, NaiveBest
  <2>3. BestIn(b, s) = IF naive.q[s] = <<>> THEN {} ELSE {Head(naive.q[s]).price}
    BY <1>3 DEF BestIn
  <2>4. \A p, r : BestAt(v, s, p) /\ BestAt(v, s, r) => p = r
    BY <1>0, BestAtUnique
  <2> QED
    BY <1>0, <2>2, <2>3, <2>4
<1> QED
  BY <1>1, <1>2, <1>3 DEF Sound, Others

LEMMA AgreeIfShown ==
  ASSUME BooksInv
  PROVE  BooksAgree
<1>0. HeapInv /\ sound \subseteq Others
  BY DEF BooksInv
<1>1. PICK v, n : Shown(v) /\ Left(n)
  BY DEF BooksInv
<1> SUFFICES ASSUME NEW b \in Sound, NEW c \in Sound
             PROVE  Visible(b) = Visible(c)
  BY DEF BooksAgree
<1>2. \A d \in Sound : LeftIn(d) = n
  BY <1>0, <1>1 DEF Sound, LeftIn, Left, Others
<1>3. \A s \in Sides : BestIn(b, s) = BestIn(c, s)
  BY <1>0, <1>1, ShownBest
<1>4. ASSUME NEW s \in Sides, NEW p \in Prices PROVE QueueIn(b, s, p) = QueueIn(c, s, p)
  <2>1. PICK xs : /\ IsQueue(xs, v, s, p)
                  /\ QueueIn(b, s, p) = [k \in 1..Len(xs) |-> <<xs[k], v.qty[xs[k]]>>]
    BY <1>0, <1>1, ShownQueue
  <2>2. PICK ys : /\ IsQueue(ys, v, s, p)
                  /\ QueueIn(c, s, p) = [k \in 1..Len(ys) |-> <<ys[k], v.qty[ys[k]]>>]
    BY <1>0, <1>1, ShownQueue
  <2>3. xs = ys
    BY <2>1, <2>2, OneQueue
  <2> QED
    BY <2>1, <2>2, <2>3
<1> QED
  BY <1>2, <1>3, <1>4 DEF Visible

\* A taker with its quantity replaced.
LEMMA TakerFields ==
  ASSUME NEW t \in Order, NEW n \in 0..MaxQty
  PROVE  /\ [t EXCEPT !.qty = n] \in Order /\ [t EXCEPT !.qty = n].side = t.side
         /\ [t EXCEPT !.qty = n].id = t.id /\ [t EXCEPT !.qty = n].price = t.price
         /\ [t EXCEPT !.qty = n].qty = n
         /\ t.qty = n => [t EXCEPT !.qty = n] = t
BY DEF Order

\* The heap book shows what it showed when only its heaps change.
LEMMA PopDeadShows ==
  ASSUME NEW b, IsBook(b), NEW s \in Sides, NEW v, HeapShows(b, v)
  PROVE  HeapShows(PopDead(b, s), v)
<1>1. PopDead(b, s).q = b.q /\ PopDead(b, s).node = b.node
  BY PopDeadFields
<1> HIDE DEF PopDead
<1> QED
  BY <1>1, Zenon DEF HeapShows

LEMMA MatchKeepsTaker ==
  ASSUME IndexInv, TakerHasSide, MatchStep
  PROVE  taker' \in Order /\ taker' # NoTaker
<1> DEFINE x == Exec(book, taker)
<1>1. taker \in Order /\ taker.side \in Sides /\ CanMatch(book, taker)
  BY DEF MatchStep, TakerHasSide
<1>2. x \in 1..taker.qty
  BY <1>1, MakerFacts DEF IndexInv, TypeOK
<1>3. taker' = [taker EXCEPT !.qty = @ - x]
  BY DEF MatchStep
<1> HIDE DEF x
<1>4. taker' \in Order
  BY <1>1, <1>2, <1>3, BoundAssumption DEF Order
<1> QED
  BY <1>4, NilsAssumption

\* Who trades in every book that v shows: the same order, for the same quantity.
LEMMA MatchShown ==
  ASSUME HeapInv, sound \subseteq Others, NEW v, Shown(v), NEW n, Left(n), Match
  PROVE  \E w, r : Shown(w)' /\ Left(r)'
<1> DEFINE t == [taker EXCEPT !.qty = n]
           s == Opp(t.side)
<1>0. taker # NoTaker /\ sound' = sound /\ misplaced' = misplaced
  BY DEF Match, MatchStep, vars
<1>1. /\ taker \in Order /\ taker.side \in Sides /\ n \in 0..MaxQty
      /\ IsBook(book) /\ Indexed(book) /\ (~misplaced => Placed(book))
  BY <1>0 DEF HeapInv, TakerHasSide, Left, IndexInv, TypeOK, PlaceInv
<1>2. t \in Order /\ t.side \in Sides /\ t.side = taker.side /\ t.qty = n
  BY <1>1, TakerFields
<1>3. ~misplaced => taker = t
  BY <1>0, <1>1, TakerFields DEF Left
<1>4. \A o \in sound : TakerIn(o) = t
  BY DEF TakerIn, Left
<1>5. IsView(v) /\ (~misplaced => HeapShows(book, v))
      /\ ("level" \in sound => LevelOK(level) /\ LevelShows(level, v))
      /\ ("naive" \in sound => NaiveOK(naive) /\ NaiveShows(naive, v))
  BY DEF Shown
<1>6. s \in Sides
  BY <1>2, SideFacts
<1> HIDE DEF t
<1>7. ~misplaced => (CanMatch(book, taker) <=> CanTrade(v, t))
  BY <1>1, <1>2, <1>3, <1>5, HeapCan
<1>8. LevelCan <=> "level" \in sound /\ CanTrade(v, t)
  BY <1>2, <1>4, <1>5, LevelCanTrade DEF LevelCan
<1>9. NaiveCan <=> "naive" \in sound /\ CanTrade(v, t)
  BY <1>2, <1>4, <1>5, NaiveCanTrade DEF NaiveCan
<1>10. /\ level' = IF LevelCan THEN LevelMatchOne(level, TakerIn("level")) ELSE level
       /\ naive' = IF NaiveCan THEN NaiveMatchOne(naive, TakerIn("naive")) ELSE naive
       /\ rest' = [o \in Others |->
                     rest[o] - CASE o = "level" /\ LevelCan -> LevelExec(level, TakerIn(o))
                                 [] o = "naive" /\ NaiveCan -> NaiveExec(naive, TakerIn(o))
                                 [] OTHER -> 0]
  BY DEF Match
<1>11. MatchStep \/ (~CanMatch(book, taker) /\ (LevelCan \/ NaiveCan) /\ UNCHANGED vars)
  BY DEF Match
<1>12. taker' # NoTaker
  BY <1>0, <1>11, MatchKeepsTaker DEF HeapInv, vars
<1>13. \A o \in sound : rest[o] = n /\ o \in Others
  BY DEF Left
<1>14. CASE ~CanTrade(v, t)
  <2>1. level' = level /\ naive' = naive /\ \A o \in sound : rest'[o] = n - 0
    BY <1>8, <1>9, <1>10, <1>13, <1>14
  <2>2. misplaced
    BY <1>7, <1>8, <1>9, <1>11, <1>14 DEF MatchStep
  <2>3. Shown(v)'
    BY <1>0, <1>5, <2>1, <2>2 DEF Shown
  <2>4. Left(n)'
    BY <1>0, <1>1, <1>12, <2>1, <2>2 DEF Left
  <2> QED
    BY <2>3, <2>4
<1>15. CASE CanTrade(v, t) /\ misplaced /\ sound = {}
  <2>1. Shown(v)' /\ Left(n)'
    BY <1>0, <1>1, <1>5, <1>12, <1>15 DEF Shown, Left
  <2> QED
    BY <2>1
<1>16. ASSUME NEW m \in OrderIds, FirstAt(v, s, m), CanTrade(v, t)
       PROVE  \E w, r : Shown(w)' /\ Left(r)'
  <2> DEFINE w == ViewTrade(v, t, m)
             x == Traded(v, t, m)
             r == n - x
  <2>1. IsView(w) /\ x \in Nat /\ x <= n
    BY <1>2, <1>5, ViewTradeIsView
  <2>2. r \in 0..MaxQty
    BY <1>1, <2>1, BoundAssumption
  <2> HIDE DEF w, x
  <2>3. ASSUME ~misplaced PROVE HeapShows(book', w) /\ taker'.qty = r
    <3>1. Maker(book, t) = m
      BY <1>1, <1>2, <1>3, <1>5, <1>6, <1>7, <1>16, <2>3, HeapTrade, FirstAtUnique
    <3>2. Exec(book, t) = x /\ HeapShows(MatchOne(book, t), w)
      BY <1>1, <1>2, <1>3, <1>5, <1>7, <1>16, <2>3, <3>1, HeapTrade DEF w, x
    <3>3. MatchStep
      BY <1>7, <1>11, <1>16, <2>3
    <3>4. book' = MatchOne(book, t) /\ taker' = [t EXCEPT !.qty = t.qty - Exec(book, t)]
      BY <1>3, <2>3, <3>3 DEF MatchStep
    <3>5. taker' = [t EXCEPT !.qty = r]
      BY <1>2, <3>2, <3>4
    <3>6. taker'.qty = r
      <4> HIDE DEF r
      <4> QED
        BY <1>2, <2>2, <3>5, TakerFields
    <3> QED
      BY <3>2, <3>4, <3>6
  <2>4. ASSUME "level" \in sound PROVE LevelOK(level') /\ LevelShows(level', w) /\ rest'["level"] = r
    <3>1. LevelCan /\ LevelCanMatch(level, t) /\ TakerIn("level") = t
      BY <1>4, <1>8, <1>16, <2>4 DEF LevelCan
    <3>2. PICK k \in OrderIds : /\ FirstAt(v, s, k) /\ LevelExec(level, t) = Traded(v, t, k)
                                /\ LevelOK(LevelMatchOne(level, t))
                                /\ LevelShows(LevelMatchOne(level, t), ViewTrade(v, t, k))
      BY <1>2, <1>5, <2>4, <3>1, LevelTrade
    <3>3. k = m
      BY <1>5, <1>6, <1>16, <3>2, FirstAtUnique
    <3>4. level' = LevelMatchOne(level, t)
      BY <1>10, <3>1
    <3>5. rest'["level"] = rest["level"] - LevelExec(level, t)
      BY <1>10, <3>1 DEF Others
    <3> QED
      BY <1>13, <2>4, <3>2, <3>3, <3>4, <3>5 DEF w, x
  <2>5. ASSUME "naive" \in sound PROVE NaiveOK(naive') /\ NaiveShows(naive', w) /\ rest'["naive"] = r
    <3>1. NaiveCan /\ NaiveCanMatch(naive, t) /\ TakerIn("naive") = t
      BY <1>4, <1>9, <1>16, <2>5 DEF NaiveCan
    <3>2. PICK k \in OrderIds : /\ FirstAt(v, s, k) /\ NaiveExec(naive, t) = Traded(v, t, k)
                                /\ NaiveOK(NaiveMatchOne(naive, t))
                                /\ NaiveShows(NaiveMatchOne(naive, t), ViewTrade(v, t, k))
      BY <1>2, <1>5, <2>5, <3>1, NaiveTrade
    <3>3. k = m
      BY <1>5, <1>6, <1>16, <3>2, FirstAtUnique
    <3>4. naive' = NaiveMatchOne(naive, t)
      BY <1>10, <3>1
    <3>5. rest'["naive"] = rest["naive"] - NaiveExec(naive, t)
      BY <1>10, <3>1 DEF Others
    <3> QED
      BY <1>13, <2>5, <3>2, <3>3, <3>4, <3>5 DEF w, x
  <2> HIDE DEF r
  <2>6. \A o \in sound : rest'[o] = r
    BY <1>13, <2>4, <2>5 DEF Others
  <2>7. PICK ww, rr : ww = w /\ rr = r
    OBVIOUS
  <2>8. /\ IsView(ww) /\ rr \in 0..MaxQty /\ \A o \in sound : rest'[o] = rr
        /\ ~misplaced => HeapShows(book', ww) /\ taker'.qty = rr
        /\ "level" \in sound => LevelOK(level') /\ LevelShows(level', ww)
        /\ "naive" \in sound => NaiveOK(naive') /\ NaiveShows(naive', ww)
    BY <2>1, <2>2, <2>3, <2>4, <2>5, <2>6, <2>7
  <2>9. Shown(ww)'
    BY <1>0, <2>8 DEF Shown
  <2>10. Left(rr)'
    BY <1>0, <1>12, <2>8 DEF Left
  <2> QED
    BY <2>9, <2>10
<1>17. ASSUME CanTrade(v, t), ~misplaced \/ sound # {} PROVE \E m \in OrderIds : FirstAt(v, s, m)
  <2>1. CASE ~misplaced
    <3>1. FirstAt(v, s, Maker(book, t))
      BY <1>1, <1>2, <1>3, <1>5, <1>7, <1>17, <2>1, HeapTrade
    <3> QED
      BY <3>1 DEF FirstAt
  <2>2. CASE "level" \in sound
    BY <1>2, <1>4, <1>5, <1>8, <1>17, <2>2, LevelTrade DEF LevelCan
  <2>3. CASE "naive" \in sound
    BY <1>2, <1>4, <1>5, <1>9, <1>17, <2>3, NaiveTrade DEF NaiveCan
  <2> QED
    BY <1>13, <1>17, <2>1, <2>2, <2>3 DEF Others
<1> QED
  BY <1>14, <1>15, <1>16, <1>17

\* What is left of the taker rests in every book, or in none.
LEMMA RestShown ==
  ASSUME HeapInv, sound \subseteq Others, NEW v, Shown(v), NEW n, Left(n), RestAll
  PROVE  \E w, r : Shown(w)' /\ Left(r)'
<1> DEFINE t == [taker EXCEPT !.qty = n]
           w == IF n > 0 /\ v.side[t.id] = 0 THEN ViewAdd(v, t) ELSE v
<1>0. /\ taker # NoTaker /\ taker' = NoTaker /\ misplaced' = misplaced /\ rest' = NoRest
      /\ book' = Add(EndMatch(book, taker), taker) /\ sound' = sound \ AddStrikes(taker.id)
      /\ level' = Follow("level", LevelAdd(Healed(level, TakerIn("level")), TakerIn("level")))
      /\ naive' = Follow("naive", NaiveAdd(naive, TakerIn("naive")))
  BY DEF RestAll, Rest
<1>1. /\ taker \in Order /\ taker.side \in Sides /\ n \in 0..MaxQty
      /\ IsBook(book) /\ Indexed(book) /\ (~misplaced => Placed(book))
  BY <1>0 DEF HeapInv, TakerHasSide, Left, IndexInv, TypeOK, PlaceInv
<1>2. t \in Order /\ t.side \in Sides /\ t.qty = n /\ t.id = taker.id /\ t.id \in OrderIds /\ n \in Int
  <2>1. t \in Order /\ t.side = taker.side /\ t.qty = n /\ t.id = taker.id
    BY <1>1, TakerFields
  <2> QED
    BY <1>1, <2>1, BoundAssumption DEF Order
<1>3. ~misplaced => taker = t
  BY <1>0, <1>1, TakerFields DEF Left
<1>4. \A o \in sound : TakerIn(o) = t /\ rest[o] = n /\ o \in Others
  BY DEF TakerIn, Left
<1>5. IsView(v) /\ (~misplaced => HeapShows(book, v))
      /\ ("level" \in sound => LevelOK(level) /\ LevelShows(level, v))
      /\ ("naive" \in sound => NaiveOK(naive) /\ NaiveShows(naive, v))
  BY DEF Shown
<1> HIDE DEF t
<1>6. IsView(w)
  BY <1>2, <1>5, ViewAddIsView
<1>7. ASSUME ~misplaced PROVE HeapShows(book', w)
  <2> DEFINE b == EndMatch(book, t)
             s == Opp(t.side)
  <2>1. s \in Sides
    BY <1>2, SideFacts
  <2>2. IsBook(b) /\ Indexed(b) /\ Placed(b) /\ HeapShows(b, v)
    <3>1. CASE t.qty > 0
      BY <1>1, <1>5, <1>7, <2>1, <3>1, PopDeadIndexed, PopDeadPlaced, PopDeadShows DEF EndMatch
    <3>2. CASE ~(t.qty > 0)
      BY <1>1, <1>5, <1>7, <3>2 DEF EndMatch
    <3> QED
      BY <3>1, <3>2
  <2>3. book' = Add(b, t)
    BY <1>0, <1>3, <1>7
  <2> HIDE DEF b, s
  <2>4. CASE Ignored(b, t)
    <3>1. ~(n > 0 /\ v.side[t.id] = 0)
      <4>1. t.qty <= 0 \/ b.node[t.id] # NoNode
        BY <1>2, <2>4 DEF Ignored
      <4>2. b.node[t.id] # NoNode => v.side[t.id] # 0
        <5>1. ASSUME b.node[t.id] # NoNode PROVE v.side[t.id] # 0
          <6>1. v.side[t.id] = b.node[t.id].side /\ t.id \in Resting(b)
            BY <1>2, <2>2, <5>1 DEF HeapShows, Resting
          <6>2. b.node[t.id].side \in Sides
            BY <2>2, <6>1, RestingFields
          <6> QED
            BY <6>1, <6>2, SideFacts
        <5> QED
          BY <5>1
      <4> QED
        BY <1>2, <4>1, <4>2
    <3> QED
      BY <2>2, <2>3, <2>4, <3>1 DEF Add
  <2>5. CASE ~Ignored(b, t)
    <3>1. HeapShows(Add(b, t), ViewAdd(v, t)) /\ v.side[t.id] = 0
      BY <1>2, <1>5, <2>2, <2>5, HeapAdd
    <3>2. n > 0
      BY <1>2, <2>5 DEF Ignored
    <3> QED
      BY <2>3, <3>1, <3>2
  <2> QED
    BY <2>4, <2>5
<1>8. ASSUME "level" \in sound' PROVE LevelOK(level') /\ LevelShows(level', w)
  <2>1. "level" \in sound /\ "level" \notin AddStrikes(t.id)
    BY <1>0, <1>2, <1>8
  <2>2. LevelOK(level) /\ LevelShows(level, v) /\ TakerIn("level") = t /\ rest["level"] = n
    BY <1>4, <1>5, <2>1
  <2>3. Healed(level, t) = level
    BY <1>2, <2>2, NothingToHeal
  <2>4. level' = LevelAdd(level, t)
    BY <1>0, <1>8, <2>2, <2>3 DEF Follow
  <2>5. n > 0 /\ level.byID[t.id] # NoNode => Listed(level, t.id)
    BY <2>1, <2>2 DEF AddStrikes, Others, Listed
  <2>6. CASE n > 0 /\ level.byID[t.id] # NoNode
    <3>1. level' = level
      BY <2>4, <2>6 DEF LevelAdd, Known
    <3>2. level.byID[t.id].side \in Sides /\ v.side[t.id] = level.byID[t.id].side
      BY <1>2, <2>2, <2>5, <2>6, LevelFields DEF LevelOK, LevelShows
    <3>3. v.side[t.id] # 0
      BY <3>2, SideFacts
    <3> QED
      BY <2>2, <3>1, <3>3
  <2>7. CASE ~(n > 0)
    <3>1. level' = level
      BY <1>2, <2>4, <2>7 DEF LevelAdd
    <3> QED
      BY <2>2, <2>7, <3>1
  <2>8. CASE n > 0 /\ level.byID[t.id] = NoNode
    BY <1>2, <1>5, <2>2, <2>4, <2>8, LevelAddNew
  <2> QED
    BY <2>6, <2>7, <2>8
<1>9. ASSUME "naive" \in sound' PROVE NaiveOK(naive') /\ NaiveShows(naive', w)
  <2>1. "naive" \in sound /\ "naive" \notin AddStrikes(t.id)
    BY <1>0, <1>2, <1>9
  <2>2. NaiveOK(naive) /\ NaiveShows(naive, v) /\ TakerIn("naive") = t /\ rest["naive"] = n
    BY <1>4, <1>5, <2>1
  <2>3. naive' = NaiveAdd(naive, t)
    BY <1>0, <1>9, <2>2 DEF Follow
  <2>4. CASE n > 0
    <3>1. ~InNaive(t.id)
      BY <2>1, <2>2, <2>4 DEF AddStrikes, Others
    <3>2. v.side[t.id] = 0
      <4>1. v.side[t.id] # 0 => v.side[t.id] \in Sides
        BY <1>2, <1>5 DEF IsView
      <4> QED
        BY <1>2, <1>5, <2>2, <3>1, <4>1, NaiveHas DEF InNaive
    <3> QED
      BY <1>2, <1>5, <2>2, <2>3, <2>4, <3>2, NaiveAddNew
  <2>5. CASE ~(n > 0)
    <3>1. naive' = naive
      BY <1>2, <2>3, <2>5 DEF NaiveAdd
    <3> QED
      BY <2>2, <2>5, <3>1
  <2> QED
    BY <2>4, <2>5
<1> HIDE DEF w
<1>10. PICK ww : ww = w
  OBVIOUS
<1>11. Shown(ww)'
  BY <1>0, <1>6, <1>7, <1>8, <1>9, <1>10 DEF Shown
<1>12. Left(0)'
  <2>1. \A o \in sound' : rest'[o] = 0
    BY <1>0, <1>4 DEF NoRest
  <2> QED
    BY <1>0, <2>1, BoundAssumption DEF Left
<1> QED
  BY <1>11, <1>12

LEMMA CancelShown ==
  ASSUME HeapInv, sound \subseteq Others, NEW v, Shown(v), NEW n, Left(n),
         NEW i \in OrderIds, NEW second \in BOOLEAN, CancelAll(i, second)
  PROVE  \E w, r : Shown(w)' /\ Left(r)'
<1> DEFINE w == ViewCancel(v, i)
<1>1. /\ rest' = rest /\ sound' = sound \ CancelStrikes(i, second)
      /\ level' = Follow("level", LevelCancel(level, i))
      /\ naive' = Follow("naive", IF second THEN Cancel2(naive, i) ELSE NaiveCancel(naive, i))
      /\ taker = NoTaker /\ taker' = NoTaker
  BY DEF CancelAll, CancelOrder, vars
<1>2. IsView(v) /\ (~misplaced => HeapShows(book, v))
      /\ ("level" \in sound => LevelOK(level) /\ LevelShows(level, v))
      /\ ("naive" \in sound => NaiveOK(naive) /\ NaiveShows(naive, v))
  BY DEF Shown
<1>3. IsView(w)
  BY <1>2, ViewRemoveIsView DEF ViewCancel
<1>4. ASSUME ~misplaced' PROVE HeapShows(book', w)
  <2>1. CASE \E seen \in {0} \cup ReusedSides : CancelOrder(i, seen)
    <3>1. PICK seen \in {0} \cup ReusedSides : CancelOrder(i, seen)
      BY <2>1
    <3>2. i \in Resting(book) /\ book' = Cancel(book, i, seen) /\ ~misplaced
      BY <1>4, <3>1 DEF CancelOrder, Resting
    <3>3. IsBook(book) /\ Indexed(book) /\ HeapShows(book, v)
      BY <1>2, <3>2 DEF HeapInv, IndexInv, TypeOK
    <3>4. HeapShows(book', ViewRemove(v, i))
      BY <1>2, <3>2, <3>3, HeapCancel
    <3>5. v.side[i] = book.node[i].side /\ book.node[i].side \in Sides
      BY <3>2, <3>3, RestingFields DEF HeapShows
    <3>6. v.side[i] # 0
      BY <3>5, SideFacts
    <3> QED
      BY <3>4, <3>6 DEF ViewCancel
  <2>2. CASE book.node[i] = NoNode /\ UNCHANGED vars
    <3>1. HeapShows(book, v) /\ book' = book
      BY <1>2, <1>4, <2>2 DEF vars
    <3>2. v.side[i] = 0
      BY <2>2, <3>1 DEF HeapShows
    <3> QED
      BY <3>1, <3>2 DEF ViewCancel
  <2> QED
    BY <2>1, <2>2 DEF CancelAll
<1>5. ASSUME "level" \in sound' PROVE LevelOK(level') /\ LevelShows(level', w)
  <2>1. LevelOK(level) /\ LevelShows(level, v) /\ level' = LevelCancel(level, i)
    BY <1>1, <1>2, <1>5 DEF Follow
  <2>2. CASE Listed(level, i)
    <3>1. v.side[i] = level.byID[i].side /\ level.byID[i].side \in Sides
      BY <2>1, <2>2, LevelFields DEF LevelOK, LevelShows
    <3>2. v.side[i] # 0
      BY <3>1, SideFacts
    <3> QED
      BY <1>2, <2>1, <2>2, <3>2, LevelCancelListed DEF ViewCancel
  <2>3. CASE ~Listed(level, i)
    <3>1. level' = level
      BY <2>1, <2>3 DEF LevelCancel, Listed
    <3>2. v.side[i] = 0
      BY <2>1, <2>3 DEF LevelShows
    <3> QED
      BY <2>1, <3>1, <3>2 DEF ViewCancel
  <2> QED
    BY <2>2, <2>3
<1>6. ASSUME "naive" \in sound' PROVE NaiveOK(naive') /\ NaiveShows(naive', w)
  <2>1. /\ NaiveOK(naive) /\ NaiveShows(naive, v) /\ "naive" \notin CancelStrikes(i, second)
        /\ naive' = IF second THEN Cancel2(naive, i) ELSE NaiveCancel(naive, i)
    BY <1>1, <1>2, <1>6 DEF Follow
  <2>2. CASE second
    <3>1. naive.pos[i] # NoNode => /\ ~Cancel2Panics(naive, i)
                                   /\ naive.q[naive.pos[i].side][naive.pos[i].index + 1].id = i
      BY <2>1, <2>2 DEF CancelStrikes, Others
    <3> QED
      BY <1>2, <2>1, <2>2, <3>1, NaiveCancelled2
  <2>3. CASE ~second
    BY <1>2, <2>1, <2>3, NaiveCancelled
  <2> QED
    BY <2>2, <2>3
<1> HIDE DEF w
<1>7. PICK ww : ww = w
  OBVIOUS
<1>8. Shown(ww)'
  BY <1>3, <1>4, <1>5, <1>6, <1>7 DEF Shown
<1>9. Left(n)'
  BY <1>1 DEF Left
<1> QED
  BY <1>8, <1>9

LEMMA NextShown ==
  ASSUME BooksInv, [BooksNext]_allVars
  PROVE  sound' \subseteq Others /\ \E w, r : Shown(w)' /\ Left(r)'
<1>0. HeapInv /\ sound \subseteq Others
  BY DEF BooksInv
<1>1. PICK v, n : Shown(v) /\ Left(n)
  BY DEF BooksInv
<1>2. ASSUME NEW o \in Order, Submit(o) PROVE sound' \subseteq Others /\ Shown(v)' /\ Left(o.qty)'
  <2>1. UNCHANGED <<book, misplaced, level, naive, sound>> /\ taker' = o
    BY <1>2 DEF Submit, SubmitLimit
  <2>2. Shown(v)' /\ sound' \subseteq Others
    BY <1>0, <1>1, <2>1 DEF Shown
  <2>3. \A a \in sound' : rest'[a] = o.qty
    BY <1>0, <1>2, <2>1 DEF Submit
  <2>4. o.qty \in 0..MaxQty /\ o # NoTaker
    BY NilsAssumption DEF Order
  <2> QED
    BY <2>1, <2>2, <2>3, <2>4 DEF Left
<1>3. CASE UNCHANGED allVars
  <2>1. sound' \subseteq Others /\ Shown(v)' /\ Left(n)'
    BY <1>0, <1>1, <1>3 DEF allVars, Shown, Left
  <2> QED
    BY <2>1
<1>4. ASSUME NEW s \in Sides, BestAll(s) PROVE sound' \subseteq Others /\ Shown(v)' /\ Left(n)'
  <2>1. UNCHANGED <<taker, misplaced, level, naive, rest, sound>> /\ book' = PopDead(book, s)
    BY <1>4 DEF BestAll, BestPrice
  <2>2. IsBook(book)
    BY <1>0 DEF HeapInv, IndexInv, TypeOK
  <2>3. ~misplaced => HeapShows(book', v)
    BY <1>1, <2>1, <2>2, PopDeadShows DEF Shown
  <2> QED
    BY <1>0, <1>1, <2>1, <2>3 DEF Shown, Left
<1>5. CASE Match
  BY <1>0, <1>1, <1>5, MatchShown DEF Match
<1>6. CASE RestAll
  BY <1>0, <1>1, <1>6, RestShown DEF RestAll
<1>7. ASSUME NEW i \in OrderIds, NEW second \in BOOLEAN, CancelAll(i, second)
      PROVE  sound' \subseteq Others /\ \E w, r : Shown(w)' /\ Left(r)'
  BY <1>0, <1>1, <1>7, CancelShown DEF CancelAll
<1>8. ASSUME NEW o \in Order, Inert(o) PROVE UNCHANGED allVars
  BY <1>8 DEF Inert
<1> QED
  BY <1>2, <1>3, <1>4, <1>5, <1>6, <1>7, <1>8 DEF BooksNext

\* Before the first order nobody rests.
LEMMA InitShown ==
  ASSUME BooksInit
  PROVE  sound \subseteq Others /\ \E v, n : Shown(v) /\ Left(n)
<1> DEFINE v == [ side  |-> [i \in OrderIds |-> 0],
                  price |-> [i \in OrderIds |-> 0],
                  qty   |-> [i \in OrderIds |-> 0],
                  ahead |-> [i \in OrderIds |-> {}] ]
<1>1. IsView(v)
  BY DEF IsView
<1>2. /\ book = EmptyBook /\ taker = NoTaker /\ misplaced = FALSE
      /\ level = EmptyLevel /\ naive = EmptyNaive /\ rest = NoRest /\ sound = Others
  BY DEF BooksInit, Init
<1>3. HeapShows(book, v)
  BY <1>2, Zenon DEF HeapShows, EmptyBook
<1>4. IsLevelBook(level) /\ \A i \in OrderIds : ~Listed(level, i)
  BY <1>2 DEF IsLevelBook, EmptyLevel, Listed
<1>5. \A s \in Sides, p \in Prices : level.q[s][p] = <<>>
  BY <1>2 DEF EmptyLevel
<1>6. \A s \in Sides : level.best[s] = {} /\ Levels(level, s) = {}
  BY <1>2, <1>5 DEF EmptyLevel, Levels
<1>7. LevelOK(level) /\ LevelShows(level, v)
  <2>1. 1..Len(<<>>) = {}
    OBVIOUS
  <2>2. Filed(level)
    BY <1>4, <1>5, <2>1 DEF Filed, Once, Has
  <2>3. Cached(level)
    BY <1>6 DEF Cached, BestOf
  <2> QED
    BY <1>4, <2>2, <2>3 DEF LevelOK, LevelShows
<1>8. NaiveOK(naive) /\ NaiveShows(naive, v)
  <2>1. IsNaiveBook(naive) /\ \A s \in Sides : naive.q[s] = <<>>
    BY <1>2 DEF IsNaiveBook, EmptyNaive
  <2>2. 1..Len(<<>>) = {} /\ <<>> \in Seq(NaiveOrder)
    OBVIOUS
  <2>3. \A s \in Sides : s # 0
    BY SideFacts
  <2>4. \A s \in Sides : SideOK(<<>>, s) /\ SideShows(<<>>, s, v)
    BY <2>2, <2>3 DEF SideOK, SideShows
  <2> QED
    BY <2>1, <2>2, <2>4 DEF NaiveOK, NaiveShows
<1>9. Left(0)
  BY <1>2, BoundAssumption DEF Left, NoRest
<1> HIDE DEF v
<1>10. Shown(v)
  BY <1>1, <1>3, <1>7, <1>8 DEF Shown
<1> QED
  BY <1>2, <1>9, <1>10

\* The three order books, given the same commands, are the same book to anyone who asks,
\* each for as long as its own defect has not struck it: the same queues, the same best
\* prices and the same trades, however large the quantities and long the run.
THEOREM BooksStayTheSame == BooksSpec => []BooksAgree
<1>1. BooksInit => BooksInv
  BY InitShown, InitIndexInv, InitPlaceInv DEF BooksInit, Init, TakerHasSide, HeapInv, BooksInv
<1>2. BooksInv /\ [BooksNext]_allVars => BooksInv'
  <2> SUFFICES ASSUME BooksInv, [BooksNext]_allVars PROVE BooksInv'
    OBVIOUS
  <2>1. HeapInv'
    BY HeapBookSteps, NextIndexInv, NextPlaceInv DEF BooksInv, HeapInv
  <2>2. sound' \subseteq Others /\ \E w, r : Shown(w)' /\ Left(r)'
    BY NextShown
  <2>3. (\E w, r : Shown(w) /\ Left(r))'
    BY <2>2
  <2> QED
    BY <2>1, <2>2, <2>3 DEF BooksInv
<1>3. BooksInv => BooksAgree
  BY AgreeIfShown
<1> QED
  BY <1>1, <1>2, <1>3, PTL DEF BooksSpec
=============================================================================
