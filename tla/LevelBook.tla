----------------------------- MODULE LevelBook -----------------------------
(***************************************************************************)
(* LevelOrderBook as a value and its operations: the heap book's price     *)
(* levels with a cached best price instead of a heap.                      *)
(*                                                                         *)
(*   q[s][p]  the FIFO list of the level the map holds for price p; the    *)
(*            map drops a level when it becomes empty, so <<>> is no level *)
(*   best[s]  {} for hasAsk / hasBid = false, else the cached price alone  *)
(*   byID[i]  the node of order i.  Cancel unlinks a node and leaves it in *)
(*            byID: "out" while the map still has its level, "gone" after  *)
(***************************************************************************)
EXTENDS BookOps

Places == {"list", "out", "gone"}
LevelNode == [side : Sides, price : Prices, qty : Nat \ {0}, in : Places]

EmptyLevel ==
  [ q    |-> [s \in Sides |-> [p \in Prices |-> <<>>]],
    best |-> [s \in Sides |-> {}],
    byID |-> [i \in OrderIds |-> NoNode] ]

Levels(b, s) == {p \in Prices : b.q[s][p] # <<>>}

\* Mutant of Recompute: the first level the map iteration yields.
RecomputeAny(b, s) ==
  [b EXCEPT !.best[s] = IF Levels(b, s) = {} THEN {} ELSE {CHOOSE p \in Levels(b, s) : TRUE}]

\* recomputeBestAsk / recomputeBestBid
Recompute(b, s) ==
  [b EXCEPT !.best[s] = {p \in Levels(b, s) : \A r \in Levels(b, s) : AtLeast(s, p, r)}]

Known(b, o) == b.byID[o.id] # NoNode

LevelAdd(b, o) ==
  IF o.qty <= 0 \/ Known(b, o) \/ o.side \notin Sides THEN b
  ELSE [b EXCEPT
          !.q[o.side][o.price] = Append(@, o.id),
          !.byID[o.id] = [side |-> o.side, price |-> o.price, qty |-> o.qty, in |-> "list"],
          !.best[o.side] = IF \E r \in @ : AtLeast(o.side, r, o.price) THEN @ ELSE {o.price}]

\* lv.remove on a linked node; an emptied level leaves the map, and with it go
\* the cancelled nodes that still point to it.
Unlinked(b, i) ==
  LET n == b.byID[i]
      r == Without(b.q[n.side][n.price], PosOf(b.q[n.side][n.price], i))
      old(j) == /\ r = <<>> /\ b.byID[j] # NoNode /\ b.byID[j].in = "out"
                /\ b.byID[j].side = n.side /\ b.byID[j].price = n.price
  IN  [b EXCEPT !.q[n.side][n.price] = r,
                !.byID = [j \in OrderIds |-> IF old(j) THEN [b.byID[j] EXCEPT !.in = "gone"] ELSE @[j]]]

\* Cancel of a linked order, and of one that is unknown or whose level is gone,
\* which changes nothing.  CutsList is the remaining case.
LevelCancel(b, i) ==
  IF b.byID[i] = NoNode \/ b.byID[i].in # "list" THEN b
  ELSE LET n  == b.byID[i]
           b1 == Unlinked(b, i)
           b2 == [b1 EXCEPT !.byID[i].in = IF b1.q[n.side][n.price] = <<>> THEN "gone" ELSE "out"]
       IN  IF b2.q[n.side][n.price] = <<>> /\ b2.best[n.side] = {n.price}
           THEN Recompute(b2, n.side) ELSE b2

\* A second Cancel of an order whose level still holds others: remove finds nil
\* neighbours and sets the level's head and tail to nil.
CutsList(b, i) == b.byID[i] # NoNode /\ b.byID[i].in = "out"

Looks(b, t) == t.qty > 0 /\ \E p \in b.best[Opp(t.side)] : Crosses(t.side, p, t.price)

\* The loop heals a cached price that crosses but has no level.
Healed(b, t) ==
  LET s == Opp(t.side)
  IN  IF Looks(b, t) /\ ~(b.best[s] \subseteq Levels(b, s)) THEN Recompute(b, s) ELSE b

LevelCanMatch(b, t) == Looks(b, t) /\ Looks(Healed(b, t), t)

BestLevel(b, s) == b.q[s][CHOOSE p \in b.best[s] : TRUE]

LevelExec(b, t) ==
  LET s == Opp(t.side)
      m == b.byID[Head(BestLevel(Healed(b, t), s))].qty
  IN  IF t.qty < m THEN t.qty ELSE m

\* One iteration of matchBuy / matchSell.
LevelMatchOne(b, t) ==
  LET s  == Opp(t.side)
      h  == Healed(b, t)
      m  == Head(BestLevel(h, s))
      x  == LevelExec(b, t)
      b1 == [Unlinked(h, m) EXCEPT !.byID[m] = NoNode]
  IN  IF x < h.byID[m].qty THEN [h EXCEPT !.byID[m].qty = @ - x]
      ELSE IF b1.best[s] \subseteq Levels(b1, s) THEN b1 ELSE Recompute(b1, s)
=============================================================================
