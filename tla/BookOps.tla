------------------------------ MODULE BookOps ------------------------------
(***************************************************************************)
(* The price-level order book LevelOrderBookHeap as a value and its        *)
(* operations as operators on that value.  HeapBook runs them as the state *)
(* machine of one book; the engine's model instances use them as the book  *)
(* the actor and the recovery drive.                                       *)
(*                                                                         *)
(*   lvl[s][p]  the level object asks/bids hold for price p, or NoLv       *)
(*   heap[s]    the prices in askH/bidH.  A price may be in the Go heap    *)
(*              several times; bestAskPrice/bestBidPrice pop all copies of *)
(*              a dead price together, so a set behaves the same.          *)
(*   q[l]       the FIFO list of level object l                            *)
(*   node[i]    byID: the list node of order i, with its level pointer     *)
(*                                                                         *)
(* Levels have an identity because nodes keep pointing at a level object   *)
(* after the map has dropped it.                                           *)
(***************************************************************************)
EXTENDS Integers, Sequences

CONSTANTS OrderIds,  \* order ids clients use
          Prices,    \* limit prices, a set of integers
          LvIds,     \* identities of level objects; more than can be in use
          NoLv,      \* "no level": a nil *priceLevelHeap
          NoNode     \* "no node": the id is not in byID

Buy  == 1
Sell == 2
Sides == {Buy, Sell}
Opp(s) == IF s = Buy THEN Sell ELSE Buy

Node == [side : Sides, price : Prices, qty : Nat \ {0}, lv : LvIds]

EmptyBook ==
  [ lvl  |-> [s \in Sides |-> [p \in Prices |-> NoLv]],
    heap |-> [s \in Sides |-> {}],
    q    |-> [l \in LvIds |-> <<>>],
    node |-> [i \in OrderIds |-> NoNode] ]

IsBook(b) ==
  b \in [ lvl  : [Sides -> [Prices -> LvIds \cup {NoLv}]],
          heap : [Sides -> SUBSET Prices],
          q    : [LvIds -> Seq(OrderIds)],
          node : [OrderIds -> Node \cup {NoNode}] ]

\* p is at least as good a price as r on side s: low asks, high bids.
AtLeast(s, p, r) == IF s = Sell THEN p <= r ELSE p >= r

\* Mutant of Crosses: an equal price does not trade.
CrossesStrict(s, p, r) == IF s = Buy THEN p < r ELSE p > r

\* A taker of side s with limit r may trade at price p of the other side.
Crosses(s, p, r) == IF s = Buy THEN p <= r ELSE p >= r

Live(b, s, p) == b.lvl[s][p] # NoLv /\ b.q[b.lvl[s][p]] # <<>>

LiveInHeap(b, s) == {p \in b.heap[s] : Live(b, s, p)}

\* The price bestAskPrice / bestBidPrice return when they return one ...
Best(b, s) == CHOOSE p \in LiveInHeap(b, s) : \A r \in LiveInHeap(b, s) : AtLeast(s, p, r)

\* ... and the dead prices they pop from the top of the heap on the way.
PopDead(b, s) ==
  [b EXCEPT !.heap[s] = {p \in @ : \E r \in LiveInHeap(b, s) : AtLeast(s, r, p)}]

InUse(b, l) ==
  \/ \E s \in Sides, p \in Prices : b.lvl[s][p] = l
  \/ \E i \in OrderIds : b.node[i] # NoNode /\ b.node[i].lv = l

\* A level object nothing refers to: what a Go allocation returns.
FreshLv(b) == CHOOSE l \in LvIds : ~InUse(b, l)

\* s without its element at position k.
Without(s, k) == [i \in 1..(Len(s) - 1) |-> IF i < k THEN s[i] ELSE s[i + 1]]

PosOf(s, x) == CHOOSE k \in 1..Len(s) : s[k] = x

(***************************************************************************)
(* Add: orders with a known id, no quantity or no side are ignored.  The   *)
(* heap gets the price only when the map has no level for it, live or not. *)
(***************************************************************************)
Ignored(b, o) == o.qty <= 0 \/ b.node[o.id] # NoNode \/ o.side \notin Sides

Add(b, o) ==
  IF Ignored(b, o) THEN b
  ELSE LET old == b.lvl[o.side][o.price]
           l   == IF old = NoLv THEN FreshLv(b) ELSE old
       IN  [b EXCEPT
              !.lvl[o.side][o.price] = l,
              !.heap[o.side] = IF old = NoLv THEN @ \cup {o.price} ELSE @,
              !.q[l] = Append(@, o.id),
              !.node[o.id] = [side |-> o.side, price |-> o.price, qty |-> o.qty, lv |-> l]]

\* Mutant of Unlink: the order stays in byID.
UnlinkKeepsIndex(b, i) ==
  LET l == b.node[i].lv IN [b EXCEPT !.q[l] = Without(@, PosOf(@, i))]

\* Unlink order i from its level and drop it from byID.
Unlink(b, i) ==
  LET l == b.node[i].lv
  IN  [b EXCEPT !.q[l] = Without(@, PosOf(@, i)), !.node[i] = NoNode]

(***************************************************************************)
(* Cancel: putNode runs before n.side is read, so `seen`, the side found   *)
(* there, is the 0 putNode stored - or a side another symbol's actor wrote *)
(* after it took the node from the shared pool.  Anything but Sell deletes *)
(* the price from bids.                                                    *)
(***************************************************************************)
CancelDeletesFrom(seen) == IF seen = Sell THEN Sell ELSE Buy

Cancel(b, i, seen) ==
  LET n  == b.node[i]
      b1 == Unlink(b, i)
  IN  IF b1.q[n.lv] = <<>>
      THEN [b1 EXCEPT !.lvl[CancelDeletesFrom(seen)][n.price] = NoLv]
      ELSE b1

(***************************************************************************)
(* One iteration of the matching loop: taker t trades with the head of the *)
(* best opposite level.                                                    *)
(***************************************************************************)
CanMatch(b, t) ==
  /\ t.qty > 0
  /\ LiveInHeap(b, Opp(t.side)) # {}
  /\ Crosses(t.side, Best(b, Opp(t.side)), t.price)

\* Mutant of Maker: the newest order of the level instead of the oldest.
MakerNewest(b, t) ==
  LET q == b.q[b.lvl[Opp(t.side)][Best(b, Opp(t.side))]] IN q[Len(q)]

Maker(b, t) == Head(b.q[b.lvl[Opp(t.side)][Best(b, Opp(t.side))]])

Exec(b, t) == LET m == b.node[Maker(b, t)].qty IN IF t.qty < m THEN t.qty ELSE m

Reduced(n, x) == [n EXCEPT !.qty = @ - x]

MatchOne(b, t) ==
  LET s  == Opp(t.side)
      p  == Best(b, s)
      m  == Maker(b, t)
      x  == Exec(b, t)
      b1 == PopDead(b, s)
      b2 == Unlink(b1, m)
  IN  IF x < b.node[m].qty THEN [b1 EXCEPT !.node[m] = Reduced(@, x)]
      ELSE IF b2.q[b.node[m].lv] = <<>> THEN [b2 EXCEPT !.lvl[s][p] = NoLv]
      ELSE b2

\* The loop ends with one more look at the best price unless t is filled.
EndMatch(b, t) == IF t.qty > 0 THEN PopDead(b, Opp(t.side)) ELSE b
=============================================================================
