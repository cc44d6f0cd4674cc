------------------------------ MODULE HeapBook ------------------------------
(***************************************************************************)
(* One symbol's order book: HeapBookAdapter on LevelOrderBookHeap.  The    *)
(* actor is the book's only writer, so a SubmitLimit runs to its end       *)
(* before the next command; its matching loop is split into one step per   *)
(* trade.  Only Cancel meets another goroutine, through the node pool that *)
(* all books share.                                                        *)
(***************************************************************************)
EXTENDS BookOps, FiniteSets, FiniteSetsExt

CONSTANTS MaxQty,       \* bound on a submitted quantity
          ReusedSides,  \* sides another actor may have put in a pooled node
          NoTaker       \* no SubmitLimit in progress

ASSUME PricesAssumption == Prices \subseteq Int
ASSUME BoundAssumption  == MaxQty \in Nat \ {0}
ASSUME ReuseAssumption  == ReusedSides \subseteq Sides
ASSUME NilAssumption    == NoLv \notin LvIds /\ NoNode \notin Node
\* An allocation always finds a level object: one more than maps and other orders use.
ASSUME LevelsAssumption ==
  /\ IsFiniteSet(OrderIds) /\ IsFiniteSet(Prices) /\ IsFiniteSet(LvIds)
  /\ Cardinality(LvIds) >= 2 * Cardinality(Prices) + Cardinality(OrderIds)

VARIABLES book,      \* the book
          taker,     \* the order SubmitLimit is matching, or NoTaker
          older,     \* history: the pairs of resting orders, the older one first
          misplaced  \* history: some Cancel deleted a price from the wrong map

vars == <<book, taker, older, misplaced>>

\* BadSide is a Side byte that is neither Buy nor Sell; the adapter does not check.
BadSide == 0
Order == [id : OrderIds, side : Sides \cup {BadSide}, price : Prices, qty : 0..MaxQty]

Init ==
  /\ book = EmptyBook
  /\ taker = NoTaker
  /\ older = {}
  /\ misplaced = FALSE

Resting(b) == {i \in OrderIds : b.node[i] # NoNode}

\* The pairs that still rest in b, and the new orders behind all of them.
Arrived(b, new) ==
  (older \cap (Resting(b) \X Resting(b))) \cup (Resting(b) \X new)

\* SubmitLimit of an order MatchLimitEmit returns at once for: nothing to match
\* for Qty <= 0, and an unknown side comes back whole and is ignored by Add.
SubmitInert(o) ==
  /\ taker = NoTaker
  /\ o.qty <= 0 \/ o.side \notin Sides
  /\ UNCHANGED vars

SubmitLimit(o) ==
  /\ taker = NoTaker
  /\ o.qty > 0 /\ o.side \in Sides
  /\ taker' = o
  /\ UNCHANGED <<book, older, misplaced>>

MatchStep ==
  /\ taker # NoTaker
  /\ CanMatch(book, taker)
  /\ book' = MatchOne(book, taker)
  /\ taker' = [taker EXCEPT !.qty = @ - Exec(book, taker)]
  /\ older' = Arrived(book', {})
  /\ UNCHANGED misplaced

\* The loop is over; what is left of the taker rests.
Rest ==
  /\ taker # NoTaker
  /\ ~CanMatch(book, taker)
  /\ LET b == EndMatch(book, taker)
     IN  /\ book' = Add(b, taker)
         /\ older' = Arrived(b, IF Ignored(b, taker) THEN {} ELSE {taker.id})
  /\ taker' = NoTaker
  /\ UNCHANGED misplaced

CancelOrder(i, seen) ==
  /\ taker = NoTaker
  /\ book.node[i] # NoNode
  /\ book' = Cancel(book, i, seen)
  /\ older' = Arrived(book', {})
  /\ misplaced' = \/ misplaced
                  \/ /\ book'.q[book.node[i].lv] = <<>>
                     /\ CancelDeletesFrom(seen) # book.node[i].side
  /\ UNCHANGED taker

\* BestAsk / BestBid pop dead prices as they look.
BestPrice(s) ==
  /\ taker = NoTaker
  /\ book' = PopDead(book, s)
  /\ UNCHANGED <<taker, older, misplaced>>

Next ==
  \/ \E o \in Order : SubmitLimit(o)
  \/ \E o \in Order : SubmitInert(o)
  \/ MatchStep
  \/ Rest
  \/ \E i \in OrderIds, seen \in {0} \cup ReusedSides : CancelOrder(i, seen)
  \/ \E s \in Sides : BestPrice(s)

Spec == Init /\ [][Next]_vars

-----------------------------------------------------------------------------
OnSide(b, s) == {i \in Resting(b) : b.node[i].side = s}

TypeOK ==
  /\ IsBook(book)
  /\ taker \in Order \cup {NoTaker}
  /\ older \subseteq OrderIds \X OrderIds
  /\ misplaced \in BOOLEAN

\* byID and the level lists always describe the same orders: every indexed order
\* is in the list of the level its node points to, exactly once, and no list
\* holds anything else (Add, Cancel and the matching loop keep both in step).
IndexMatchesLevels ==
  /\ \A i \in Resting(book) :
       Cardinality({k \in 1..Len(book.q[book.node[i].lv]) :
                      book.q[book.node[i].lv][k] = i}) = 1
  /\ \A l \in LvIds : \A k \in 1..Len(book.q[l]) :
       /\ book.node[book.q[l][k]] # NoNode
       /\ book.node[book.q[l][k]].lv = l

\* An order can be matched only if its level is the one in the map for its price
\* and the heap still knows that price.
Reachable(i) ==
  LET n == book.node[i]
  IN  book.lvl[n.side][n.price] = n.lv /\ n.price \in book.heap[n.side]

\* Until some Cancel has deleted a price from the wrong map, every resting order
\* can be matched and, between commands, the book is not crossed.
SoundUntilMisplaced ==
  ~misplaced =>
    /\ \A i \in Resting(book) : Reachable(i)
    /\ taker = NoTaker =>
         \A i \in OnSide(book, Buy), j \in OnSide(book, Sell) :
           book.node[i].price < book.node[j].price

\* Price-time priority: the maker of every trade has the best price of all
\* resting orders of its side, and is the oldest at that price.  It holds until
\* a Cancel has deleted a price from the wrong map.
PriorityStep ==
  (taker # NoTaker /\ taker' # NoTaker /\ ~misplaced) =>
    LET opp == Opp(taker.side)
    IN  \A m \in OnSide(book, opp) : book'.node[m] # book.node[m] =>
          \A j \in OnSide(book, opp) \ {m} :
            /\ AtLeast(opp, book.node[m].price, book.node[j].price)
            /\ book.node[j].price = book.node[m].price => <<m, j>> \in older

PriceTimePriority == [][PriorityStep]_vars
=============================================================================
