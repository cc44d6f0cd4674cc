----------------------------- MODULE NaiveBook -----------------------------
(***************************************************************************)
(* NaiveOrderBook as a value and its operations: each side is a slice of   *)
(* orders, best first, and pos is the index from order id to position.     *)
(*                                                                         *)
(*   q[s]    bids / asks                                                   *)
(*   pos[i]  the side and the index (from 0) stored for order i, or NoNode *)
(*                                                                         *)
(* pos is written when an order is inserted and by Cancel2, and by nothing *)
(* else: the loops that should renumber it in insertBid and insertAsk run  *)
(* from lo to hi, which are equal there.                                   *)
(***************************************************************************)
EXTENDS BookOps, SequencesExt

\* orderPos
Slot == [side : Sides, index : Nat]

EmptyNaive ==
  [q |-> [s \in Sides |-> <<>>], pos |-> [i \in OrderIds |-> NoNode]]

\* The index the binary search of insertBid / insertAsk ends at: every order in front
\* of it has a price at least as good, and no order behind it has.
InsertAt0(b, o) ==
  CHOOSE k \in 0..Len(b.q[o.side]) :
    \A m \in 1..Len(b.q[o.side]) : AtLeast(o.side, b.q[o.side][m].price, o.price) <=> m <= k

\* There is no check for an id that is already in the book.
NaiveAdd(b, o) ==
  IF o.qty <= 0 THEN b
  ELSE LET k == InsertAt0(b, o)
       IN  [b EXCEPT
              !.q[o.side] = InsertAt(@, k + 1, [id |-> o.id, price |-> o.price, qty |-> o.qty]),
              !.pos[o.id] = [side |-> o.side, index |-> k]]

NaiveCanMatch(b, t) ==
  /\ t.qty > 0
  /\ b.q[Opp(t.side)] # <<>>
  /\ Crosses(t.side, Head(b.q[Opp(t.side)]).price, t.price)

NaiveExec(b, t) ==
  LET m == Head(b.q[Opp(t.side)]).qty IN IF t.qty < m THEN t.qty ELSE m

\* One iteration of matchBuy / matchSell; popBestAsk / popBestBid leave pos alone.
NaiveMatchOne(b, t) ==
  LET s == Opp(t.side)
      x == NaiveExec(b, t)
  IN  IF x = Head(b.q[s]).qty THEN [b EXCEPT !.q[s] = Tail(@)]
      ELSE [b EXCEPT !.q[s][1].qty = @ - x]

\* Cancel looks through bids and then asks and ignores pos.
NaiveCancel(b, i) ==
  LET at(s) == {k \in 1..Len(b.q[s]) : b.q[s][k].id = i}
      first(s) == CHOOSE k \in at(s) : \A j \in at(s) : k <= j
  IN  CASE at(Buy) # {}  -> [b EXCEPT !.q[Buy] = RemoveAt(@, first(Buy))]
        [] at(Sell) # {} -> [b EXCEPT !.q[Sell] = RemoveAt(@, first(Sell))]
        [] OTHER         -> b

\* The slice expression of removeAtOrderPtr panics when the index is not in the slice.
Cancel2Panics(b, i) == b.pos[i] # NoNode /\ b.pos[i].index >= Len(b.q[b.pos[i].side])

\* Cancel2 removes what is at the stored index, whoever it is, and renumbers the
\* orders behind it.
Cancel2(b, i) ==
  IF b.pos[i] = NoNode THEN b
  ELSE LET s == b.pos[i].side
           k == b.pos[i].index
           r == RemoveAt(b.q[s], k + 1)
       IN  [q   |-> [b.q EXCEPT ![s] = r],
            pos |-> [j \in OrderIds |->
                       IF j = i THEN NoNode
                       ELSE IF \E n \in (k + 1)..Len(r) : r[n].id = j
                            THEN [side |-> s, index |-> (CHOOSE n \in (k + 1)..Len(r) : r[n].id = j) - 1]
                            ELSE b.pos[j]]]
=============================================================================
