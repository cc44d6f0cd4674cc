----------------------------- MODULE AdapterOps -----------------------------
(***************************************************************************)
(* HeapBookAdapter: a whole SubmitLimit or Cancel on a book value, with    *)
(* the events it emits.  The matching loop of BookOps runs to its end; it  *)
(* makes at most one trade per resting order.                              *)
(***************************************************************************)
EXTENDS BookOps, FiniteSets

Ev(t, id, other) == [t |-> t, id |-> id, other |-> other]
EvTypes == {"Accepted", "Rejected", "Added", "Cancelled", "Trade"}
AdapterEvs == {Ev(t, i, j) : t \in EvTypes, i \in OrderIds \cup {0}, j \in OrderIds \cup {0}}

\* One iteration of the loop for a taker with id `id`; r is the book, what is left of
\* the taker and the events so far.
Iterated(r, id) ==
  IF ~CanMatch(r.b, r.t) THEN r
  ELSE [ b   |-> MatchOne(r.b, r.t),
         t   |-> [r.t EXCEPT !.qty = @ - Exec(r.b, r.t)],
         evs |-> Append(r.evs, Ev("Trade", Maker(r.b, r.t), id)) ]

Loop(b, o) ==
  LET run[k \in 0..Cardinality(OrderIds)] ==
        IF k = 0 THEN [b |-> b, t |-> o, evs |-> <<>>] ELSE Iterated(run[k - 1], o.id)
  IN  run

MatchAll(b, o) ==
  LET e == Loop(b, o)[Cardinality(OrderIds)] IN [e EXCEPT !.b = EndMatch(e.b, e.t)]

\* Accepted, one Trade per match, and Added when something is left - Added also
\* when Add ignores the order because its id is resting already.
AdapterSubmit(b, o) ==
  LET m == IF o.qty <= 0 THEN [b |-> b, t |-> [o EXCEPT !.qty = 0], evs |-> <<>>]
           ELSE IF o.side \notin Sides THEN [b |-> b, t |-> o, evs |-> <<>>]
           ELSE MatchAll(b, o)
  IN  [ book  |-> Add(m.b, m.t),
        evs   |-> <<Ev("Accepted", o.id, 0)>> \o m.evs
                    \o (IF m.t.qty > 0 THEN <<Ev("Added", o.id, 0)>> ELSE <<>>),
        found |-> TRUE ]

\* With one book no other actor touches the pooled node: n.side reads 0.
AdapterCancel(b, i) ==
  IF b.node[i] = NoNode
  THEN [book |-> b, evs |-> <<Ev("Rejected", i, 0)>>, found |-> FALSE]
  ELSE [book |-> Cancel(b, i, 0), evs |-> <<Ev("Cancelled", i, 0)>>, found |-> TRUE]

\* applyCommandToBook, and the same two calls in the actor.
AdapterApply(b, c) ==
  IF c.type = "submit"
  THEN AdapterSubmit(b, [id |-> c.id, side |-> c.side, price |-> c.price, qty |-> c.qty])
  ELSE AdapterCancel(b, c.id)
=============================================================================
