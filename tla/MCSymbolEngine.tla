--------------------------- MODULE MCSymbolEngine ---------------------------
(***************************************************************************)
(* SymbolEngine with the real order book on two order ids and one valid    *)
(* price: a bid, an ask that meets it, a cancel of the bid, and an ask the *)
(* actor refuses because its price is 0.                                   *)
(***************************************************************************)
EXTENDS SymbolEngine

CONSTANT NoNode

B == INSTANCE AdapterOps WITH
       OrderIds <- {1, 2}, Prices <- {0, 1}, LvIds <- 1..5, NoLv <- 0

Submit(i, s, p, q) == [type |-> "submit", id |-> i, side |-> s, price |-> p, qty |-> q]
CancelCmd(i)       == [type |-> "cancel", id |-> i, side |-> 0, price |-> 0, qty |-> 0]

Bid == Submit(1, B!Buy, 1, 1)
Ask == Submit(2, B!Sell, 1, 1)
BadAsk == Submit(2, B!Sell, 0, 1)

ValidCommands == {Bid, Ask, CancelCmd(1)}
AllCommands   == ValidCommands \cup {BadAsk}
MostCommands  == {Bid, CancelCmd(1), BadAsk}
FewCommands   == {Bid, BadAsk}

MCNoReq == [type |-> "none", id |-> 0, side |-> 0, price |-> 0, qty |-> 0]
MCEvs == B!AdapterEvs
MCRejected == B!Ev("Rejected", 0, 0)
MCCmdEnd   == B!Ev("CmdEnd", 0, 0)
MCBook0    == B!EmptyBook

\* The actor's checks in front of book.SubmitLimit and book.Cancel.
MCValid(c) ==
  IF c.type = "submit" THEN c.id # 0 /\ c.qty > 0 /\ c.price > 0 /\ c.side \in B!Sides
  ELSE c.id # 0

\* The books reachable from the empty one; BookAssumption checks that eight
\* rounds are enough.
MCBooks ==
  LET reach[n \in 0..8] ==
        IF n = 0 THEN {MCBook0}
        ELSE reach[n - 1] \cup
             {B!AdapterApply(b, c).book : b \in reach[n - 1], c \in AllCommands}
  IN  reach[8]

MCApply(b, c) == B!AdapterApply(b, c)

\* For the run that asks nothing of the book: every command is accepted and rests
\* in a book that stays as it is.
OneBook == {MCBook0}
Accepts(b, c) ==
  [book |-> b, evs |-> <<B!Ev("Accepted", c.id, 0), B!Ev("Added", c.id, 0)>>, found |-> TRUE]
=============================================================================
