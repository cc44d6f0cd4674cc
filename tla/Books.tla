------------------------------- MODULE Books -------------------------------
(***************************************************************************)
(* The three order books of package matching given the same commands: the  *)
(* heap book the engine uses (HeapBook, through its adapter), the level    *)
(* book with its cached best prices, and the naive book of sorted slices.  *)
(* The tests and benchmarks drive them with the same calls; each has its   *)
(* own copy of the taker, so each keeps its own rest of its quantity.      *)
(*                                                                         *)
(* Each book has a way to go wrong of its own.  `sound` is the set of the  *)
(* books to which that has not happened; a level or naive book to which it *)
(* has is not followed any further.                                        *)
(***************************************************************************)
EXTENDS HeapBook, LevelBook, NaiveBook

CONSTANT MaxCommands  \* bound on the submits and cancels

ASSUME NilsAssumption == NoNode \notin LevelNode /\ NoNode \notin Slot /\ NoTaker \notin Order

VARIABLES level,  \* the LevelOrderBook
          naive,  \* the NaiveOrderBook
          rest,   \* the taker's remaining quantity in these two
          sound,  \* history: of these two, the books that nothing has struck
          count   \* submits and cancels so far

allVars == <<book, taker, older, misplaced, level, naive, rest, sound, count>>

Others == {"level", "naive"}
NoRest == [o \in Others |-> 0]

BooksInit ==
  /\ Init
  /\ level = EmptyLevel
  /\ naive = EmptyNaive
  /\ rest = NoRest
  /\ sound = Others
  /\ count = 0

Counted == count < MaxCommands /\ count' = count + 1

\* What is left of the taker in book o.
TakerIn(o) == [taker EXCEPT !.qty = rest[o]]
LevelCan == "level" \in sound /\ LevelCanMatch(level, TakerIn("level"))
NaiveCan == "naive" \in sound /\ NaiveCanMatch(naive, TakerIn("naive"))

Submit(o) ==
  /\ Counted
  /\ SubmitLimit(o)
  /\ rest' = [b \in Others |-> IF b \in sound THEN o.qty ELSE 0]
  /\ UNCHANGED <<level, naive, sound>>

\* None of the three does anything for a quantity of 0 or an unknown side.
Inert(o) == SubmitInert(o) /\ UNCHANGED allVars

\* One iteration of the matching loop of every book that still matches.
Match ==
  /\ taker # NoTaker
  /\ \/ MatchStep
     \/ /\ ~CanMatch(book, taker) /\ (LevelCan \/ NaiveCan)
        /\ UNCHANGED vars
  /\ level' = IF LevelCan THEN LevelMatchOne(level, TakerIn("level")) ELSE level
  /\ naive' = IF NaiveCan THEN NaiveMatchOne(naive, TakerIn("naive")) ELSE naive
  /\ rest'  = [o \in Others |->
                 rest[o] - CASE o = "level" /\ LevelCan -> LevelExec(level, TakerIn(o))
                             [] o = "naive" /\ NaiveCan -> NaiveExec(naive, TakerIn(o))
                             [] OTHER -> 0]
  /\ UNCHANGED <<sound, count>>

InNaive(i) == \E s \in Sides : \E k \in 1..Len(naive.q[s]) : naive.q[s][k].id = i

\* The remainder of a taker whose id is known: the heap book ignores it while the
\* order rests, the level book also when it was cancelled, the naive book never.
AddStrikes(i) ==
  {b \in Others : \/ b = "level" /\ rest[b] > 0 /\ level.byID[i] # NoNode /\ level.byID[i].in # "list"
                  \/ b = "naive" /\ rest[b] > 0 /\ InNaive(i)}

Follow(b, new) == IF b \in sound' THEN new ELSE IF b = "level" THEN EmptyLevel ELSE EmptyNaive

RestAll ==
  /\ Rest
  /\ ~LevelCan /\ ~NaiveCan
  /\ sound' = sound \ AddStrikes(taker.id)
  /\ level' = Follow("level", LevelAdd(Healed(level, TakerIn("level")), TakerIn("level")))
  /\ naive' = Follow("naive", NaiveAdd(naive, TakerIn("naive")))
  /\ rest' = NoRest
  /\ UNCHANGED count

\* Cancel in the heap book, where it is known, and in the other two.  The naive
\* book has two versions; the second is struck by an index that is out of date.
CancelStrikes(i, second) ==
  {b \in Others :
     \/ b = "level" /\ CutsList(level, i)
     \/ /\ b = "naive" /\ second /\ naive.pos[i] # NoNode
        /\ \/ Cancel2Panics(naive, i)
           \/ naive.q[naive.pos[i].side][naive.pos[i].index + 1].id # i}

CancelAll(i, second) ==
  /\ Counted
  /\ \/ \E seen \in {0} \cup ReusedSides : CancelOrder(i, seen)
     \/ /\ taker = NoTaker /\ book.node[i] = NoNode
        /\ UNCHANGED vars
  /\ sound' = sound \ CancelStrikes(i, second)
  /\ level' = Follow("level", LevelCancel(level, i))
  /\ naive' = Follow("naive", IF second THEN Cancel2(naive, i) ELSE NaiveCancel(naive, i))
  /\ UNCHANGED rest

\* The other two books' BestAsk and BestBid only read.
BestAll(s) == BestPrice(s) /\ UNCHANGED <<level, naive, rest, sound, count>>

BooksNext ==
  \/ \E o \in Order : Submit(o)
  \/ \E o \in Order : Inert(o)
  \/ Match
  \/ RestAll
  \/ \E i \in OrderIds, second \in BOOLEAN : CancelAll(i, second)
  \/ \E s \in Sides : BestAll(s)

BooksSpec == BooksInit /\ [][BooksNext]_allVars

-----------------------------------------------------------------------------
Sound == sound \cup (IF misplaced THEN {} ELSE {"heap"})

\* The part of a sorted slice that has price p: from its first such order to its last.
Stretch(q, p) ==
  LET at == {k \in 1..Len(q) : q[k].price = p}
  IN  IF at = {} THEN <<>> ELSE SubSeq(q, Min(at), Max(at))

\* The orders of one price in time order, with their quantities, ...
QueueIn(b, s, p) ==
  CASE b = "heap"  -> LET ids == IF Live(book, s, p) THEN book.q[book.lvl[s][p]] ELSE <<>>
                      IN  [k \in DOMAIN ids |-> <<ids[k], book.node[ids[k]].qty>>]
    [] b = "level" -> [k \in DOMAIN level.q[s][p] |->
                         <<level.q[s][p][k], level.byID[level.q[s][p][k]].qty>>]
    [] b = "naive" -> LET at == Stretch(naive.q[s], p)
                      IN  [k \in DOMAIN at |-> <<at[k].id, at[k].qty>>]

\* ... the best price of a side, as a set, ...
BestIn(b, s) ==
  CASE b = "heap"  -> IF LiveInHeap(book, s) = {} THEN {} ELSE {Best(book, s)}
    [] b = "level" -> level.best[s]
    [] b = "naive" -> IF naive.q[s] = <<>> THEN {} ELSE {Head(naive.q[s]).price}

\* ... and what is left of the taker.
LeftIn(b) == IF b = "heap" THEN IF taker = NoTaker THEN 0 ELSE taker.qty ELSE rest[b]

\* What a caller can tell of book b.
Visible(b) ==
  [ left  |-> LeftIn(b),
    best  |-> [s \in Sides |-> BestIn(b, s)],
    queue |-> [s \in Sides |-> [p \in Prices |-> QueueIn(b, s, p)]] ]

\* Books to which their own defect has not happened are the same book, after
\* every command and after every trade: the same orders at every price in the
\* same order with the same quantities, the same best prices, and the same
\* quantity left of the order being matched, so that every trade had the same
\* maker, price and quantity in each.  The heap book's defect is a Cancel that
\* deletes from the wrong map; the level book's is that Cancel leaves the id in
\* byID, so that a second Cancel or a new order with it meets the old node; the
\* naive book's are that it takes an id twice and that Cancel2 trusts indexes
\* nothing has kept up to date.
BooksAgree == \A v, w \in {Visible(b) : b \in Sound} : v = w
=============================================================================
