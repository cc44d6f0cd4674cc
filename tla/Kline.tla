------------------------------- MODULE Kline -------------------------------
(***************************************************************************)
(* One shard of ShardedAggregator, for one symbol: trades from the inbox   *)
(* become bars of the first interval (TradeAgg), and bars of each interval *)
(* become bars of the next (RollupAgg).  Everything that is emitted goes   *)
(* to the channel out.  Shards share only that channel, and the symbols of *)
(* a shard nothing but its goroutine.                                      *)
(*                                                                         *)
(* An aggregator's emit callback sends to out and then calls OfferBar of   *)
(* the next one, which may emit in turn: todo is the stack of bars the     *)
(* goroutine has still to emit before it returns to its select.            *)
(***************************************************************************)
EXTENDS Integers, Sequences, FiniteSetsExt, SequencesExt

CONSTANTS Intervals,     \* the intervals, finest first: 1s, 1m, 1h, 1d
          Offset,        \* TZOffset
          Window,        \* ReorderWindow
          FillGaps,      \* the intervals (positions) whose gaps are filled
          Times, Prices, Sizes,  \* the trades there can be
          BadTrade,      \* a trade whose price or size does not parse
          NoBar,
          InboxSize, DropWhenFull,
          OutSize,       \* capacity of the channel out
          MaxTrades      \* bound on the number of trades offered

N == Len(Intervals)

ASSUME IntervalsAssumption ==
  /\ Intervals \in Seq(Nat \ {0}) /\ N > 0
  /\ \A k \in 1..(N - 1) : Intervals[k + 1] % Intervals[k] = 0
ASSUME ConfigAssumption ==
  /\ Offset \in Nat /\ Window \in Nat /\ FillGaps \subseteq 2..N
  /\ InboxSize \in Nat \ {0} /\ OutSize \in Nat \ {0} /\ DropWhenFull \in BOOLEAN
ASSUME TradesAssumption == Times \subseteq Nat /\ Prices \subseteq Nat /\ Sizes \subseteq Nat

Trade == [ts : Times, price : Prices, size : Sizes]
Bar == [lv : 1..N, start : Int, o : Nat, h : Nat, l : Nat, c : Nat, v : Nat, n : Nat]

ASSUME ValuesAssumption == NoBar \notin Bar /\ BadTrade \notin Trade

VARIABLES
  inbox,     \* the shard's inbox
  bars,      \* symState.bars: the bars of the first interval being built
  latest,    \* symState.latestTsMs
  last,      \* symState.lastEmittedStartMs
  has,       \* symState.hasEmitted
  cur,       \* RollupAgg.cur, per coarser interval
  todo,      \* bars the emit callbacks have still to handle
  sent,      \* all bars sent to out so far; the channel holds the last ones
  nread,     \* how many of them the consumer has taken
  flushing,  \* 0: in the select; k: next to flush interval k; N + 1: returned
  ctx,       \* the context is cancelled
  reading,   \* the consumer has not left its loop
  closed,    \* out is closed
  taken,     \* history: the trades that were not dropped, in order
  nin        \* number of trades put into the inbox

sym  == <<bars, latest, last, has>>
vars == <<inbox, sym, cur, todo, sent, nread, flushing, ctx, reading, closed, taken, nin>>

bucketStart(ts, k) == ((ts + Offset) \div Intervals[k]) * Intervals[k] - Offset
End(b) == b.start + Intervals[b.lv]

\* A trade looks like a bar of one price to the aggregator above it.
AsBar(t) == [start |-> t.ts, o |-> t.price, h |-> t.price, l |-> t.price,
             c |-> t.price, v |-> t.size]

\* A new bar of interval k from its first trade or child.
Opened(k, x) == [lv |-> k, start |-> bucketStart(x.start, k),
                 o |-> x.o, h |-> x.h, l |-> x.l, c |-> x.c, v |-> x.v, n |-> 1]

Merged(b, x) ==
  [b EXCEPT !.h = IF x.h > @ THEN x.h ELSE @, !.l = IF x.l < @ THEN x.l ELSE @,
            !.c = x.c, !.v = @ + x.v, !.n = @ + 1]

Init ==
  /\ inbox = <<>>
  /\ bars = {} /\ latest = 0 /\ last = 0 /\ has = FALSE
  /\ cur = [k \in 2..N |-> NoBar]
  /\ todo = <<>> /\ sent = <<>> /\ nread = 0
  /\ flushing = 0 /\ ctx = FALSE /\ reading = TRUE /\ closed = FALSE
  /\ taken = <<>> /\ nin = 0

-----------------------------------------------------------------------------
(* The producer: OfferTrade *)

OfferTrade(t) ==
  /\ nin < MaxTrades
  /\ Len(inbox) < InboxSize
  /\ inbox' = Append(inbox, t)
  /\ nin' = nin + 1
  /\ UNCHANGED <<sym, cur, todo, sent, nread, flushing, ctx, reading, closed, taken>>

\* The newest trade is dropped.
OfferDropped ==
  /\ DropWhenFull
  /\ nin < MaxTrades /\ Len(inbox) = InboxSize
  /\ UNCHANGED vars

-----------------------------------------------------------------------------
(* The shard's goroutine *)

InSelect == flushing = 0 /\ todo = <<>>

\* The bars bs in a list, oldest first; they are of different buckets.
Sorted(bs) ==
  {s \in [1..Cardinality(bs) -> bs] :
     /\ ToSet(s) = bs
     /\ \A i, j \in DOMAIN s : i < j => s[i].start < s[j].start}
NotEmitted(bs) == {b \in bs : has => b.start > last}

\* emitReady: bars that end at or before the watermark, oldest first.
EmitReady(bs, watermark) ==
  \E ready \in Sorted({b \in NotEmitted(bs) : End(b) <= watermark}) :
    /\ bars' = bs \ ToSet(ready)
    /\ todo' = ready
    /\ last' = IF ready = <<>> THEN last ELSE Last(ready).start
    /\ has' = (has \/ ready # <<>>)

Latest(t) == IF t.ts > latest THEN t.ts ELSE latest

\* Mutant of IsLate: the watermark lags by one interval more.
IsLateByBucket(t) == Window > 0 /\ t.ts < Latest(t) - Window - Intervals[1]

IsLate(t) == Window > 0 /\ t.ts < Latest(t) - Window

TakeBad ==
  /\ InSelect /\ inbox # <<>> /\ Head(inbox) = BadTrade
  /\ inbox' = Tail(inbox)
  /\ UNCHANGED <<sym, cur, todo, sent, nread, flushing, ctx, reading, closed, taken, nin>>

\* TradeAgg.OfferTrade of a trade in front of the watermark: dropped.
TakeLate ==
  /\ InSelect /\ inbox # <<>> /\ Head(inbox) # BadTrade
  /\ IsLate(Head(inbox))
  /\ inbox' = Tail(inbox)
  /\ latest' = Latest(Head(inbox))
  /\ EmitReady(bars, latest' - Window)
  /\ UNCHANGED <<cur, sent, nread, flushing, ctx, reading, closed, taken, nin>>

TakeTrade ==
  /\ InSelect /\ inbox # <<>> /\ Head(inbox) # BadTrade
  /\ ~IsLate(Head(inbox))
  /\ inbox' = Tail(inbox)
  /\ latest' = Latest(Head(inbox))
  /\ LET x    == AsBar(Head(inbox))
         same == {b \in bars : b.start = bucketStart(x.start, 1)}
         new  == IF same = {} THEN Opened(1, x) ELSE Merged(CHOOSE b \in same : TRUE, x)
     IN  EmitReady((bars \ same) \cup {new}, latest' - Window)
  /\ taken' = Append(taken, Head(inbox))
  /\ UNCHANGED <<cur, sent, nread, flushing, ctx, reading, closed, nin>>

\* Mutants of Gaps: one empty bar too many; one too few.
GapsOneMore(b, bs) ==
  IF b.lv \notin FillGaps THEN <<>>
  ELSE [j \in 1..((bs - b.start) \div Intervals[b.lv]) |->
          [b EXCEPT !.start = @ + j * Intervals[b.lv],
                    !.o = b.c, !.h = b.c, !.l = b.c, !.v = 0, !.n = 0]]

GapsOneFewer(b, bs) ==
  IF Len(GapsOneMore(b, bs)) < 2 THEN <<>> ELSE Tail(Front(GapsOneMore(b, bs)))

\* The empty bars between bar b and the bucket bs, flat at b's close.
Gaps(b, bs) ==
  IF b.lv \notin FillGaps THEN <<>>
  ELSE [j \in 1..((bs - b.start) \div Intervals[b.lv] - 1) |->
          [b EXCEPT !.start = @ + j * Intervals[b.lv],
                    !.o = b.c, !.h = b.c, !.l = b.c, !.v = 0, !.n = 0]]

\* RollupAgg.OfferBar of interval k: the new current bar, and what it emits.
OfferBar(k, x) ==
  LET b  == cur[k]
      bs == bucketStart(x.start, k)
  IN  IF b = NoBar THEN [cur |-> Opened(k, x), emits |-> <<>>]
      ELSE IF bs > b.start THEN [cur |-> Opened(k, x), emits |-> <<b>> \o Gaps(b, bs)]
      ELSE IF bs < b.start THEN [cur |-> b, emits |-> <<>>]
      ELSE [cur |-> Merged(b, x), emits |-> <<>>]

\* One emit callback: send, which waits while out is full, then offer upwards.
Emit ==
  /\ todo # <<>>
  /\ Len(sent) - nread < OutSize
  /\ LET b == Head(todo)
     IN  /\ sent' = Append(sent, b)
         /\ IF b.lv = N
            THEN todo' = Tail(todo) /\ UNCHANGED cur
            ELSE LET r == OfferBar(b.lv + 1, b)
                 IN  /\ cur' = [cur EXCEPT ![b.lv + 1] = r.cur]
                     /\ todo' = r.emits \o Tail(todo)
  /\ UNCHANGED <<inbox, sym, nread, flushing, ctx, reading, closed, taken, nin>>

\* ctx.Done: flush interval after interval; what is left in the inbox is lost.
FlushTrades ==
  /\ InSelect /\ ctx
  /\ \E rest \in Sorted(NotEmitted(bars)) :
       /\ todo' = rest
       /\ bars' = {}
       /\ last' = IF rest = <<>> THEN last ELSE Last(rest).start
       /\ has' = (has \/ rest # <<>>)
  /\ flushing' = 2
  /\ UNCHANGED <<inbox, latest, cur, sent, nread, ctx, reading, closed, taken, nin>>

\* Mutant of FlushRollup: a bar with a single child is not flushed.
FlushRollupPlural ==
  /\ flushing \in 2..N /\ todo = <<>>
  /\ todo' = IF cur[flushing] = NoBar \/ cur[flushing].n <= 1 THEN <<>> ELSE <<cur[flushing]>>
  /\ flushing' = flushing + 1
  /\ UNCHANGED <<inbox, sym, cur, sent, nread, ctx, reading, closed, taken, nin>>

FlushRollup ==
  /\ flushing \in 2..N /\ todo = <<>>
  /\ todo' = IF cur[flushing] = NoBar THEN <<>> ELSE <<cur[flushing]>>
  /\ flushing' = flushing + 1
  /\ UNCHANGED <<inbox, sym, cur, sent, nread, ctx, reading, closed, taken, nin>>

Returned == flushing = N + 1 /\ todo = <<>>

-----------------------------------------------------------------------------
(* The consumer of out, and the process that stops them all *)

Read ==
  /\ reading /\ nread < Len(sent)
  /\ nread' = nread + 1
  /\ UNCHANGED <<inbox, sym, cur, todo, sent, flushing, ctx, reading, closed, taken, nin>>

Cancel ==
  /\ ~ctx
  /\ ctx' = TRUE
  /\ UNCHANGED <<inbox, sym, cur, todo, sent, nread, flushing, reading, closed, taken, nin>>

\* The consumer's select sees ctx.Done too.
Quit ==
  /\ ctx /\ reading
  /\ reading' = FALSE
  /\ UNCHANGED <<inbox, sym, cur, todo, sent, nread, flushing, ctx, closed, taken, nin>>

\* Mutant of Close: it waits for the consumer as well.
CloseAfterRead ==
  /\ ctx /\ Returned /\ nread = Len(sent) /\ ~closed
  /\ closed' = TRUE
  /\ UNCHANGED <<inbox, sym, cur, todo, sent, nread, flushing, ctx, reading, taken, nin>>

Close ==
  /\ ctx /\ Returned /\ ~closed
  /\ closed' = TRUE
  /\ UNCHANGED <<inbox, sym, cur, todo, sent, nread, flushing, ctx, reading, taken, nin>>

Worker == TakeBad \/ TakeLate \/ TakeTrade \/ Emit \/ FlushTrades \/ FlushRollup

Next ==
  \/ \E t \in Trade \cup {BadTrade} : OfferTrade(t)
  \/ OfferDropped
  \/ TakeBad \/ TakeLate \/ TakeTrade \/ Emit \/ FlushTrades \/ FlushRollup
  \/ Read \/ Cancel \/ Quit \/ Close

Spec == Init /\ [][Next]_vars

\* The goroutine and the caller of Close are scheduled; the consumer reads until
\* it quits.
FairSpec == Spec /\ WF_vars(Worker) /\ WF_vars(Read) /\ WF_vars(Close)

-----------------------------------------------------------------------------
TypeOK ==
  /\ inbox \in Seq(Trade \cup {BadTrade}) /\ Len(inbox) <= InboxSize
  /\ bars \subseteq Bar /\ latest \in Nat /\ last \in Int /\ has \in BOOLEAN
  /\ cur \in [2..N -> Bar \cup {NoBar}]
  /\ todo \in Seq(Bar) /\ sent \in Seq(Bar) /\ nread \in 0..Len(sent)
  /\ Len(sent) - nread <= OutSize
  /\ flushing \in 0..(N + 1)
  /\ ctx \in BOOLEAN /\ reading \in BOOLEAN /\ closed \in BOOLEAN
  /\ taken \in Seq(Trade) /\ nin \in Nat

\* The bars of one interval leave in order, each bucket once, and without a hole
\* where gaps are filled - although trades arrive out of order, whole buckets are
\* missing and the shutdown flushes half-built bars.
InOrder ==
  \A i, j \in 1..Len(sent) :
    (i < j /\ sent[i].lv = sent[j].lv) =>
      /\ sent[j].start >= End(sent[i])
      /\ sent[i].lv \in FillGaps =>
           \/ sent[j].start = End(sent[i])
           \/ \E m \in (i + 1)..(j - 1) : sent[m].lv = sent[i].lv

\* The places of the bars of interval k among the bars sent.
Emitted(k) == {i \in 1..Len(sent) : sent[i].lv = k}

\* The accepted trades, as the first aggregator sees them.
Trades == [i \in 1..Len(taken) |-> AsBar(taken[i])]

\* The places of the trades of bar b's bucket, and of the finer bars of it.
TradesOf(b)   == {i \in 1..Len(Trades) : bucketStart(Trades[i].start, 1) = b.start}
ChildrenOf(b) == {i \in Emitted(b.lv - 1) : bucketStart(sent[i].start, b.lv) = b.start}

\* The volume at the places I of the list xs.
Volume(xs, I) ==
  LET sum[i \in 0..Len(xs)] ==
        IF i = 0 THEN 0 ELSE sum[i - 1] + (IF i \in I THEN xs[i].v ELSE 0)
  IN  sum[Len(xs)]

\* Bar b is what the trades or finer bars at the places I of xs make, in this order.
Sums(b, xs, I) ==
  /\ b.o = xs[Min(I)].o /\ b.c = xs[Max(I)].c
  /\ b.h = Max({xs[i].h : i \in I}) /\ b.l = Min({xs[i].l : i \in I})
  /\ b.v = Volume(xs, I) /\ b.n = Cardinality(I)

\* A bar of the first interval holds exactly the trades of its bucket, none is
\* accepted after the bar has left, and none is left behind at the end.
BarsAreTrades ==
  Window > 0 =>
    /\ \A j \in Emitted(1) : TradesOf(sent[j]) # {} /\ Sums(sent[j], Trades, TradesOf(sent[j]))
    /\ Returned => \A i \in 1..Len(Trades) : \E j \in Emitted(1) : i \in TradesOf(sent[j])

\* A coarser bar is what the finer bars of its bucket make, in the order they left;
\* one without finer bars is an empty one at the close of the bar in front of it.
RollupsAgree ==
  \A k \in 2..N : \A j \in Emitted(k) :
    LET y == sent[j]
    IN  IF ChildrenOf(y) # {} THEN Sums(y, sent, ChildrenOf(y))
        ELSE /\ k \in FillGaps /\ y.v = 0 /\ y.n = 0
             /\ \E i \in Emitted(k) :
                  /\ i < j /\ \A m \in (i + 1)..(j - 1) : m \notin Emitted(k)
                  /\ {y.o, y.h, y.l, y.c} = {sent[i].c}

\* After the last flush every interval accounts for the volume of all trades: the
\* cascade of flushes leaves nothing in an aggregator.
FlushedInFull ==
  (Returned /\ Window > 0) =>
    \A k \in 1..N : Volume(sent, Emitted(k)) = Volume(Trades, 1..Len(Trades))

\* Once the context is cancelled Close returns, unless the consumer has left a full
\* channel behind.
CloseReturns == ctx ~> (closed \/ (~reading /\ Len(sent) - nread = OutSize))
=============================================================================
