---------------------------- MODULE KlineProofs ----------------------------
(***************************************************************************)
(* The bars of every interval leave the shard in order, each bucket once   *)
(* and without a hole where gaps are filled; a bar of the first interval   *)
(* holds the trades of its bucket, a coarser bar what the finer bars of    *)
(* its bucket make, and a flush leaves no volume behind: for all           *)
(* intervals, offsets, windows and trades.  The invariants are about the   *)
(* bars that have been sent and the ones still on the call stack (todo)    *)
(* together with the bar each RollupAgg is building.                       *)
(***************************************************************************)
EXTENDS Kline, SequenceTheorems, FiniteSetTheorems, WellFoundedInduction, TLAPS

\* Bar y is of a later bucket than x.
Before(x, y) == y.start >= End(x)

\* The bars that are sent, or will be before the goroutine is back in its select.
Out == {sent[i] : i \in 1..Len(sent)} \cup {todo[i] : i \in 1..Len(todo)}

\* A start of a bucket of interval k.
Aligned(s, k) == \E q \in Int : s = q * Intervals[k] - Offset

\* What is being built: bars of the first interval in different buckets, and one
\* bar of each coarser interval.
Building ==
  /\ IsFiniteSet(bars)
  /\ \A b \in bars : b.lv = 1 /\ Aligned(b.start, 1)
  /\ \A b, c \in bars : b.start = c.start => b = c
  /\ has => Aligned(last, 1)
  /\ \A k \in 2..N : cur[k] # NoBar => cur[k].lv = k /\ Aligned(cur[k].start, k)

\* The call stack: coarser bars are emitted first, and a flush of interval k hands
\* nothing to the aggregators it has already flushed.
Stack ==
  /\ \A i, j \in 1..Len(todo) :
       i < j => \/ todo[i].lv > todo[j].lv
                \/ todo[i].lv = todo[j].lv /\ Before(todo[i], todo[j])
  /\ flushing >= 2 => \A i \in 1..Len(todo) : todo[i].lv >= flushing - 1

\* The order in which bars have left and will leave.
Order ==
  /\ \A i, j \in 1..Len(sent) :
       (i < j /\ sent[i].lv = sent[j].lv) => Before(sent[i], sent[j])
  /\ \A i \in 1..Len(sent), j \in 1..Len(todo) :
       sent[i].lv = todo[j].lv => Before(sent[i], todo[j])
  /\ \A x \in Out : x.lv = 1 => has /\ x.start <= last
  /\ \A x \in Out : (x.lv # 1 /\ flushing <= x.lv) =>
       cur[x.lv] # NoBar /\ Before(x, cur[x.lv])

\* Bar x is followed by the next bucket: by a bar that leaves, or by the one being
\* built; unless the interval has been flushed and x was the last.
Followed(x) ==
  \/ \E y \in Out : y.lv = x.lv /\ y.start = End(x)
  \/ flushing <= x.lv /\ cur[x.lv] # NoBar /\ cur[x.lv].start = End(x)
  \/ flushing > x.lv /\ \A y \in Out : y.lv = x.lv => y.start <= x.start

NoHole == \A x \in Out : x.lv \in FillGaps => Followed(x)

IInv == TypeOK /\ Building /\ Stack /\ Order /\ NoHole

-----------------------------------------------------------------------------
(* Buckets *)

LEMMA IntervalsArePositive ==
  /\ N \in Nat \ {0}
  /\ \A k \in 1..N : Intervals[k] \in Nat \ {0}
<1>1. Len(Intervals) \in Nat /\ \A k \in 1..Len(Intervals) : Intervals[k] \in Nat \ {0}
  BY IntervalsAssumption, ElementOfSeq, LenProperties
<1> QED
  BY <1>1, IntervalsAssumption DEF N

\* Multiples of a positive number are apart by that number.
LEMMA Multiples ==
  ASSUME NEW I \in Nat \ {0}, NEW i \in Int, NEW j \in Int, i < j
  PROVE  i * I + I <= j * I
<1>1. (j - i - 1) * I >= 0
  BY SMT
<1>2. (j - i - 1) * I = j * I - i * I - I
  BY SMT
<1> QED
  BY <1>1, <1>2, SMT

LEMMA DivOfMultiple ==
  ASSUME NEW I \in Nat \ {0}, NEW i \in Int
  PROVE  (i * I) \div I = i
  BY SMT

\* Different bucket starts of an interval are a whole number of intervals apart.
LEMMA BucketsApart ==
  ASSUME NEW k \in 1..N, NEW s, NEW t, Aligned(s, k), Aligned(t, k), s < t
  PROVE  /\ s + Intervals[k] <= t
         /\ \E n \in Nat \ {0} : t = s + n * Intervals[k]
<1>1. PICK p \in Int : s = p * Intervals[k] - Offset
  BY DEF Aligned
<1>2. PICK q \in Int : t = q * Intervals[k] - Offset
  BY DEF Aligned
<1> DEFINE I == Intervals[k]
<1>3. I \in Nat \ {0} /\ Offset \in Nat
  BY IntervalsArePositive, ConfigAssumption
<1>4. p * I - Offset < q * I - Offset
  BY <1>1, <1>2
<1> HIDE DEF I
<1>5. p < q
  <2>1. CASE q < p
    <3>1. q * I + I <= p * I
      BY <1>3, <2>1, Multiples
    <3>2. q * I \in Int /\ p * I \in Int
      BY <1>3
    <3> QED
      BY <3>1, <3>2, <1>3, <1>4
  <2>2. CASE q = p
    <3>1. p * I \in Int
      BY <1>3
    <3> QED
      BY <2>2, <3>1, <1>3, <1>4
  <2> QED
    BY <2>1, <2>2
<1>6. p * I + I <= q * I
  BY <1>3, <1>5, Multiples
<1>7. q * I = p * I + (q - p) * I /\ p * I \in Int /\ q * I \in Int /\ (q - p) * I \in Int
  BY <1>3, SMT
<1>8. q - p \in Nat \ {0} /\ q * I - Offset = p * I - Offset + (q - p) * I
  BY <1>3, <1>5, <1>7
<1>9. p * I - Offset + I <= q * I - Offset
  BY <1>3, <1>6, <1>7
<1> QED
  BY <1>1, <1>2, <1>8, <1>9 DEF I

\* What an aggregator reads of a trade or of a finer bar.
Piece(x) == /\ x.start \in Int /\ x.o \in Nat /\ x.h \in Nat
            /\ x.l \in Nat /\ x.c \in Nat /\ x.v \in Nat

LEMMA Pieces ==
  /\ \A t \in Trade : Piece(AsBar(t)) /\ AsBar(t).start \in Nat
  /\ \A b \in Bar : Piece(b) /\ b.lv \in 1..N /\ b.n \in Nat
<1>1. ASSUME NEW t \in Trade PROVE Piece(AsBar(t)) /\ AsBar(t).start \in Nat
  <2>1. t.ts \in Nat /\ t.price \in Nat /\ t.size \in Nat
    BY TradesAssumption DEF Trade
  <2>2. /\ AsBar(t).start = t.ts /\ AsBar(t).o = t.price /\ AsBar(t).h = t.price
        /\ AsBar(t).l = t.price /\ AsBar(t).c = t.price /\ AsBar(t).v = t.size
    BY DEF AsBar
  <2> QED
    BY <2>1, <2>2 DEF Piece
<1>2. ASSUME NEW b \in Bar PROVE Piece(b) /\ b.lv \in 1..N /\ b.n \in Nat
  BY DEF Bar, Piece
<1> QED
  BY <1>1, <1>2

LEMMA BucketStart ==
  ASSUME NEW k \in 1..N, NEW ts \in Int
  PROVE  bucketStart(ts, k) \in Int /\ Aligned(bucketStart(ts, k), k)
<1>1. Intervals[k] \in Nat \ {0} /\ Offset \in Nat
  BY IntervalsArePositive, ConfigAssumption
<1>2. (ts + Offset) \div Intervals[k] \in Int
  BY <1>1
<1>3. ((ts + Offset) \div Intervals[k]) * Intervals[k] \in Int
  BY <1>1, <1>2
<1> QED
  BY <1>1, <1>2, <1>3 DEF bucketStart, Aligned

LEMMA OpenedBar ==
  ASSUME NEW k \in 1..N, NEW x, Piece(x)
  PROVE  /\ Opened(k, x) \in Bar
         /\ Opened(k, x).lv = k
         /\ Opened(k, x).start = bucketStart(x.start, k)
         /\ Aligned(Opened(k, x).start, k)
<1>1. bucketStart(x.start, k) \in Int /\ Aligned(bucketStart(x.start, k), k)
  BY BucketStart DEF Piece
<1>2. Opened(k, x).lv = k /\ Opened(k, x).start = bucketStart(x.start, k)
  BY DEF Opened
<1>3. Opened(k, x) \in Bar
  BY <1>1 DEF Opened, Bar, Piece
<1> QED
  BY <1>1, <1>2, <1>3

LEMMA MergedBar ==
  ASSUME NEW b \in Bar, NEW x, Piece(x)
  PROVE  /\ Merged(b, x) \in Bar
         /\ Merged(b, x).lv = b.lv
         /\ Merged(b, x).start = b.start
<1> DEFINE h == IF x.h > b.h THEN x.h ELSE b.h
           l == IF x.l < b.l THEN x.l ELSE b.l
<1>1. h \in Nat /\ l \in Nat /\ b.v + x.v \in Nat /\ b.n + 1 \in Nat
  BY Pieces DEF Piece
<1>2. Merged(b, x) = [b EXCEPT !.h = h, !.l = l, !.c = x.c, !.v = b.v + x.v, !.n = b.n + 1]
  BY DEF Merged, Bar
<1> DEFINE v == b.v + x.v
           n == b.n + 1
<1> HIDE DEF h, l, v, n
<1>3. [b EXCEPT !.h = h, !.l = l, !.c = x.c, !.v = v, !.n = n] \in Bar
  BY <1>1 DEF Bar, Piece, v, n
<1>4. /\ [b EXCEPT !.h = h, !.l = l, !.c = x.c, !.v = v, !.n = n].lv = b.lv
      /\ [b EXCEPT !.h = h, !.l = l, !.c = x.c, !.v = v, !.n = n].start = b.start
  BY DEF Bar
<1> QED
  BY <1>2, <1>3, <1>4 DEF v, n

LEMMA EndOfBar ==
  ASSUME NEW b \in Bar
  PROVE  End(b) = b.start + Intervals[b.lv] /\ End(b) \in Int /\ End(b) > b.start
  BY IntervalsArePositive DEF End, Bar

-----------------------------------------------------------------------------
(* What RollupAgg.OfferBar emits *)

LEMMA GapBars ==
  ASSUME NEW b \in Bar, NEW n \in Nat \ {0}, NEW bs \in Int,
         bs = b.start + n * Intervals[b.lv]
  PROVE  /\ Gaps(b, bs) \in Seq(Bar)
         /\ b.lv \in FillGaps => Len(Gaps(b, bs)) = n - 1
         /\ b.lv \notin FillGaps => Len(Gaps(b, bs)) = 0
         /\ \A j \in 1..Len(Gaps(b, bs)) :
              /\ Gaps(b, bs)[j].lv = b.lv
              /\ Gaps(b, bs)[j].start = b.start + j * Intervals[b.lv]
<1> DEFINE I == Intervals[b.lv]
           gap(j) == [b EXCEPT !.start = @ + j * I,
                               !.o = b.c, !.h = b.c, !.l = b.c, !.v = 0, !.n = 0]
<1>1. I \in Nat \ {0} /\ b.start \in Int /\ b.lv \in 1..N /\ b.c \in Nat
  BY IntervalsArePositive, Pieces DEF Piece
<1> HIDE DEF I
<1>2. n * I \in Int /\ (n * I) \div I = n
  BY <1>1, DivOfMultiple
<1>3. (bs - b.start) \div I - 1 = n - 1
  <2>1. bs - b.start = n * I
    BY <1>1, <1>2 DEF I
  <2> QED
    BY <1>2, <2>1
<1>4. ASSUME NEW j \in Int
      PROVE  gap(j) \in Bar /\ gap(j).lv = b.lv /\ gap(j).start = b.start + j * I
  <2>1. b.start + j * I \in Int
    BY <1>1
  <2> DEFINE s == b.start + j * I
             g == [b EXCEPT !.start = s, !.o = b.c, !.h = b.c, !.l = b.c, !.v = 0, !.n = 0]
  <2>2. gap(j) = g
    BY DEF Bar
  <2> HIDE DEF s
  <2>3. g \in Bar /\ g.lv = b.lv /\ g.start = s
    BY <1>1, <2>1 DEF Bar, s
  <2> QED
    BY <2>2, <2>3 DEF s
<1>5. CASE b.lv \in FillGaps
  <2>1. Gaps(b, bs) = [j \in 1..(n - 1) |-> gap(j)]
    BY <1>3, <1>5 DEF Gaps, I
  <2> HIDE DEF gap
  <2>2. n - 1 \in Nat
    OBVIOUS
  <2>3. /\ [j \in 1..(n - 1) |-> gap(j)] \in Seq(Bar)
        /\ Len([j \in 1..(n - 1) |-> gap(j)]) = n - 1
    BY <1>4, <2>2
  <2> QED
    BY <1>4, <1>5, <2>1, <2>2, <2>3 DEF I
<1>6. CASE b.lv \notin FillGaps
  BY <1>6 DEF Gaps
<1> QED
  BY <1>5, <1>6

\* A later child closes the current bar: it leaves, followed by the bars that fill
\* the gap, one interval after the other, and all are before the new current bar.
LEMMA OfferBarCloses ==
  ASSUME NEW k \in 2..N, NEW b \in Bar, b.lv = k, Aligned(b.start, k), cur[k] = b,
         NEW x, Piece(x), bucketStart(x.start, k) > b.start
  PROVE  LET r == OfferBar(k, x)
         IN  /\ r.cur \in Bar /\ r.cur.lv = k /\ Aligned(r.cur.start, k)
             /\ r.emits \in Seq(Bar) /\ Len(r.emits) >= 1 /\ r.emits[1] = b
             /\ \A i \in 1..Len(r.emits) :
                  r.emits[i].lv = k /\ r.emits[i].start >= b.start /\ Before(r.emits[i], r.cur)
             /\ \A i, j \in 1..Len(r.emits) : i < j => Before(r.emits[i], r.emits[j])
             /\ k \in FillGaps =>
                  /\ \A i \in 1..(Len(r.emits) - 1) : r.emits[i + 1].start = End(r.emits[i])
                  /\ r.cur.start = End(r.emits[Len(r.emits)])
<1> DEFINE bs == bucketStart(x.start, k)
           new == Opened(k, x)
           I == Intervals[k]
           e == <<b>> \o Gaps(b, bs)
<1>0. k \in 1..N /\ N \in Nat
  BY IntervalsArePositive
<1>1. b # NoBar
  BY ValuesAssumption
<1>2. OfferBar(k, x) = [cur |-> new, emits |-> e]
  BY <1>1 DEF OfferBar
<1>3. new \in Bar /\ new.lv = k /\ new.start = bs /\ Aligned(new.start, k)
  BY <1>0, OpenedBar
<1>4. PICK n \in Nat \ {0} : bs = b.start + n * I
  BY <1>0, <1>3, BucketsApart
<1>5. /\ Gaps(b, bs) \in Seq(Bar)
      /\ k \in FillGaps => Len(Gaps(b, bs)) = n - 1
      /\ k \notin FillGaps => Len(Gaps(b, bs)) = 0
      /\ \A j \in 1..Len(Gaps(b, bs)) :
           Gaps(b, bs)[j].lv = k /\ Gaps(b, bs)[j].start = b.start + j * I
  <2> HIDE DEF bs
  <2>0. bs \in Int
    BY <1>3, Pieces DEF Piece
  <2>1. bs = b.start + n * Intervals[b.lv] /\ I = Intervals[b.lv]
    BY <1>4
  <2>2. /\ Gaps(b, bs) \in Seq(Bar)
        /\ b.lv \in FillGaps => Len(Gaps(b, bs)) = n - 1
        /\ b.lv \notin FillGaps => Len(Gaps(b, bs)) = 0
        /\ \A j \in 1..Len(Gaps(b, bs)) :
             /\ Gaps(b, bs)[j].lv = b.lv
             /\ Gaps(b, bs)[j].start = b.start + j * Intervals[b.lv]
    BY <2>0, <2>1, GapBars
  <2> HIDE DEF I
  <2> QED
    BY <2>1, <2>2, Zenon
<1>6. I \in Nat \ {0} /\ b.start \in Int
  BY <1>0, IntervalsArePositive, Pieces DEF Piece
<1> DEFINE g == Gaps(b, bs)
<1>7. /\ e \in Seq(Bar) /\ Len(e) = 1 + Len(g) /\ e[1] = b /\ Len(g) \in Nat
      /\ \A i \in 2..Len(e) : e[i] = g[i - 1]
  <2> HIDE DEF g
  <2>1. Len(<<b>>) = 1 /\ <<b>>[1] = b /\ <<b>> \in Seq(Bar) /\ g \in Seq(Bar) /\ Len(g) \in Nat
    BY <1>5 DEF g
  <2>2. /\ <<b>> \o g \in Seq(Bar) /\ Len(<<b>> \o g) = 1 + Len(g)
        /\ \A i \in 1..(1 + Len(g)) : (<<b>> \o g)[i] = IF i <= 1 THEN <<b>>[i] ELSE g[i - 1]
    BY <2>1, ConcatProperties
  <2> QED
    BY <2>1, <2>2 DEF g
<1> HIDE DEF I, g, e, bs, new
<1>8. ASSUME NEW i \in 1..Len(e)
      PROVE  e[i] \in Bar /\ e[i].lv = k /\ e[i].start = b.start + (i - 1) * I
  <2>1. CASE i = 1
    <3>1. (i - 1) * I = 0
      BY <2>1, <1>6
    <3> QED
      BY <2>1, <3>1, <1>6, <1>7
  <2>2. CASE i # 1
    BY <2>2, <1>5, <1>7 DEF g, bs
  <2> QED
    BY <2>1, <2>2
<1>9. ASSUME NEW i \in 1..Len(e)
      PROVE  /\ (i - 1) * I \in Int /\ (i - 1) * I >= 0 /\ (i - 1) * I + I = i * I
             /\ End(e[i]) = b.start + i * I
  <2>1. (i - 1) * I \in Int /\ (i - 1) * I >= 0
    BY <1>6, <1>7, SMT
  <2>2. (i - 1) * I + I = i * I
    BY <1>6, <1>7, SMT
  <2>3. End(e[i]) = b.start + (i - 1) * I + I
    BY <1>8, EndOfBar DEF I
  <2> QED
    BY <2>1, <2>2, <2>3, <1>6
<1>10. ASSUME NEW i \in 1..Len(e), NEW j \in 1..Len(e), i < j
       PROVE  Before(e[i], e[j])
  <2>1. i * I <= (j - 1) * I
    <3>1. CASE i = j - 1
      BY <3>1, <1>6, <1>7
    <3>2. CASE i < j - 1
      <4>1. i * I + I <= (j - 1) * I
        BY <3>2, <1>6, <1>7, Multiples
      <4>2. i * I \in Int /\ (j - 1) * I \in Int
        BY <1>6, <1>7
      <4> QED
        BY <4>1, <4>2, <1>6
    <3> QED
      BY <3>1, <3>2, <1>7, <1>10
  <2>2. i * I \in Int /\ (j - 1) * I \in Int
    BY <1>6, <1>7
  <2>3. End(e[i]) = b.start + i * I /\ e[j].start = b.start + (j - 1) * I
    BY <1>8, <1>9
  <2> DEFINE p == i * I
             q == (j - 1) * I
  <2>4. p <= q /\ p \in Int /\ q \in Int /\ End(e[i]) = b.start + p /\ e[j].start = b.start + q
    BY <2>1, <2>2, <2>3
  <2> HIDE DEF p, q
  <2> QED
    BY <2>4, <1>6 DEF Before
<1>11. ASSUME NEW i \in 1..Len(e)
       PROVE  /\ e[i].start >= b.start
              /\ Before(e[i], new)
              /\ (k \in FillGaps /\ i = Len(e)) => new.start = End(e[i])
  <2>1. i * I \in Int /\ n * I \in Int /\ i \in Int
    BY <1>6, <1>7
  <2>2. i <= n /\ ((k \in FillGaps /\ i = Len(e)) => i = n)
    BY <1>5, <1>7 DEF g, bs
  <2>3. i * I <= n * I
    <3>1. CASE i = n
      BY <3>1, <2>1
    <3>2. CASE i < n
      <4>1. i * I + I <= n * I
        BY <3>2, <2>1, <1>6, Multiples
      <4> QED
        BY <4>1, <2>1, <1>6
    <3> QED
      BY <3>1, <3>2, <2>2, <2>1
  <2>4. new.start = b.start + n * I
    BY <1>3, <1>4 DEF bs, I, new
  <2>5. e[i].start >= b.start
    <3>1. e[i].start = b.start + (i - 1) * I
      BY <1>8
    <3>2. (i - 1) * I \in Int /\ (i - 1) * I >= 0
      BY <1>9
    <3> QED
      BY <3>1, <3>2, <1>6
  <2>6. End(e[i]) = b.start + i * I
    BY <1>9
  <2>7. Before(e[i], new)
    BY <2>1, <2>3, <2>4, <2>6, <1>6 DEF Before
  <2> QED
    BY <2>2, <2>4, <2>5, <2>6, <2>7
<1>12. ASSUME k \in FillGaps, NEW i \in 1..(Len(e) - 1)
       PROVE  e[i + 1].start = End(e[i])
  <2>1. i \in 1..Len(e) /\ i + 1 \in 1..Len(e) /\ (i + 1) - 1 = i
    BY <1>7
  <2> QED
    BY <2>1, <1>8, <1>9
<1>13. Len(e) >= 1 /\ Len(e) \in 1..Len(e)
  BY <1>7
<1> QED
  BY <1>2, <1>3, <1>7, <1>8, <1>10, <1>11, <1>12, <1>13

\* Otherwise nothing leaves, and the current bar stays in its bucket.
LEMMA OfferBarKeeps ==
  ASSUME NEW k \in 2..N, cur[k] \in Bar => cur[k].lv = k /\ Aligned(cur[k].start, k),
         cur[k] \in Bar \cup {NoBar},
         NEW x, Piece(x), cur[k] = NoBar \/ ~(bucketStart(x.start, k) > cur[k].start)
  PROVE  LET r == OfferBar(k, x)
         IN  /\ r.cur \in Bar /\ r.cur.lv = k /\ Aligned(r.cur.start, k)
             /\ r.emits = <<>>
             /\ cur[k] # NoBar => r.cur.start = cur[k].start
<1>0. k \in 1..N /\ N \in Nat
  BY IntervalsArePositive
<1>1. CASE cur[k] = NoBar
  <2>1. OfferBar(k, x) = [cur |-> Opened(k, x), emits |-> <<>>]
    BY <1>1 DEF OfferBar
  <2> QED
    BY <1>0, <1>1, <2>1, OpenedBar
<1>2. CASE cur[k] # NoBar
  <2>1. \/ OfferBar(k, x) = [cur |-> cur[k], emits |-> <<>>]
        \/ OfferBar(k, x) = [cur |-> Merged(cur[k], x), emits |-> <<>>]
    BY <1>2 DEF OfferBar
  <2> QED
    BY <1>2, <2>1, MergedBar
<1> QED
  BY <1>1, <1>2

-----------------------------------------------------------------------------
(* The bars of the first interval *)

LEMMA SortedList ==
  ASSUME NEW bs, bs \subseteq Bar, IsFiniteSet(bs), NEW s \in Sorted(bs)
  PROVE  /\ s \in Seq(Bar)
         /\ \A i \in 1..Len(s) : s[i] \in bs
         /\ \A i, j \in 1..Len(s) : i < j => s[i].start < s[j].start
         /\ s # <<>> => /\ Len(s) \in 1..Len(s) /\ Last(s) = s[Len(s)]
                        /\ \A i \in 1..Len(s) : s[i].start <= Last(s).start
         /\ ToSet(s) = bs
<1>1. Cardinality(bs) \in Nat
  BY FS_CardinalityType
<1>2. s \in [1..Cardinality(bs) -> bs] /\ ToSet(s) = bs
  BY DEF Sorted
<1>3. s \in Seq(bs) /\ Len(s) = Cardinality(bs)
  BY <1>1, <1>2
<1>4. s \in Seq(Bar)
  BY <1>3, SeqMonotonic
<1>5. \A i \in 1..Len(s) : s[i] \in bs
  BY <1>2, <1>3
<1>6. \A i, j \in 1..Len(s) : i < j => s[i].start < s[j].start
  BY <1>2, <1>3 DEF Sorted
<1>7. ASSUME s # <<>>
      PROVE  /\ Len(s) \in 1..Len(s) /\ Last(s) = s[Len(s)]
             /\ \A i \in 1..Len(s) : s[i].start <= Last(s).start
  <2>1. Len(s) \in Nat /\ Len(s) # 0
    BY <1>4, <1>7, EmptySeq, LenProperties
  <2>2. Last(s) = s[Len(s)]
    BY DEF Last
  <2>3. \A i \in 1..Len(s) : s[i].start \in Int
    BY <1>5, Pieces DEF Piece
  <2> QED
    BY <2>1, <2>2, <2>3, <1>6
<1> QED
  BY <1>2, <1>4, <1>5, <1>6, <1>7

LEMMA OutBars ==
  ASSUME TypeOK
  PROVE  /\ Len(sent) \in Nat /\ Len(todo) \in Nat
         /\ \A i \in 1..Len(sent) : sent[i] \in Bar /\ sent[i] \in Out
         /\ \A i \in 1..Len(todo) : todo[i] \in Bar /\ todo[i] \in Out
         /\ \A x \in Out : /\ x \in Bar
                           /\ \/ \E i \in 1..Len(sent) : x = sent[i]
                              \/ \E i \in 1..Len(todo) : x = todo[i]
<1>1. sent \in Seq(Bar) /\ todo \in Seq(Bar)
  BY DEF TypeOK
<1>2. /\ Len(sent) \in Nat /\ Len(todo) \in Nat
      /\ \A i \in 1..Len(sent) : sent[i] \in Bar
      /\ \A i \in 1..Len(todo) : todo[i] \in Bar
  BY <1>1, ElementOfSeq, LenProperties
<1> QED
  BY <1>2 DEF Out

\* Bars of the first interval that have not left, oldest first, become the call stack.
LEMMA FirstBarsLeave ==
  ASSUME IInv, todo = <<>>, sent' = sent, cur' = cur,
         flushing = 0, flushing' = 0 \/ flushing' = 2,
         NEW R, R \subseteq Bar, IsFiniteSet(R),
         \A b \in R : b.lv = 1 /\ Aligned(b.start, 1) /\ (has => b.start > last),
         NEW s \in Sorted(R), todo' = s,
         last' = IF s = <<>> THEN last ELSE Last(s).start,
         has' = (has \/ s # <<>>)
  PROVE  /\ todo' \in Seq(Bar) /\ last' \in Int /\ has' \in BOOLEAN
         /\ has' => Aligned(last', 1)
         /\ Stack' /\ Order' /\ NoHole'
<1>1. /\ s \in Seq(Bar)
      /\ \A i \in 1..Len(s) : s[i] \in R
      /\ \A i, j \in 1..Len(s) : i < j => s[i].start < s[j].start
      /\ s # <<>> => /\ Len(s) \in 1..Len(s) /\ Last(s) = s[Len(s)]
                     /\ \A i \in 1..Len(s) : s[i].start <= Last(s).start
  BY SortedList
<1>2. TypeOK /\ Building /\ Stack /\ Order /\ NoHole
  BY DEF IInv
<1>3. \A i \in 1..Len(s) : s[i] \in Bar /\ s[i].start \in Int /\ s[i].lv = 1 /\ Aligned(s[i].start, 1)
  BY <1>1, Pieces DEF Piece
<1>4. last \in Int /\ has \in BOOLEAN
  BY <1>2 DEF TypeOK
<1>5. last' \in Int /\ has' \in BOOLEAN /\ (has' => Aligned(last', 1))
  BY <1>1, <1>2, <1>3, <1>4 DEF Building
<1>6. Len(s) \in Nat /\ Len(todo) = 0 /\ Len(sent) \in Nat
  BY <1>1, <1>2, OutBars
<1>7. Out = {sent[i] : i \in 1..Len(sent)} /\ Out' = Out \cup {s[i] : i \in 1..Len(s)}
  BY <1>6 DEF Out
<1>8. 1 \in 1..N /\ N \in Nat /\ Intervals[1] \in Nat \ {0}
  BY IntervalsArePositive
<1>9. \A x \in Out : x \in Bar /\ x.lv \in 1..N /\ x.start \in Int
  BY <1>2, OutBars, Pieces DEF Piece
<1>10. ASSUME NEW i \in 1..Len(s), NEW j \in 1..Len(s), i < j
       PROVE  s[i].lv = s[j].lv /\ Before(s[i], s[j])
  BY <1>1, <1>3, <1>8, <1>10, BucketsApart DEF Before, End
<1>11. ASSUME NEW x \in Out, x.lv = 1, NEW j \in 1..Len(s)
       PROVE  Before(x, s[j]) /\ x.start < s[j].start
  <2>1. has /\ x.start <= last
    BY <1>2, <1>11 DEF Order
  <2>2. last < s[j].start /\ Aligned(last, 1)
    BY <2>1, <1>1, <1>2, <1>3, <1>4 DEF Building
  <2>3. last + Intervals[1] <= s[j].start
    BY <2>2, <1>3, <1>8, BucketsApart
  <2> QED
    BY <2>1, <2>2, <2>3, <1>3, <1>4, <1>8, <1>9, <1>11 DEF Before, End
<1>12. Stack'
  BY <1>3, <1>6, <1>8, <1>10 DEF Stack, Before, End
<1>13. Order'
  <2>1. \A i, j \in 1..Len(sent) :
          (i < j /\ sent[i].lv = sent[j].lv) => Before(sent[i], sent[j])
    BY <1>2 DEF Order
  <2>2. \A i \in 1..Len(sent), j \in 1..Len(s) : sent[i].lv = s[j].lv => Before(sent[i], s[j])
    BY <1>2, <1>3, <1>11, OutBars
  <2>3. \A x \in Out : x.lv = 1 => has' /\ x.start <= last'
    <3> SUFFICES ASSUME NEW x \in Out, x.lv = 1 PROVE has' /\ x.start <= last'
      OBVIOUS
    <3>1. has /\ x.start <= last
      BY <1>2 DEF Order
    <3>2. CASE s = <<>>
      BY <3>1, <3>2
    <3>3. CASE s # <<>>
      <4>1. Len(s) \in 1..Len(s) /\ Last(s) = s[Len(s)] /\ last' = Last(s).start /\ has'
        BY <3>3, <1>1
      <4>2. x.start < s[Len(s)].start
        BY <4>1, <1>11
      <4> QED
        BY <4>1, <4>2, <1>3, <1>9
    <3> QED
      BY <3>2, <3>3
  <2>4. \A i \in 1..Len(s) : has' /\ s[i].start <= last'
    <3>1. CASE s = <<>>
      BY <3>1
    <3>2. CASE s # <<>>
      BY <3>2, <1>1
    <3> QED
      BY <3>1, <3>2
  <2>5. \A x \in Out' : x.lv = 1 => has' /\ x.start <= last'
    BY <2>3, <2>4, <1>7
  <2>6. \A x \in Out' : (x.lv # 1 /\ flushing' <= x.lv) => cur[x.lv] # NoBar /\ Before(x, cur[x.lv])
    BY <1>2, <1>3, <1>7, <1>8, <1>9 DEF Order
  <2> QED
    BY <2>1, <2>2, <2>5, <2>6 DEF Order, Before, End
<1>14. NoHole'
  <2> SUFFICES ASSUME NEW x \in Out', x.lv \in FillGaps PROVE Followed(x)'
    BY DEF NoHole, Followed, End
  <2>1. x.lv \in 2..N
    BY ConfigAssumption
  <2>2. x \in Out
    BY <2>1, <1>3, <1>7, <1>8
  <2>3. Followed(x)
    BY <2>2, <1>2 DEF NoHole
  <2>4. flushing' <= x.lv
    BY <2>1, <1>8
  <2> QED
    BY <2>1, <2>3, <2>4, <1>7, <1>8 DEF Followed, End
<1> QED
  BY <1>1, <1>5, <1>12, <1>13, <1>14

-----------------------------------------------------------------------------
(* One emit callback *)

\* What leaves, once the bar on top of the stack is sent and the bars e are put in its
\* place.
LEMMA OutMoves ==
  ASSUME TypeOK, todo # <<>>, sent' = Append(sent, Head(todo)),
         NEW e \in Seq(Bar), todo' = e \o Tail(todo)
  PROVE  Out' = Out \cup {e[i] : i \in 1..Len(e)}
<1> DEFINE b == Head(todo)
           L == Len(e)
           M == Len(todo)
           S == Len(sent)
<1>2. sent \in Seq(Bar) /\ todo \in Seq(Bar)
  BY DEF TypeOK
<1>3. /\ b = todo[1] /\ b \in Bar /\ b \in Out /\ M \in Nat \ {0} /\ S \in Nat
      /\ \A i \in 1..S : sent[i] \in Bar /\ sent[i] \in Out
      /\ \A i \in 1..M : todo[i] \in Bar /\ todo[i] \in Out
  <2>1. Head(todo) = todo[1]
    OBVIOUS
  <2>2. /\ M \in Nat /\ S \in Nat
        /\ \A i \in 1..S : sent[i] \in Bar /\ sent[i] \in Out
        /\ \A i \in 1..M : todo[i] \in Bar /\ todo[i] \in Out
    BY OutBars
  <2>3. M # 0
    BY <1>2, EmptySeq
  <2>4. 1 \in 1..M
    BY <2>2, <2>3
  <2> QED
    BY <2>1, <2>2, <2>3, <2>4
<1>4. /\ Tail(todo) \in Seq(Bar) /\ Len(Tail(todo)) = M - 1
      /\ \A i \in 1..(M - 1) : Tail(todo)[i] = todo[i + 1]
  BY <1>2, HeadTailProperties
<1>5. /\ todo' \in Seq(Bar) /\ L \in Nat /\ Len(todo') = L + (M - 1)
      /\ \A i \in 1..L : todo'[i] = e[i] /\ e[i] \in Bar
      /\ \A i \in (L + 1)..(L + (M - 1)) :
           todo'[i] = todo[i - L + 1] /\ i - L + 1 \in 2..M
  <2>1. L \in Nat /\ \A i \in 1..L : e[i] \in Bar
    BY ElementOfSeq, LenProperties
  <2>2. /\ e \o Tail(todo) \in Seq(Bar)
        /\ Len(e \o Tail(todo)) = L + (M - 1)
        /\ \A i \in 1..(L + (M - 1)) :
             (e \o Tail(todo))[i] = IF i <= L THEN e[i] ELSE Tail(todo)[i - L]
    BY <1>4, ConcatProperties
  <2>3. \A i \in 1..L : i <= L /\ i \in 1..(L + (M - 1))
    BY <2>1, <1>3
  <2>4. \A i \in (L + 1)..(L + (M - 1)) :
          ~(i <= L) /\ i \in 1..(L + (M - 1)) /\ i - L \in 1..(M - 1) /\ i - L + 1 \in 2..M
    BY <2>1, <1>3
  <2> HIDE DEF b, L, M, S
  <2> QED
    BY <2>1, <2>2, <2>3, <2>4, <1>4 DEF b, L
<1>6. /\ sent' \in Seq(Bar) /\ Len(sent') = S + 1
      /\ \A i \in 1..S : sent'[i] = sent[i]
      /\ sent'[S + 1] = b
  BY <1>2, <1>3, AppendProperties
<1> HIDE DEF b, L, M, S
<1>9. /\ L \in Nat /\ M \in Nat \ {0} /\ S \in Nat /\ \A i \in 2..M : i \in 1..M
      /\ \A i \in 1..Len(todo') : i \in 1..L \/ i \in (L + 1)..(L + (M - 1))
      /\ \A i \in 1..Len(sent') : i \in 1..S \/ i = S + 1
  <2>1. L \in Nat /\ M \in Nat \ {0} /\ S \in Nat /\ Len(todo') = L + (M - 1) /\ Len(sent') = S + 1
    BY <1>3, <1>5, <1>6
  <2> QED
    BY <2>1
<1>10. Out' = Out \cup {e[i] : i \in 1..L}
  <2>1. ASSUME NEW x \in Out' PROVE x \in Out \cup {e[i] : i \in 1..L}
    <3>1. CASE \E i \in 1..Len(sent') : x = sent'[i]
      <4>1. PICK i \in 1..(S + 1) : x = sent'[i]
        BY <3>1, <1>6
      <4>2. CASE i \in 1..S
        BY <4>1, <4>2, <1>3, <1>6
      <4>3. CASE i = S + 1
        BY <4>1, <4>3, <1>3, <1>6
      <4> QED
        BY <4>2, <4>3, <1>3
    <3>2. CASE \E i \in 1..Len(todo') : x = todo'[i]
      <4>1. PICK i \in 1..(L + (M - 1)) : x = todo'[i]
        BY <3>2, <1>5
      <4>2. CASE i \in 1..L
        BY <4>1, <4>2, <1>5
      <4>3. CASE i \in (L + 1)..(L + (M - 1))
        <5>1. x = todo[i - L + 1] /\ i - L + 1 \in 1..M
          BY <4>1, <4>3, <1>5, <1>9
        <5> QED
          BY <5>1, <1>3
      <4> QED
        BY <4>1, <4>2, <4>3, <1>5, <1>9
    <3> QED
      BY <3>1, <3>2 DEF Out
  <2>2. ASSUME NEW x \in Out PROVE x \in Out'
    <3>1. CASE \E i \in 1..S : x = sent[i]
      <4>1. PICK i \in 1..S : x = sent[i]
        BY <3>1
      <4>2. i \in 1..Len(sent') /\ x = sent'[i]
        BY <4>1, <1>3, <1>6
      <4> QED
        BY <4>2 DEF Out
    <3>2. CASE \E i \in 1..M : x = todo[i]
      <4>1. PICK i \in 1..M : x = todo[i]
        BY <3>2
      <4>2. CASE i = 1
        <5>1. S + 1 \in 1..Len(sent') /\ x = sent'[S + 1]
          BY <4>1, <4>2, <1>3, <1>6
        <5> QED
          BY <5>1 DEF Out
      <4>3. CASE i # 1
        <5>1. L + i - 1 \in (L + 1)..(L + (M - 1)) /\ (L + i - 1) - L + 1 = i
          BY <4>3, <1>9
        <5>2. L + i - 1 \in 1..(L + (M - 1))
          BY <4>3, <1>9
        <5>3. x = todo'[L + i - 1]
          BY <4>1, <5>1, <1>5
        <5> QED
          BY <5>2, <5>3, <1>5 DEF Out
      <4> QED
        BY <4>2, <4>3
    <3> QED
      BY <3>1, <3>2, OutBars DEF S, M
  <2>3. ASSUME NEW i \in 1..L PROVE e[i] \in Out'
    <3>1. i \in 1..Len(todo') /\ e[i] = todo'[i]
      BY <1>3, <1>5
    <3> QED
      BY <3>1 DEF Out
  <2> QED
    BY <2>1, <2>2, <2>3
<1> QED
  BY <1>10 DEF L

\* The bar on top of the stack is sent, and the bars e of the next interval that it
\* closes are put in its place.
LEMMA BarMoves ==
  ASSUME IInv, todo # <<>>, sent' = Append(sent, Head(todo)), flushing' = flushing,
         NEW e \in Seq(Bar), todo' = e \o Tail(todo),
         \A i \in 1..Len(e) : e[i].lv = Head(todo).lv + 1,
         \A i, j \in 1..Len(e) : i < j => Before(e[i], e[j]),
         \A x \in Out, i \in 1..Len(e) : x.lv = e[i].lv => Before(x, e[i])
  PROVE  /\ Head(todo) \in Out /\ Head(todo) \in Bar
         /\ flushing >= 2 => Head(todo).lv >= flushing - 1
         /\ sent' \in Seq(Bar) /\ todo' \in Seq(Bar) /\ Len(sent') = Len(sent) + 1
         /\ Out' = Out \cup {e[i] : i \in 1..Len(e)}
         /\ Stack'
         /\ \A i, j \in 1..Len(sent') :
              (i < j /\ sent'[i].lv = sent'[j].lv) => Before(sent'[i], sent'[j])
         /\ \A i \in 1..Len(sent'), j \in 1..Len(todo') :
              sent'[i].lv = todo'[j].lv => Before(sent'[i], todo'[j])
<1> DEFINE b == Head(todo)
           L == Len(e)
           M == Len(todo)
           S == Len(sent)
<1>1. TypeOK /\ Stack /\ Order
  BY DEF IInv
<1>2. sent \in Seq(Bar) /\ todo \in Seq(Bar) /\ flushing \in Int
  BY <1>1 DEF TypeOK
<1>3. /\ b = todo[1] /\ b \in Bar /\ b \in Out /\ M \in Nat \ {0} /\ S \in Nat
      /\ \A i \in 1..S : sent[i] \in Bar /\ sent[i] \in Out
      /\ \A i \in 1..M : todo[i] \in Bar /\ todo[i] \in Out
  <2>1. Head(todo) = todo[1]
    OBVIOUS
  <2>2. /\ M \in Nat /\ S \in Nat
        /\ \A i \in 1..S : sent[i] \in Bar /\ sent[i] \in Out
        /\ \A i \in 1..M : todo[i] \in Bar /\ todo[i] \in Out
    BY <1>1, OutBars
  <2>3. M # 0
    BY <1>2, EmptySeq
  <2>4. 1 \in 1..M
    BY <2>2, <2>3
  <2> QED
    BY <2>1, <2>2, <2>3, <2>4
<1>4. /\ Tail(todo) \in Seq(Bar) /\ Len(Tail(todo)) = M - 1
      /\ \A i \in 1..(M - 1) : Tail(todo)[i] = todo[i + 1]
  BY <1>2, HeadTailProperties
<1>5. /\ todo' \in Seq(Bar) /\ L \in Nat /\ Len(todo') = L + (M - 1)
      /\ \A i \in 1..L : todo'[i] = e[i] /\ e[i] \in Bar /\ e[i].lv = b.lv + 1
      /\ \A i \in (L + 1)..(L + (M - 1)) :
           todo'[i] = todo[i - L + 1] /\ i - L + 1 \in 2..M
  <2>1. L \in Nat /\ \A i \in 1..L : e[i] \in Bar
    BY ElementOfSeq, LenProperties
  <2>2. /\ e \o Tail(todo) \in Seq(Bar)
        /\ Len(e \o Tail(todo)) = L + (M - 1)
        /\ \A i \in 1..(L + (M - 1)) :
             (e \o Tail(todo))[i] = IF i <= L THEN e[i] ELSE Tail(todo)[i - L]
    BY <1>4, ConcatProperties
  <2>3. \A i \in 1..L : i <= L /\ i \in 1..(L + (M - 1))
    BY <2>1, <1>3
  <2>4. \A i \in (L + 1)..(L + (M - 1)) :
          ~(i <= L) /\ i \in 1..(L + (M - 1)) /\ i - L \in 1..(M - 1) /\ i - L + 1 \in 2..M
    BY <2>1, <1>3
  <2> HIDE DEF b, L, M, S
  <2> QED
    BY <2>1, <2>2, <2>3, <2>4, <1>4 DEF b, L
<1>6. /\ sent' \in Seq(Bar) /\ Len(sent') = S + 1
      /\ \A i \in 1..S : sent'[i] = sent[i]
      /\ sent'[S + 1] = b
  BY <1>2, <1>3, AppendProperties
<1>7. \A j \in 2..M : /\ todo[j].lv <= b.lv
                      /\ todo[j].lv = b.lv => Before(b, todo[j])
  <2>1. \A j \in 2..M : j \in 1..M /\ 1 \in 1..M /\ 1 < j
    BY <1>3
  <2>2. \A j \in 1..M : todo[j].lv \in Int
    BY <1>3, Pieces, IntervalsArePositive
  <2> QED
    BY <2>1, <2>2, <1>1, <1>3 DEF Stack
<1>8. b.lv \in Int /\ \A x \in Out : x.lv \in Int
  BY <1>1, <1>3, OutBars, Pieces, IntervalsArePositive
<1> HIDE DEF b, L, M, S
<1>9. /\ L \in Nat /\ M \in Nat \ {0} /\ S \in Nat /\ \A i \in 2..M : i \in 1..M
      /\ \A i \in 1..Len(todo') : i \in 1..L \/ i \in (L + 1)..(L + (M - 1))
      /\ \A i \in 1..Len(sent') : i \in 1..S \/ i = S + 1
  <2>1. L \in Nat /\ M \in Nat \ {0} /\ S \in Nat /\ Len(todo') = L + (M - 1) /\ Len(sent') = S + 1
    BY <1>3, <1>5, <1>6
  <2> QED
    BY <2>1
<1>10. flushing >= 2 => b.lv >= flushing - 1
  BY <1>1, <1>3 DEF Stack, M
<1>11. Out' = Out \cup {e[i] : i \in 1..L}
  BY <1>1, OutMoves DEF L
<1>12. Stack'
  <2>1. ASSUME NEW i \in 1..Len(todo'), NEW j \in 1..Len(todo'), i < j
        PROVE  \/ todo'[i].lv > todo'[j].lv
               \/ todo'[i].lv = todo'[j].lv /\ Before(todo'[i], todo'[j])
    <3>1. CASE j \in 1..L
      <4>1. i \in 1..L
        BY <2>1, <3>1, <1>5
      <4> QED
        BY <4>1, <2>1, <3>1, <1>5 DEF L
    <3>2. CASE i \in 1..L /\ j \in (L + 1)..(L + (M - 1))
      <4>1. todo'[i].lv = b.lv + 1
        BY <3>2, <1>5
      <4>2. todo'[j].lv <= b.lv /\ todo'[j].lv \in Int
        <5>1. todo'[j] = todo[j - L + 1] /\ j - L + 1 \in 2..M /\ j - L + 1 \in 1..M
          BY <3>2, <1>5, <1>9
        <5> QED
          BY <5>1, <1>3, <1>7, <1>8
      <4>3. b.lv \in Int
        BY <1>8
      <4>4. todo'[i].lv > todo'[j].lv
        BY <4>1, <4>2, <4>3, SMTT(30)
      <4> QED
        BY <4>4
    <3>3. CASE i \in (L + 1)..(L + (M - 1)) /\ j \in (L + 1)..(L + (M - 1))
      <4>1. /\ todo'[i] = todo[i - L + 1] /\ i - L + 1 \in 1..M
            /\ todo'[j] = todo[j - L + 1] /\ j - L + 1 \in 1..M
            /\ i - L + 1 < j - L + 1
        BY <2>1, <3>3, <1>3, <1>5
      <4> QED
        BY <4>1, <1>1 DEF Stack, M
    <3> QED
      <4>1. (i \in 1..L \/ i \in (L + 1)..(L + (M - 1))) /\ (j \in 1..L \/ j \in (L + 1)..(L + (M - 1)))
        BY <2>1, <1>9
      <4>2. ~(i \in (L + 1)..(L + (M - 1)) /\ j \in 1..L)
        BY <2>1, <1>9
      <4> QED
        BY <4>1, <4>2, <3>1, <3>2, <3>3
  <2>2. ASSUME flushing >= 2, NEW i \in 1..Len(todo')
        PROVE  todo'[i].lv >= flushing - 1
    <3>1. CASE i \in 1..L
      <4>1. todo'[i].lv = b.lv + 1
        BY <3>1, <1>5
      <4>2. b.lv \in Int /\ flushing \in Int /\ b.lv >= flushing - 1
        BY <2>2, <1>2, <1>8, <1>10
      <4> QED
        BY <4>1, <4>2, SMTT(30)
    <3>2. CASE i \in (L + 1)..(L + (M - 1))
      <4>1. todo'[i] = todo[i - L + 1] /\ i - L + 1 \in 1..M
        BY <3>2, <1>3, <1>5
      <4> QED
        BY <4>1, <2>2, <1>1 DEF Stack, M
    <3> QED
      BY <3>1, <3>2, <1>9
  <2> QED
    BY <2>1, <2>2 DEF Stack, Before, End
<1>13. ASSUME NEW i \in 1..Len(sent'), NEW j \in 1..Len(sent'), i < j, sent'[i].lv = sent'[j].lv
       PROVE  Before(sent'[i], sent'[j])
  <2>1. i \in 1..S /\ sent'[i] = sent[i]
    BY <1>3, <1>6, <1>13
  <2>2. CASE j \in 1..S
    BY <2>1, <2>2, <1>1, <1>6, <1>13 DEF Order, S
  <2>3. CASE j = S + 1
    <3>1. 1 \in 1..M /\ sent'[j] = todo[1]
      BY <2>3, <1>3, <1>6
    <3> QED
      BY <2>1, <3>1, <1>1, <1>13 DEF Order, S, M
  <2> QED
    BY <2>2, <2>3, <1>3, <1>6
<1>14. ASSUME NEW i \in 1..Len(sent'), NEW j \in 1..Len(todo'), sent'[i].lv = todo'[j].lv
       PROVE  Before(sent'[i], todo'[j])
  <2>1. sent'[i] \in Out
    BY <1>3, <1>6
  <2>2. CASE j \in 1..L
    BY <2>1, <2>2, <1>5, <1>14 DEF L
  <2>3. CASE j \in (L + 1)..(L + (M - 1))
    <3>1. todo'[j] = todo[j - L + 1] /\ j - L + 1 \in 2..M /\ j - L + 1 \in 1..M
      BY <2>3, <1>3, <1>5
    <3>2. CASE i \in 1..S
      BY <3>1, <3>2, <1>1, <1>6, <1>14 DEF Order, S, M
    <3>3. CASE i = S + 1
      BY <3>1, <3>3, <1>6, <1>7, <1>14
    <3> QED
      BY <3>2, <3>3, <1>3, <1>6
  <2> QED
    BY <2>2, <2>3, <1>9
<1> QED
  BY <1>3, <1>5, <1>6, <1>10, <1>11, <1>12, <1>13, <1>14 DEF b, L, S

LEMMA EmitStep ==
  ASSUME IInv, Emit
  PROVE  IInv'
<1> DEFINE b == Head(todo)
<1>1. TypeOK /\ Building /\ Stack /\ Order /\ NoHole
  BY DEF IInv
<1>2. /\ todo # <<>> /\ sent' = Append(sent, b) /\ flushing' = flushing
      /\ UNCHANGED <<inbox, bars, latest, last, has, nread, ctx, reading, closed, taken, nin>>
      /\ Len(sent) - nread < OutSize
  BY DEF Emit, sym
<1>3. N \in Nat \ {0} /\ OutSize \in Nat
  BY IntervalsArePositive, ConfigAssumption
<1>4. todo \in Seq(Bar) /\ flushing \in 0..(N + 1) /\ nread \in 0..Len(sent)
  BY <1>1 DEF TypeOK
<1>5. b \in Bar /\ b.lv \in 1..N /\ b = todo[1] /\ 1 \in 1..Len(todo)
  <2>1. b = todo[1]
    OBVIOUS
  <2>2. 1 \in 1..Len(todo)
    BY <1>2, <1>4, EmptySeq, LenProperties
  <2> QED
    BY <2>1, <2>2, <1>4, ElementOfSeq, Pieces
<1>6. flushing <= b.lv + 1
  BY <1>1, <1>3, <1>4, <1>5 DEF Stack
<1>7. \A x \in Out : x \in Bar /\ x.lv \in 1..N /\ x.start \in Int /\ End(x) \in Int
  BY <1>1, OutBars, Pieces, EndOfBar DEF Piece
<1>8. Tail(todo) \in Seq(Bar) /\ <<>> \o Tail(todo) = Tail(todo)
  BY <1>2, <1>4, HeadTailProperties, ConcatEmptySeq
<1>9. FillGaps \subseteq 2..N
  BY ConfigAssumption
<1> HIDE DEF b
\* What every case has to show.
<1>10. ASSUME cur' \in [2..N -> Bar \cup {NoBar}],
              \A k \in 2..N : cur'[k] # NoBar => cur'[k].lv = k /\ Aligned(cur'[k].start, k),
              sent' \in Seq(Bar), todo' \in Seq(Bar), Len(sent') = Len(sent) + 1,
              Stack', Order', NoHole'
       PROVE  IInv'
  <2>1. TypeOK'
    BY <1>1, <1>2, <1>3, <1>4, <1>10, LenProperties DEF TypeOK
  <2>2. Building'
    BY <1>1, <1>2, <1>10 DEF Building, Aligned
  <2> QED
    BY <2>1, <2>2, <1>10 DEF IInv
<1>11. ASSUME NEW e \in Seq(Bar), todo' = e \o Tail(todo),
              \A i \in 1..Len(e) : e[i].lv = b.lv + 1,
              \A i, j \in 1..Len(e) : i < j => Before(e[i], e[j]),
              \A x \in Out, i \in 1..Len(e) : x.lv = e[i].lv => Before(x, e[i])
       PROVE  /\ sent' \in Seq(Bar) /\ todo' \in Seq(Bar) /\ Len(sent') = Len(sent) + 1
              /\ Out' = Out \cup {e[i] : i \in 1..Len(e)}
              /\ Stack'
              /\ \A i, j \in 1..Len(sent') :
                   (i < j /\ sent'[i].lv = sent'[j].lv) => Before(sent'[i], sent'[j])
              /\ \A i \in 1..Len(sent'), j \in 1..Len(todo') :
                   sent'[i].lv = todo'[j].lv => Before(sent'[i], todo'[j])
  BY <1>2, <1>11, BarMoves DEF b
\* Nothing new is put on the stack.
<1>12. ASSUME todo' = <<>> \o Tail(todo),
              \A k \in 2..N : cur[k] # NoBar => cur'[k] # NoBar /\ cur'[k].start = cur[k].start
       PROVE  /\ sent' \in Seq(Bar) /\ todo' \in Seq(Bar) /\ Len(sent') = Len(sent) + 1
              /\ Stack' /\ Order' /\ NoHole'
  <2>1. /\ <<>> \in Seq(Bar)
        /\ \A i \in 1..Len(<<>>) : FALSE
    OBVIOUS
  <2>2. /\ sent' \in Seq(Bar) /\ todo' \in Seq(Bar) /\ Len(sent') = Len(sent) + 1
        /\ Out' = Out \cup {<<>>[i] : i \in 1..Len(<<>>)}
        /\ Stack'
        /\ \A i, j \in 1..Len(sent') :
             (i < j /\ sent'[i].lv = sent'[j].lv) => Before(sent'[i], sent'[j])
        /\ \A i \in 1..Len(sent'), j \in 1..Len(todo') :
             sent'[i].lv = todo'[j].lv => Before(sent'[i], todo'[j])
    BY <2>1, <1>11, <1>12
  <2>3. Out' = Out
    BY <2>1, <2>2
  <2>4. \A x \in Out : (x.lv # 1 /\ flushing <= x.lv) => cur'[x.lv] # NoBar /\ Before(x, cur'[x.lv])
    <3> SUFFICES ASSUME NEW x \in Out, x.lv # 1, flushing <= x.lv
                 PROVE  cur'[x.lv] # NoBar /\ Before(x, cur'[x.lv])
      OBVIOUS
    <3>1. x.lv \in 2..N
      BY <1>3, <1>7
    <3>2. cur[x.lv] # NoBar /\ Before(x, cur[x.lv])
      BY <1>1 DEF Order
    <3> QED
      BY <3>1, <3>2, <1>12 DEF Before
  <2>5. Order'
    BY <2>2, <2>3, <2>4, <1>1, <1>2 DEF Order, Before, End
  <2>6. NoHole'
    <3> SUFFICES ASSUME NEW x \in Out, x.lv \in FillGaps PROVE Followed(x)'
      BY <2>3 DEF NoHole, Followed, End
    <3>1. Followed(x) /\ x.lv \in 2..N
      BY <1>1, <1>9 DEF NoHole
    <3> QED
      BY <3>1, <2>3, <1>2, <1>12 DEF Followed, End
  <2> QED
    BY <2>2, <2>5, <2>6
<1>13. CASE b.lv = N
  <2>1. todo' = Tail(todo) /\ cur' = cur
    BY <1>13 DEF Emit, b
  <2>2. cur \in [2..N -> Bar \cup {NoBar}]
    BY <1>1 DEF TypeOK
  <2>3. \A k \in 2..N : cur[k] # NoBar => cur[k].lv = k /\ Aligned(cur[k].start, k)
    BY <1>1 DEF Building
  <2>4. /\ sent' \in Seq(Bar) /\ todo' \in Seq(Bar) /\ Len(sent') = Len(sent) + 1
        /\ Stack' /\ Order' /\ NoHole'
    BY <2>1, <1>8, <1>12
  <2> QED
    BY <2>1, <2>2, <2>3, <2>4, <1>10
<1>14. CASE b.lv # N
  <2> DEFINE k == b.lv + 1
             r == OfferBar(k, b)
  <2>1. k \in 2..N /\ flushing <= k /\ k # 1
    BY <1>3, <1>5, <1>6, <1>14
  <2>2. cur' = [cur EXCEPT ![k] = r.cur] /\ todo' = r.emits \o Tail(todo)
    BY <1>14 DEF Emit, b
  <2>3. cur \in [2..N -> Bar \cup {NoBar}] /\ cur[k] \in Bar \cup {NoBar}
    BY <1>1, <2>1 DEF TypeOK
  <2>4. \A m \in 2..N : cur[m] # NoBar => cur[m].lv = m /\ Aligned(cur[m].start, m)
    BY <1>1 DEF Building
  <2>5. Piece(b)
    BY <1>5, Pieces
  <2> HIDE DEF r, k
  <2>6. ASSUME r.cur \in Bar, r.cur.lv = k, Aligned(r.cur.start, k)
        PROVE  /\ cur' \in [2..N -> Bar \cup {NoBar}]
               /\ cur'[k] = r.cur /\ r.cur # NoBar
               /\ \A m \in 2..N : m # k => cur'[m] = cur[m]
               /\ \A m \in 2..N : cur'[m] # NoBar => cur'[m].lv = m /\ Aligned(cur'[m].start, m)
    <3>1. /\ cur' \in [2..N -> Bar \cup {NoBar}]
          /\ cur'[k] = r.cur
          /\ \A m \in 2..N : m # k => cur'[m] = cur[m]
      BY <2>1, <2>2, <2>3, <2>6
    <3> QED
      BY <3>1, <2>4, <2>6, ValuesAssumption
  <2>7. CASE cur[k] = NoBar \/ ~(bucketStart(b.start, k) > cur[k].start)
    <3>1. /\ r.cur \in Bar /\ r.cur.lv = k /\ Aligned(r.cur.start, k)
          /\ r.emits = <<>>
          /\ cur[k] # NoBar => r.cur.start = cur[k].start
      BY <2>1, <2>3, <2>4, <2>5, <2>7, OfferBarKeeps, ValuesAssumption DEF r
    <3>2. \A m \in 2..N : cur[m] # NoBar => cur'[m] # NoBar /\ cur'[m].start = cur[m].start
      BY <3>1, <2>6
    <3>3. /\ sent' \in Seq(Bar) /\ todo' \in Seq(Bar) /\ Len(sent') = Len(sent) + 1
          /\ Stack' /\ Order' /\ NoHole'
      BY <3>1, <3>2, <2>2, <1>12
    <3> QED
      BY <3>1, <3>3, <2>6, <1>10
  <2>8. CASE cur[k] # NoBar /\ bucketStart(b.start, k) > cur[k].start
    <3> DEFINE c == cur[k]
               e == r.emits
    <3>0. c \in Bar /\ c.lv = k /\ Aligned(c.start, k) /\ c.start \in Int
      BY <2>1, <2>3, <2>4, <2>8, Pieces DEF Piece
    <3>1. /\ r.cur \in Bar /\ r.cur.lv = k /\ Aligned(r.cur.start, k)
          /\ e \in Seq(Bar) /\ Len(e) >= 1 /\ e[1] = c
          /\ \A i \in 1..Len(e) : e[i].lv = k /\ e[i].start >= c.start /\ Before(e[i], r.cur)
          /\ \A i, j \in 1..Len(e) : i < j => Before(e[i], e[j])
          /\ k \in FillGaps =>
               /\ \A i \in 1..(Len(e) - 1) : e[i + 1].start = End(e[i])
               /\ r.cur.start = End(e[Len(e)])
      <4>1. cur[k] = c /\ bucketStart(b.start, k) > c.start
        BY <2>8
      <4> HIDE DEF c
      <4> QED
        BY <4>1, <3>0, <2>1, <2>5, OfferBarCloses, SMTT(30) DEF r
    <3>2. Len(e) \in Nat /\ 1 \in 1..Len(e) /\ \A i \in 1..Len(e) : e[i] \in Bar /\ e[i].start \in Int
      BY <3>1, ElementOfSeq, LenProperties, Pieces DEF Piece
    <3>3. r.cur.start \in Int /\ r.cur.start >= End(c) /\ End(c) > c.start /\ End(c) \in Int
      BY <3>0, <3>1, <3>2, Pieces, EndOfBar DEF Before, Piece
    <3> HIDE DEF c, e
    <3>4. ASSUME NEW x \in Out, x.lv = k
          PROVE  c.start >= End(x) /\ r.cur.start >= End(x)
      <4>1. cur[x.lv] # NoBar /\ Before(x, cur[x.lv])
        BY <3>4, <2>1, <1>1 DEF Order
      <4> QED
        BY <4>1, <3>0, <3>3, <3>4, <1>7 DEF Before, c
    <3>5. \A x \in Out, i \in 1..Len(e) : x.lv = e[i].lv => Before(x, e[i])
      BY <3>0, <3>1, <3>2, <3>4, <1>7 DEF Before
    <3>6. /\ sent' \in Seq(Bar) /\ todo' \in Seq(Bar) /\ Len(sent') = Len(sent) + 1
          /\ Out' = Out \cup {e[i] : i \in 1..Len(e)}
          /\ Stack'
          /\ \A i, j \in 1..Len(sent') :
               (i < j /\ sent'[i].lv = sent'[j].lv) => Before(sent'[i], sent'[j])
          /\ \A i \in 1..Len(sent'), j \in 1..Len(todo') :
               sent'[i].lv = todo'[j].lv => Before(sent'[i], todo'[j])
      BY <3>1, <3>5, <2>2, <1>11 DEF k, e
    <3>7. cur'[k] = r.cur /\ r.cur # NoBar /\ \A m \in 2..N : m # k => cur'[m] = cur[m]
      BY <3>1, <2>6
    <3>8. Order'
      <4>1. \A x \in Out' : x.lv = 1 => has /\ x.start <= last
        BY <3>1, <3>6, <2>1, <1>1 DEF Order
      <4>2. ASSUME NEW x \in Out', x.lv # 1, flushing <= x.lv
            PROVE  cur'[x.lv] # NoBar /\ cur'[x.lv].start >= End(x)
        <5>1. CASE x \in Out /\ x.lv = k
          BY <5>1, <3>4, <3>7
        <5>2. CASE x \in Out /\ x.lv # k
          <6>1. x.lv \in 2..N
            BY <5>2, <4>2, <1>3, <1>7
          <6> QED
            BY <6>1, <5>2, <4>2, <3>7, <1>1 DEF Order, Before
        <5>3. CASE \E i \in 1..Len(e) : x = e[i]
          BY <5>3, <3>1, <3>7 DEF Before
        <5> QED
          BY <5>1, <5>2, <5>3, <3>6
      <4> QED
        BY <4>1, <4>2, <3>6, <1>2 DEF Order, Before, End
    <3>9. NoHole'
      <4> SUFFICES ASSUME NEW x \in Out', x.lv \in FillGaps
                   PROVE  \/ \E y \in Out' : y.lv = x.lv /\ y.start = End(x)
                          \/ flushing <= x.lv /\ cur'[x.lv] # NoBar /\ cur'[x.lv].start = End(x)
                          \/ flushing > x.lv /\ \A y \in Out' : y.lv = x.lv => y.start <= x.start
        BY <1>2 DEF NoHole, Followed, End
      <4>1. x.lv \in 2..N
        BY <1>9
      <4>2. CASE x \in Out /\ x.lv # k
        <5>1. Followed(x)
          BY <4>2, <1>1 DEF NoHole
        <5>2. \A y \in Out' : y.lv = x.lv => y \in Out
          BY <4>2, <3>1, <3>6
        <5>3. cur'[x.lv] = cur[x.lv]
          BY <4>1, <4>2, <3>7
        <5> QED
          BY <5>1, <5>2, <5>3, <3>6 DEF Followed
      <4>3. CASE x \in Out /\ x.lv = k
        <5>1. Followed(x)
          BY <4>3, <1>1 DEF NoHole
        <5>2. ~(flushing > x.lv)
          BY <4>3, <2>1, <1>4
        <5>3. c \in Out'
          BY <3>1, <3>2, <3>6
        <5> QED
          BY <5>1, <5>2, <5>3, <4>3, <3>0, <3>6 DEF Followed, c
      <4>4. CASE \E i \in 1..Len(e) : x = e[i]
        <5>1. PICK i \in 1..Len(e) : x = e[i]
          BY <4>4
        <5>2. x.lv = k
          BY <5>1, <3>1
        <5>3. CASE i = Len(e)
          BY <5>1, <5>2, <5>3, <3>1, <3>7, <2>1
        <5>4. CASE i # Len(e)
          <6>1. i \in 1..(Len(e) - 1) /\ i + 1 \in 1..Len(e)
            BY <5>4, <3>2
          <6>2. e[i + 1] \in Out' /\ e[i + 1].lv = k /\ e[i + 1].start = End(x)
            BY <6>1, <5>1, <5>2, <3>1, <3>6
          <6> QED
            BY <6>2, <5>2
        <5> QED
          BY <5>3, <5>4
      <4> QED
        BY <4>2, <4>3, <4>4, <3>6
    <3> QED
      BY <3>1, <3>6, <3>8, <3>9, <2>6, <1>10
  <2> QED
    BY <2>7, <2>8
<1> QED
  BY <1>13, <1>14

-----------------------------------------------------------------------------
(* The other steps *)

LEMMA EmitReadyStep ==
  ASSUME IInv, InSelect, NEW bs, NEW w, EmitReady(bs, w),
         sent' = sent, cur' = cur, flushing' = flushing,
         bs \subseteq Bar, IsFiniteSet(bs),
         \A b \in bs : b.lv = 1 /\ Aligned(b.start, 1),
         \A b, c \in bs : b.start = c.start => b = c
  PROVE  /\ bars' \subseteq Bar /\ todo' \in Seq(Bar) /\ last' \in Int /\ has' \in BOOLEAN
         /\ Building' /\ Stack' /\ Order' /\ NoHole'
<1> DEFINE R == {b \in NotEmitted(bs) : End(b) <= w}
<1>1. PICK s \in Sorted(R) :
         /\ bars' = bs \ ToSet(s)
         /\ todo' = s
         /\ last' = IF s = <<>> THEN last ELSE Last(s).start
         /\ has' = (has \/ s # <<>>)
  BY DEF EmitReady
<1>2. /\ R \subseteq bs
      /\ \A b \in R : b.lv = 1 /\ Aligned(b.start, 1) /\ (has => b.start > last)
  BY DEF NotEmitted
<1>3. R \subseteq Bar /\ IsFiniteSet(R)
  BY <1>2, FS_Subset
<1> HIDE DEF R
<1>4. todo = <<>> /\ flushing = 0 /\ flushing' = 0
  BY DEF InSelect
<1>5. /\ todo' \in Seq(Bar) /\ last' \in Int /\ has' \in BOOLEAN
      /\ has' => Aligned(last', 1)
      /\ Stack' /\ Order' /\ NoHole'
  BY <1>1, <1>2, <1>3, <1>4, FirstBarsLeave
<1>6. bars' \subseteq bs /\ IsFiniteSet(bars')
  BY <1>1, FS_Subset
<1>7. \A k \in 2..N : cur[k] # NoBar => cur[k].lv = k /\ Aligned(cur[k].start, k)
  BY DEF IInv, Building
<1>8. Building'
  BY <1>5, <1>6, <1>7 DEF Building, Aligned
<1> QED
  BY <1>5, <1>6, <1>8

LEMMA LatestType ==
  ASSUME TypeOK, NEW t \in Trade
  PROVE  Latest(t) \in Nat
  BY TradesAssumption DEF TypeOK, Trade, Latest

LEMMA HeadOfInbox ==
  ASSUME TypeOK, inbox # <<>>
  PROVE  /\ Tail(inbox) \in Seq(Trade \cup {BadTrade}) /\ Len(Tail(inbox)) <= InboxSize
         /\ Head(inbox) # BadTrade => Head(inbox) \in Trade
<1>1. inbox \in Seq(Trade \cup {BadTrade}) /\ Len(inbox) <= InboxSize /\ InboxSize \in Nat
  BY ConfigAssumption DEF TypeOK
<1>2. Tail(inbox) \in Seq(Trade \cup {BadTrade}) /\ Len(Tail(inbox)) = Len(inbox) - 1 /\ Len(inbox) \in Nat
  BY <1>1, HeadTailProperties, LenProperties
<1>3. Head(inbox) \in Trade \cup {BadTrade}
  BY <1>1, HeadTailProperties
<1> QED
  BY <1>1, <1>2, <1>3

LEMMA TakeLateStep ==
  ASSUME IInv, TakeLate
  PROVE  IInv'
<1>1. TypeOK /\ Building
  BY DEF IInv
<1>2. /\ InSelect /\ inbox # <<>> /\ Head(inbox) # BadTrade
      /\ inbox' = Tail(inbox) /\ latest' = Latest(Head(inbox))
      /\ EmitReady(bars, latest' - Window)
      /\ UNCHANGED <<cur, sent, nread, flushing, ctx, reading, closed, taken, nin>>
  BY DEF TakeLate
<1>3. latest' \in Nat /\ inbox' \in Seq(Trade \cup {BadTrade}) /\ Len(inbox') <= InboxSize
  BY <1>1, <1>2, HeadOfInbox, LatestType
<1>4. bars \subseteq Bar
  BY <1>1 DEF TypeOK
<1>5. /\ bars' \subseteq Bar /\ todo' \in Seq(Bar) /\ last' \in Int /\ has' \in BOOLEAN
      /\ Building' /\ Stack' /\ Order' /\ NoHole'
  BY <1>1, <1>2, <1>4, EmitReadyStep DEF Building
<1>6. TypeOK'
  BY <1>1, <1>2, <1>3, <1>5 DEF TypeOK
<1> QED
  BY <1>5, <1>6 DEF IInv

LEMMA TakeTradeStep ==
  ASSUME IInv, TakeTrade
  PROVE  IInv'
<1> DEFINE x    == AsBar(Head(inbox))
           same == {b \in bars : b.start = bucketStart(x.start, 1)}
           new  == IF same = {} THEN Opened(1, x) ELSE Merged(CHOOSE b \in same : TRUE, x)
           bs   == (bars \ same) \cup {new}
<1>1. TypeOK /\ Building
  BY DEF IInv
<1>2. /\ InSelect /\ inbox # <<>> /\ Head(inbox) # BadTrade
      /\ inbox' = Tail(inbox) /\ latest' = Latest(Head(inbox))
      /\ EmitReady(bs, latest' - Window)
      /\ taken' = Append(taken, Head(inbox))
      /\ UNCHANGED <<cur, sent, nread, flushing, ctx, reading, closed, nin>>
  BY DEF TakeTrade
<1>3. /\ Head(inbox) \in Trade /\ latest' \in Nat
      /\ inbox' \in Seq(Trade \cup {BadTrade}) /\ Len(inbox') <= InboxSize
  BY <1>1, <1>2, HeadOfInbox, LatestType
<1>4. bars \subseteq Bar /\ taken' \in Seq(Trade)
  BY <1>1, <1>2, <1>3, AppendProperties DEF TypeOK
<1>5. Piece(x) /\ 1 \in 1..N
  BY <1>3, Pieces, IntervalsArePositive
<1> HIDE DEF x
<1>6. new \in Bar /\ new.lv = 1 /\ new.start = bucketStart(x.start, 1) /\ Aligned(new.start, 1)
  <2>1. CASE same = {}
    BY <2>1, <1>5, OpenedBar
  <2>2. CASE same # {}
    <3>1. PICK b \in same : b = CHOOSE c \in same : TRUE
      BY <2>2
    <3>2. b \in bars /\ b \in Bar /\ b.start = bucketStart(x.start, 1) /\ b.lv = 1 /\ Aligned(b.start, 1)
      BY <3>1, <1>1, <1>4 DEF Building
    <3>3. new = Merged(b, x)
      BY <2>2, <3>1
    <3> QED
      BY <3>2, <3>3, <1>5, MergedBar
  <2> QED
    BY <2>1, <2>2
<1> HIDE DEF new
<1>7. /\ bs \subseteq Bar
      /\ \A b \in bs : b.lv = 1 /\ Aligned(b.start, 1)
      /\ \A b, c \in bs : b.start = c.start => b = c
  BY <1>1, <1>4, <1>6 DEF Building
<1>8. IsFiniteSet(bs)
  BY <1>1, FS_Subset, FS_AddElement DEF Building
<1> HIDE DEF bs
<1>9. /\ bars' \subseteq Bar /\ todo' \in Seq(Bar) /\ last' \in Int /\ has' \in BOOLEAN
      /\ Building' /\ Stack' /\ Order' /\ NoHole'
  BY <1>2, <1>7, <1>8, EmitReadyStep
<1>10. TypeOK'
  BY <1>1, <1>2, <1>3, <1>4, <1>9 DEF TypeOK
<1> QED
  BY <1>9, <1>10 DEF IInv

LEMMA FlushTradesStep ==
  ASSUME IInv, FlushTrades
  PROVE  IInv'
<1>1. TypeOK /\ Building
  BY DEF IInv
<1>2. PICK s \in Sorted(NotEmitted(bars)) :
         /\ todo' = s /\ bars' = {}
         /\ last' = IF s = <<>> THEN last ELSE Last(s).start
         /\ has' = (has \/ s # <<>>)
  BY DEF FlushTrades
<1>3. /\ todo = <<>> /\ flushing = 0 /\ flushing' = 2
      /\ UNCHANGED <<inbox, latest, cur, sent, nread, ctx, reading, closed, taken, nin>>
  BY DEF FlushTrades, InSelect
<1>4. bars \subseteq Bar
  BY <1>1 DEF TypeOK
<1> DEFINE R == NotEmitted(bars)
<1>5. /\ R \subseteq bars /\ R \subseteq Bar
      /\ \A b \in R : b.lv = 1 /\ Aligned(b.start, 1) /\ (has => b.start > last)
  BY <1>1, <1>4 DEF NotEmitted, Building
<1>6. IsFiniteSet(R)
  BY <1>1, <1>5, FS_Subset DEF Building
<1> HIDE DEF R
<1>7. /\ todo' \in Seq(Bar) /\ last' \in Int /\ has' \in BOOLEAN
      /\ has' => Aligned(last', 1)
      /\ Stack' /\ Order' /\ NoHole'
  <2>1. s \in Sorted(R)
    BY DEF R
  <2> QED
    BY <2>1, <1>2, <1>3, <1>5, <1>6, FirstBarsLeave
<1>8. 2 \in 0..(N + 1)
  BY IntervalsArePositive
<1>9. TypeOK'
  BY <1>1, <1>2, <1>3, <1>7, <1>8 DEF TypeOK
<1>10. Building'
  BY <1>1, <1>2, <1>3, <1>7, FS_EmptySet DEF Building, Aligned
<1> QED
  BY <1>7, <1>9, <1>10 DEF IInv

\* The bar being built leaves; it is the last of its interval.
LEMMA FlushRollupStep ==
  ASSUME IInv, FlushRollup
  PROVE  IInv'
<1> DEFINE k == flushing
<1>1. TypeOK /\ Building /\ Stack /\ Order /\ NoHole
  BY DEF IInv
<1>2. /\ k \in 2..N /\ todo = <<>> /\ flushing' = k + 1
      /\ todo' = IF cur[k] = NoBar THEN <<>> ELSE <<cur[k]>>
      /\ UNCHANGED <<inbox, bars, latest, last, has, cur, sent, nread, ctx, reading, closed, taken, nin>>
  BY DEF FlushRollup, sym
<1>3. N \in Nat /\ k \in Int /\ k # 1 /\ FillGaps \subseteq 2..N
  BY <1>2, IntervalsArePositive, ConfigAssumption
<1>4. cur[k] \in Bar \cup {NoBar} /\ (cur[k] # NoBar => cur[k].lv = k)
  BY <1>1, <1>2 DEF TypeOK, Building
<1> HIDE DEF k
<1>5. \/ cur[k] = NoBar /\ todo' = <<>> /\ Len(todo') = 0
      \/ /\ cur[k] # NoBar /\ cur[k] \in Bar /\ Len(todo') = 1 /\ todo'[1] = cur[k]
         /\ todo' = <<cur[k]>>
  BY <1>2, <1>4
<1>6. todo' \in Seq(Bar)
  <2>1. cur[k] \in Bar => <<cur[k]>> \in Seq(Bar)
    OBVIOUS
  <2>2. <<>> \in Seq(Bar)
    OBVIOUS
  <2> QED
    BY <2>1, <2>2, <1>5
<1>7. \A x \in Out : x \in Bar /\ x.lv \in 1..N /\ x.start \in Int
  BY <1>1, OutBars, Pieces DEF Piece
<1>8. /\ \A x \in Out' : x \in Out \/ (cur[k] # NoBar /\ x = cur[k])
      /\ \A x \in Out : x \in Out'
      /\ cur[k] # NoBar => cur[k] \in Out'
  <2>1. Out = {sent[i] : i \in 1..Len(sent)}
    BY <1>2 DEF Out
  <2>2. Out' = {sent[i] : i \in 1..Len(sent)} \cup {todo'[i] : i \in 1..Len(todo')}
    BY <1>2 DEF Out
  <2> QED
    BY <2>1, <2>2, <1>5
<1>9. \A x \in Out : x.lv = k => cur[k] # NoBar /\ Before(x, cur[k])
  BY <1>1, <1>3 DEF Order, k
<1>10. TypeOK'
  <2>1. flushing' \in 0..(N + 1)
    BY <1>2, <1>3
  <2> QED
    BY <2>1, <1>1, <1>2, <1>6 DEF TypeOK
<1>11. Building'
  BY <1>1, <1>2 DEF Building, Aligned
<1>12. Stack'
  BY <1>2, <1>3, <1>4, <1>5 DEF Stack
<1>13. Order'
  <2>1. \A i, j \in 1..Len(sent) : (i < j /\ sent[i].lv = sent[j].lv) => Before(sent[i], sent[j])
    BY <1>1 DEF Order
  <2>2. \A i \in 1..Len(sent), j \in 1..Len(todo') : sent[i].lv = todo'[j].lv => Before(sent[i], todo'[j])
    BY <1>1, <1>4, <1>5, <1>9, OutBars
  <2>3. \A x \in Out' : x.lv = 1 => has /\ x.start <= last
    BY <1>1, <1>3, <1>4, <1>8 DEF Order
  <2>4. \A x \in Out' : (x.lv # 1 /\ k + 1 <= x.lv) => cur[x.lv] # NoBar /\ Before(x, cur[x.lv])
    <3> SUFFICES ASSUME NEW x \in Out', x.lv # 1, k + 1 <= x.lv
                 PROVE  cur[x.lv] # NoBar /\ Before(x, cur[x.lv])
      OBVIOUS
    <3>1. x \in Out
      BY <1>3, <1>4, <1>8
    <3>2. k <= x.lv
      BY <3>1, <1>3, <1>7
    <3> QED
      BY <3>1, <3>2, <1>1 DEF Order, k
  <2> QED
    BY <2>1, <2>2, <2>3, <2>4, <1>2 DEF Order, Before, End
<1>14. NoHole'
  <2> SUFFICES ASSUME NEW x \in Out', x.lv \in FillGaps
               PROVE  \/ \E y \in Out' : y.lv = x.lv /\ y.start = End(x)
                      \/ k + 1 <= x.lv /\ cur[x.lv] # NoBar /\ cur[x.lv].start = End(x)
                      \/ k + 1 > x.lv /\ \A y \in Out' : y.lv = x.lv => y.start <= x.start
    BY <1>2 DEF NoHole, Followed, End
  <2>1. CASE x \in Out /\ x.lv = k
    <3>1. Followed(x)
      BY <2>1, <1>1 DEF NoHole
    <3>2. ~(flushing > x.lv)
      BY <2>1, <1>3 DEF k
    <3> QED
      BY <3>1, <3>2, <2>1, <1>4, <1>8, <1>9 DEF Followed, k
  <2>2. CASE x \in Out /\ x.lv # k
    <3>1. Followed(x)
      BY <2>2, <1>1 DEF NoHole
    <3>2. \A y \in Out' : y.lv = x.lv => y \in Out
      BY <2>2, <1>4, <1>8
    <3>3. x.lv \in Int
      BY <2>2, <1>3, <1>7
    <3>4. (flushing <= x.lv => k + 1 <= x.lv) /\ (flushing > x.lv => k + 1 > x.lv)
      BY <3>3, <2>2, <1>3 DEF k
    <3> QED
      BY <3>1, <3>2, <3>4, <1>8 DEF Followed
  <2>3. CASE cur[k] # NoBar /\ x = cur[k]
    <3>1. x.lv = k /\ k + 1 > x.lv /\ x \in Bar /\ x.start \in Int
      BY <2>3, <1>3, <1>4, Pieces DEF Piece
    <3>2. ASSUME NEW y \in Out, y.lv = k PROVE y.start <= x.start
      <4>1. y \in Bar /\ End(y) \in Int /\ End(y) > y.start /\ y.start \in Int
        BY <1>7, EndOfBar
      <4>2. x.start >= End(y)
        BY <3>2, <2>3, <1>9 DEF Before
      <4> QED
        BY <4>1, <4>2, <3>1
    <3>3. x.start <= x.start
      BY <3>1
    <3> QED
      BY <3>1, <3>2, <3>3, <2>3, <1>8
  <2> QED
    BY <2>1, <2>2, <2>3, <1>8
<1> QED
  BY <1>10, <1>11, <1>12, <1>13, <1>14 DEF IInv

\* The producer, the consumer and the process leave the bars alone.
LEMMA OtherSteps ==
  ASSUME IInv,
         \/ \E t \in Trade \cup {BadTrade} : OfferTrade(t)
         \/ OfferDropped \/ TakeBad \/ Read \/ Cancel \/ Quit \/ Close \/ UNCHANGED vars
  PROVE  IInv'
<1>1. TypeOK /\ Building /\ Stack /\ Order /\ NoHole
  BY DEF IInv
<1>2. UNCHANGED <<bars, latest, last, has, cur, todo, sent, flushing, taken>>
  BY DEF OfferTrade, OfferDropped, TakeBad, Read, Cancel, Quit, Close, vars, sym
<1>3. TypeOK'
  <2>1. CASE \E t \in Trade \cup {BadTrade} : OfferTrade(t)
    <3>1. PICK t \in Trade \cup {BadTrade} : OfferTrade(t)
      BY <2>1
    <3>2. inbox \in Seq(Trade \cup {BadTrade}) /\ InboxSize \in Nat
      BY <1>1, ConfigAssumption DEF TypeOK
    <3>3. inbox' \in Seq(Trade \cup {BadTrade}) /\ Len(inbox') = Len(inbox) + 1 /\ Len(inbox) \in Nat
      BY <3>1, <3>2, AppendProperties, LenProperties DEF OfferTrade
    <3>4. Len(inbox') <= InboxSize
      BY <3>1, <3>2, <3>3 DEF OfferTrade
    <3> QED
      BY <3>1, <3>3, <3>4, <1>1, <1>2 DEF OfferTrade, TypeOK
  <2>2. CASE TakeBad
    <3>1. inbox' \in Seq(Trade \cup {BadTrade}) /\ Len(inbox') <= InboxSize
      BY <2>2, <1>1, HeadOfInbox DEF TakeBad
    <3> QED
      BY <3>1, <2>2, <1>1, <1>2 DEF TakeBad, TypeOK
  <2>3. CASE Read
    <3>1. Len(sent) \in Nat /\ nread \in 0..Len(sent) /\ Len(sent) - nread <= OutSize /\ OutSize \in Nat
      BY <1>1, OutBars, ConfigAssumption DEF TypeOK
    <3>2. nread' \in 0..Len(sent) /\ Len(sent) - nread' <= OutSize
      BY <3>1, <2>3 DEF Read
    <3> QED
      BY <3>2, <2>3, <1>1, <1>2 DEF Read, TypeOK
  <2>4. CASE OfferDropped \/ UNCHANGED vars
    BY <2>4, <1>1 DEF OfferDropped, TypeOK, vars, sym
  <2>5. CASE Cancel \/ Quit \/ Close
    BY <2>5, <1>1, <1>2 DEF Cancel, Quit, Close, TypeOK
  <2> QED
    BY <2>1, <2>2, <2>3, <2>4, <2>5
<1>4. Building'
  BY <1>1, <1>2 DEF Building, Aligned
<1>5. Stack'
  BY <1>1, <1>2 DEF Stack, Before, End
<1>6. Out' = Out
  BY <1>2 DEF Out
<1>7. Order'
  BY <1>1, <1>2, <1>6 DEF Order, Before, End
<1>8. NoHole'
  BY <1>1, <1>2, <1>6 DEF NoHole, Followed, End
<1> QED
  BY <1>3, <1>4, <1>5, <1>7, <1>8 DEF IInv

LEMMA InitIInv ==
  ASSUME Init
  PROVE  IInv
<1>1. N \in Nat /\ OutSize \in Nat /\ InboxSize \in Nat
  BY IntervalsArePositive, ConfigAssumption
<1>2. Out = {}
  BY DEF Init, Out
<1>3. TypeOK
  <2>1. /\ <<>> \in Seq(Trade \cup {BadTrade}) /\ <<>> \in Seq(Bar) /\ <<>> \in Seq(Trade)
        /\ Len(<<>>) = 0
    OBVIOUS
  <2>2. cur \in [2..N -> Bar \cup {NoBar}]
    BY DEF Init
  <2>3. 0 \in 0..(N + 1)
    BY <1>1
  <2>4. inbox \in Seq(Trade \cup {BadTrade}) /\ Len(inbox) <= InboxSize
    BY <1>1, <2>1 DEF Init
  <2>5. todo \in Seq(Bar) /\ sent \in Seq(Bar) /\ taken \in Seq(Trade)
    BY <2>1 DEF Init
  <2>6. Len(sent) = 0 /\ nread = 0
    BY <2>1 DEF Init
  <2>7. nread \in 0..Len(sent) /\ Len(sent) - nread <= OutSize
    BY <1>1, <2>6
  <2>8. has \in BOOLEAN /\ ctx \in BOOLEAN /\ reading \in BOOLEAN /\ closed \in BOOLEAN
    BY Zenon DEF Init
  <2>9. /\ bars \subseteq Bar /\ latest \in Nat /\ last \in Int
        /\ flushing \in 0..(N + 1) /\ nin \in Nat
    BY <2>3 DEF Init
  <2> QED
    BY <2>2, <2>4, <2>5, <2>7, <2>8, <2>9 DEF TypeOK
<1>4. Building
  BY FS_EmptySet DEF Init, Building
<1>5. Stack /\ Order /\ NoHole
  BY <1>2 DEF Init, Stack, Order, NoHole
<1> QED
  BY <1>3, <1>4, <1>5 DEF IInv

LEMMA NextIInv ==
  ASSUME IInv, [Next]_vars
  PROVE  IInv'
<1>1. CASE \/ \E t \in Trade \cup {BadTrade} : OfferTrade(t)
           \/ OfferDropped \/ TakeBad \/ Read \/ Cancel \/ Quit \/ Close \/ UNCHANGED vars
  BY <1>1, OtherSteps
<1>2. CASE TakeLate
  BY <1>2, TakeLateStep
<1>3. CASE TakeTrade
  BY <1>3, TakeTradeStep
<1>4. CASE Emit
  BY <1>4, EmitStep
<1>5. CASE FlushTrades
  BY <1>5, FlushTradesStep
<1>6. CASE FlushRollup
  BY <1>6, FlushRollupStep
<1> QED
  BY <1>1, <1>2, <1>3, <1>4, <1>5, <1>6 DEF Next

\* The next bar that leaves is the next bucket, because something is there to fill
\* it and everything in between would have left before.
LEMMA IInvIsInOrder ==
  ASSUME IInv
  PROVE  InOrder
<1>1. TypeOK /\ Order /\ NoHole
  BY DEF IInv
<1>2. /\ Len(sent) \in Nat
      /\ \A i \in 1..Len(sent) : sent[i] \in Bar /\ sent[i] \in Out
      /\ \A x \in Out : \/ \E i \in 1..Len(sent) : x = sent[i]
                        \/ \E i \in 1..Len(todo) : x = todo[i]
  BY <1>1, OutBars
<1>3. \A x \in Out : x \in Bar /\ x.lv \in Int /\ x.start \in Int /\ End(x) \in Int /\ End(x) > x.start
  BY <1>1, OutBars, Pieces, EndOfBar, IntervalsArePositive DEF Piece
<1>4. SUFFICES ASSUME NEW i \in 1..Len(sent), NEW j \in 1..Len(sent), i < j,
                      sent[i].lv = sent[j].lv, sent[i].lv \in FillGaps,
                      sent[j].start # End(sent[i])
               PROVE  \E m \in (i + 1)..(j - 1) : sent[m].lv = sent[i].lv
  BY <1>1 DEF InOrder, Order, Before
<1> DEFINE x == sent[i]
           z == sent[j]
<1>5. x \in Out /\ z \in Out
  BY <1>2
<1>6. z.start > End(x)
  <2>1. Before(x, z)
    BY <1>1, <1>4 DEF Order
  <2> QED
    BY <2>1, <1>3, <1>4, <1>5 DEF Before
<1> HIDE DEF x, z
<1>7. Followed(x)
  BY <1>1, <1>4, <1>5 DEF NoHole, x
<1>8. CASE \E y \in Out : y.lv = x.lv /\ y.start = End(x)
  <2>1. PICK y \in Out : y.lv = x.lv /\ y.start = End(x)
    BY <1>8
  <2>2. ~Before(z, y)
    BY <2>1, <1>3, <1>5, <1>6 DEF Before
  <2>3. ~Before(y, x)
    BY <2>1, <1>3, <1>5 DEF Before
  <2>4. ASSUME NEW m \in 1..Len(todo), y = todo[m] PROVE FALSE
    <3>1. sent[j].lv = todo[m].lv
      BY <2>1, <2>4, <1>4 DEF x
    <3> QED
      BY <3>1, <2>2, <2>4, <1>1 DEF Order, z
  <2>5. PICK m \in 1..Len(sent) : y = sent[m]
    BY <2>1, <2>4, <1>2
  <2>6. ~(m < i)
    BY <2>1, <2>3, <2>5, <1>1 DEF Order, x
  <2>7. ~(j < m)
    BY <2>1, <2>2, <2>5, <1>1, <1>4 DEF Order, x, z
  <2>8. m # i /\ m # j
    BY <2>1, <2>5, <1>3, <1>5, <1>6 DEF x, z
  <2>9. m \in (i + 1)..(j - 1)
    BY <2>6, <2>7, <2>8, <1>2
  <2> QED
    BY <2>1, <2>5, <2>9 DEF x
<1>9. CASE flushing <= x.lv /\ cur[x.lv] # NoBar /\ cur[x.lv].start = End(x)
  <2>1. z.lv = x.lv /\ z.lv # 1
    BY <1>4, ConfigAssumption, IntervalsArePositive DEF x, z
  <2>2. Before(z, cur[z.lv])
    BY <2>1, <1>1, <1>5, <1>9 DEF Order
  <2> QED
    BY <2>1, <2>2, <1>3, <1>5, <1>6, <1>9 DEF Before
<1>10. CASE flushing > x.lv /\ \A y \in Out : y.lv = x.lv => y.start <= x.start
  <2>1. z.start <= x.start
    BY <1>4, <1>5, <1>10 DEF x, z
  <2> QED
    BY <2>1, <1>3, <1>5, <1>6
<1> QED
  BY <1>7, <1>8, <1>9, <1>10 DEF Followed

\* The bars of one interval leave in order, each bucket once, and without a hole
\* where gaps are filled, whatever the order of the trades and wherever the
\* shutdown comes.
THEOREM BarsLeaveInOrder == Spec => []InOrder
<1>1. Init => IInv
  BY InitIInv
<1>2. IInv /\ [Next]_vars => IInv'
  BY NextIInv
<1>3. IInv => InOrder
  BY IInvIsInOrder
<1> QED
  BY <1>1, <1>2, <1>3, PTL DEF Spec

-----------------------------------------------------------------------------
(* Sums over places of a list *)

\* Induction over the naturals, for a set.
LEMMA SetInduction ==
  ASSUME NEW T, 0 \in T, \A n \in Nat : n \in T => n + 1 \in T
  PROVE  \A n \in Nat : n \in T
<1> DEFINE F == Nat \ T
<1>1. SUFFICES ASSUME F # {} PROVE FALSE
  OBVIOUS
<1>2. F \in SUBSET Nat
  OBVIOUS
<1>3. \E x \in F : \A y \in F : ~(<<y, x>> \in OpToRel(<, Nat))
  BY <1>1, <1>2, NatLessThanWellFounded, WFMin
<1>4. PICK x \in F : \A y \in F : ~(y < x)
  BY <1>3 DEF OpToRel
<1>5. x # 0 /\ x - 1 \in Nat /\ x - 1 \notin F
  BY <1>4
<1>6. x - 1 + 1 = x
  BY <1>4
<1> QED
  BY <1>4, <1>5, <1>6

\* A list of trades or bars.
Pieced(xs) == Len(xs) \in Nat /\ \A i \in 1..Len(xs) : Piece(xs[i])

\* f is the recursive function of Volume, for the first n places.
IsSum(xs, I, n, f) ==
  f = [i \in 0..n |-> IF i = 0 THEN 0 ELSE f[i - 1] + (IF i \in I THEN xs[i].v ELSE 0)]

\* The volume at the places I of the first n.
VolumeTo(xs, I, n) == (CHOOSE f : IsSum(xs, I, Len(xs), f))[n]

LEMMA VolumeIsVolumeTo ==
  ASSUME NEW xs, NEW I
  PROVE  Volume(xs, I) = VolumeTo(xs, I, Len(xs))
  BY DEF Volume, VolumeTo, IsSum

LEMMA SumExists ==
  ASSUME NEW xs, NEW I, NEW m \in Nat
  PROVE  \E f : IsSum(xs, I, m, f)
<1> DEFINE T == {n \in Nat : \E f : IsSum(xs, I, n, f)}
           g0 == [i \in 0..0 |-> 0]
<1>1. 0 \in T
  <2>1. \A i \in 0..0 : i = 0
    OBVIOUS
  <2>2. IsSum(xs, I, 0, g0)
    BY <2>1 DEF IsSum
  <2> HIDE DEF g0
  <2> QED
    BY <2>2
<1>2. ASSUME NEW n \in Nat, n \in T PROVE n + 1 \in T
  <2>1. PICK f : IsSum(xs, I, n, f)
    BY <1>2
  <2> DEFINE step(a, i) == a + (IF i \in I THEN xs[i].v ELSE 0)
             g == [i \in 0..(n + 1) |-> IF i = n + 1 THEN step(f[n], n + 1) ELSE f[i]]
  <2> HIDE DEF step
  <2>2. \A i \in 0..n : f[i] = IF i = 0 THEN 0 ELSE step(f[i - 1], i)
    BY <2>1 DEF IsSum, step
  <2>3. g[n + 1] = step(f[n], n + 1) /\ \A i \in 0..n : g[i] = f[i]
    OBVIOUS
  <2>4. g = [i \in 0..(n + 1) |-> g[i]]
    OBVIOUS
  <2> HIDE DEF g
  <2>5. ASSUME NEW i \in 0..(n + 1) PROVE g[i] = IF i = 0 THEN 0 ELSE step(g[i - 1], i)
    <3>1. CASE i = n + 1
      <4>1. i # 0 /\ i - 1 = n /\ n \in 0..n
        BY <3>1
      <4> QED
        BY <4>1, <3>1, <2>3
    <3>2. CASE i # n + 1
      <4>1. i \in 0..n /\ (i # 0 => i - 1 \in 0..n)
        BY <3>2
      <4> QED
        BY <4>1, <2>2, <2>3
    <3> QED
      BY <3>1, <3>2
  <2>6. IsSum(xs, I, n + 1, g)
    BY <2>4, <2>5 DEF IsSum, step
  <2> QED
    BY <2>6
<1> HIDE DEF T
<1>3. m \in T
  BY <1>1, <1>2, SetInduction
<1> QED
  BY <1>3 DEF T

\* What place n adds.
Added(xs, I, n) == IF n \in I THEN xs[n].v ELSE 0

LEMMA VolumeSteps ==
  ASSUME NEW xs, NEW I, Pieced(xs)
  PROVE  /\ VolumeTo(xs, I, 0) = 0
         /\ \A n \in 0..Len(xs) : VolumeTo(xs, I, n) \in Nat
         /\ \A n \in 1..Len(xs) :
              VolumeTo(xs, I, n) = VolumeTo(xs, I, n - 1) + Added(xs, I, n)
<1> DEFINE f == CHOOSE f : IsSum(xs, I, Len(xs), f)
<1>0. Len(xs) \in Nat
  BY DEF Pieced
<1>1. IsSum(xs, I, Len(xs), f)
  BY <1>0, SumExists
<1> HIDE DEF f
<1>2. \A n \in 0..Len(xs) : f[n] = IF n = 0 THEN 0 ELSE f[n - 1] + Added(xs, I, n)
  BY <1>1 DEF IsSum, Added
<1>3. \A n \in 1..Len(xs) : Added(xs, I, n) \in Nat
  BY DEF Pieced, Piece, Added
<1>4. f[0] = 0 /\ \A n \in 1..Len(xs) : f[n] = f[n - 1] + Added(xs, I, n)
  BY <1>0, <1>2
<1> DEFINE T == {n \in Nat : n <= Len(xs) => f[n] \in Nat}
<1>5. 0 \in T
  BY <1>4
<1>6. ASSUME NEW n \in Nat, n \in T PROVE n + 1 \in T
  <2> SUFFICES ASSUME n + 1 <= Len(xs) PROVE f[n + 1] \in Nat
    OBVIOUS
  <2>1. n + 1 \in 1..Len(xs) /\ n + 1 - 1 = n
    BY <1>0
  <2>2. f[n] \in Nat
    BY <1>0, <1>6
  <2>3. f[n + 1] = f[n] + Added(xs, I, n + 1) /\ Added(xs, I, n + 1) \in Nat
    BY <2>1, <1>3, <1>4
  <2> QED
    BY <2>2, <2>3
<1> HIDE DEF T
<1>7. \A n \in Nat : n \in T
  BY <1>5, <1>6, SetInduction
<1>8. \A n \in 0..Len(xs) : f[n] \in Nat
  BY <1>0, <1>7 DEF T
<1> QED
  BY <1>4, <1>8 DEF VolumeTo, f

LEMMA VolumeNext ==
  ASSUME NEW xs, NEW I, Pieced(xs), NEW n \in Nat, NEW m \in Nat, m = n + 1, m <= Len(xs)
  PROVE  /\ VolumeTo(xs, I, n) \in Nat /\ Added(xs, I, m) \in Nat
         /\ VolumeTo(xs, I, m) = VolumeTo(xs, I, n) + Added(xs, I, m)
<1>1. Len(xs) \in Nat
  BY DEF Pieced
<1>2. m \in 1..Len(xs) /\ n \in 0..Len(xs) /\ n = m - 1
  BY <1>1
<1>3. VolumeTo(xs, I, n) \in Nat
  BY <1>2, VolumeSteps
<1>4. VolumeTo(xs, I, m) = VolumeTo(xs, I, m - 1) + Added(xs, I, m)
  BY <1>2, VolumeSteps
<1>5. Added(xs, I, m) \in Nat
  BY <1>2 DEF Added, Pieced, Piece
<1> QED
  BY <1>2, <1>3, <1>4, <1>5

\* A longer list, and places that differ behind the shorter one only.
LEMMA VolumeGrown ==
  ASSUME NEW xs, NEW ys, NEW I, NEW J, Pieced(xs), Pieced(ys), Len(xs) <= Len(ys),
         \A i \in 1..Len(xs) : ys[i] = xs[i] /\ (i \in I <=> i \in J)
  PROVE  \A n \in 0..Len(xs) : VolumeTo(ys, J, n) = VolumeTo(xs, I, n)
<1> DEFINE T == {n \in Nat : n <= Len(xs) => VolumeTo(ys, J, n) = VolumeTo(xs, I, n)}
<1>0. Len(xs) \in Nat /\ Len(ys) \in Nat
  BY DEF Pieced
<1>1. 0 \in T
  BY VolumeSteps
<1>2. ASSUME NEW n \in Nat, n \in T PROVE n + 1 \in T
  <2> SUFFICES ASSUME NEW m \in Nat, m = n + 1, m <= Len(xs)
               PROVE  VolumeTo(ys, J, m) = VolumeTo(xs, I, m)
    OBVIOUS
  <2>1. m \in 1..Len(xs) /\ m <= Len(ys)
    BY <1>0
  <2>2. VolumeTo(ys, J, n) = VolumeTo(xs, I, n)
    BY <1>0, <1>2
  <2>3. VolumeTo(xs, I, m) = VolumeTo(xs, I, n) + Added(xs, I, m)
    BY VolumeNext
  <2>4. VolumeTo(ys, J, m) = VolumeTo(ys, J, n) + Added(ys, J, m)
    BY <2>1, VolumeNext
  <2>5. Added(ys, J, m) = Added(xs, I, m)
    BY <2>1 DEF Added
  <2> QED
    BY <2>2, <2>3, <2>4, <2>5
<1> HIDE DEF T
<1>3. \A n \in Nat : n \in T
  BY <1>1, <1>2, SetInduction
<1> QED
  BY <1>0, <1>3 DEF T

\* One place more.
LEMMA VolumeAppend ==
  ASSUME NEW xs, NEW ys, NEW I, NEW J, Pieced(xs), Pieced(ys), Len(ys) = Len(xs) + 1,
         \A i \in 1..Len(xs) : ys[i] = xs[i] /\ (i \in I <=> i \in J)
  PROVE  /\ Volume(xs, I) \in Nat
         /\ Volume(ys, J) = Volume(xs, I) + Added(ys, J, Len(ys))
<1> DEFINE n == Len(xs)
           m == Len(ys)
<1>0. n \in Nat /\ n <= m /\ m \in Nat /\ m = n + 1 /\ n \in 0..n /\ m <= Len(ys)
  BY DEF Pieced
<1>1. Volume(xs, I) = VolumeTo(xs, I, n) /\ Volume(ys, J) = VolumeTo(ys, J, m)
  BY VolumeIsVolumeTo
<1>2. \A i \in 0..n : VolumeTo(ys, J, i) = VolumeTo(xs, I, i)
  BY <1>0, VolumeGrown
<1>3. \A i \in 0..n : VolumeTo(xs, I, i) \in Nat
  BY VolumeSteps
<1> HIDE DEF n, m
<1>4. VolumeTo(ys, J, m) = VolumeTo(ys, J, n) + Added(ys, J, m)
  BY <1>0, VolumeNext
<1>5. VolumeTo(ys, J, n) = VolumeTo(xs, I, n) /\ VolumeTo(xs, I, n) \in Nat
  BY <1>0, <1>2, <1>3, Zenon
<1> QED
  BY <1>1, <1>4, <1>5, Zenon DEF m

LEMMA VolumeEmpty ==
  ASSUME NEW xs, NEW I, Pieced(xs), \A i \in 1..Len(xs) : i \notin I
  PROVE  Volume(xs, I) = 0
<1> DEFINE T == {n \in Nat : n <= Len(xs) => VolumeTo(xs, I, n) = 0}
<1>0. Len(xs) \in Nat
  BY DEF Pieced
<1>1. 0 \in T
  BY VolumeSteps
<1>2. ASSUME NEW n \in Nat, n \in T PROVE n + 1 \in T
  <2> SUFFICES ASSUME NEW m \in Nat, m = n + 1, m <= Len(xs) PROVE VolumeTo(xs, I, m) = 0
    OBVIOUS
  <2>1. VolumeTo(xs, I, m) = VolumeTo(xs, I, n) + Added(xs, I, m)
    BY VolumeNext
  <2>2. Added(xs, I, m) = 0
    BY <1>0 DEF Added
  <2>3. VolumeTo(xs, I, n) = 0
    BY <1>0, <1>2
  <2> QED
    BY <2>1, <2>2, <2>3
<1> HIDE DEF T
<1>3. \A n \in Nat : n \in T
  BY <1>1, <1>2, SetInduction
<1>4. Len(xs) \in T
  BY <1>0, <1>3, Zenon
<1> QED
  BY <1>0, <1>4, VolumeIsVolumeTo DEF T

\* Disjoint places add up.
LEMMA VolumeUnion ==
  ASSUME NEW xs, NEW I, NEW J, Pieced(xs), I \cap J = {}
  PROVE  /\ Volume(xs, I) \in Nat /\ Volume(xs, J) \in Nat
         /\ Volume(xs, I \cup J) = Volume(xs, I) + Volume(xs, J)
<1> DEFINE K == I \cup J
           T == {n \in Nat : n <= Len(xs) =>
                   VolumeTo(xs, K, n) = VolumeTo(xs, I, n) + VolumeTo(xs, J, n)}
<1>0. Len(xs) \in Nat /\ Len(xs) \in 0..Len(xs)
  BY DEF Pieced
<1>i. \A n : n \in K <=> (n \in I \/ n \in J)
  OBVIOUS
<1> HIDE DEF K
<1>1. 0 \in T
  BY VolumeSteps
<1>2. ASSUME NEW n \in Nat, n \in T PROVE n + 1 \in T
  <2> SUFFICES ASSUME NEW m \in Nat, m = n + 1, m <= Len(xs)
               PROVE  VolumeTo(xs, K, m) = VolumeTo(xs, I, m) + VolumeTo(xs, J, m)
    OBVIOUS
  <2>1. n <= Len(xs) /\ m \in 1..Len(xs)
    BY <1>0
  <2>2. VolumeTo(xs, K, n) = VolumeTo(xs, I, n) + VolumeTo(xs, J, n)
    BY <2>1, <1>2
  <2>3. /\ VolumeTo(xs, I, n) \in Nat /\ Added(xs, I, m) \in Nat
        /\ VolumeTo(xs, I, m) = VolumeTo(xs, I, n) + Added(xs, I, m)
    BY VolumeNext
  <2>4. /\ VolumeTo(xs, J, n) \in Nat /\ Added(xs, J, m) \in Nat
        /\ VolumeTo(xs, J, m) = VolumeTo(xs, J, n) + Added(xs, J, m)
    BY VolumeNext
  <2>5. VolumeTo(xs, K, m) = VolumeTo(xs, K, n) + Added(xs, K, m)
    BY VolumeNext
  <2>6. Added(xs, K, m) = Added(xs, I, m) + Added(xs, J, m)
    <3>1. xs[m].v \in Nat
      BY <2>1 DEF Pieced, Piece
    <3>2. ~(m \in I /\ m \in J)
      OBVIOUS
    <3> QED
      BY <3>1, <3>2, <1>i DEF Added
  <2> QED
    BY <2>2, <2>3, <2>4, <2>5, <2>6
<1> HIDE DEF T
<1>3. \A n \in Nat : n \in T
  BY <1>1, <1>2, SetInduction
<1>4. VolumeTo(xs, K, Len(xs)) = VolumeTo(xs, I, Len(xs)) + VolumeTo(xs, J, Len(xs))
  <2>1. Len(xs) \in T
    BY <1>0, <1>3, Zenon
  <2> QED
    BY <1>0, <2>1 DEF T
<1>5. VolumeTo(xs, I, Len(xs)) \in Nat /\ VolumeTo(xs, J, Len(xs)) \in Nat
  <2>1. \A n \in 0..Len(xs) : VolumeTo(xs, I, n) \in Nat /\ VolumeTo(xs, J, n) \in Nat
    BY VolumeSteps
  <2> QED
    BY <1>0, <2>1, Zenon
<1> QED
  BY <1>4, <1>5, VolumeIsVolumeTo, Zenon DEF K

\* The volumes of the places J of ys are those of the places C[j] of xs, which share
\* no place and together are S.
Split(xs, ys, J, C, S) ==
  /\ J \subseteq 1..Len(ys)
  /\ \A j \in J : ys[j].v = Volume(xs, C[j])
  /\ \A i, j \in J : i # j => C[i] \cap C[j] = {}
  /\ \A p \in S : \E j \in J : p \in C[j]
  /\ \A j \in J : C[j] \subseteq S

\* Volumes add up: what ys holds in J is what xs holds in S.
LEMMA VolumePartition ==
  ASSUME NEW xs, NEW ys, NEW J, NEW C, NEW S, Pieced(xs), Pieced(ys), Split(xs, ys, J, C, S)
  PROVE  Volume(ys, J) = Volume(xs, S)
<1>split. /\ J \subseteq 1..Len(ys)
      /\ \A j \in J : ys[j].v = Volume(xs, C[j])
      /\ \A i, m \in J : i # m => C[i] \cap C[m] = {}
  BY DEF Split
<1>union. UNION {C[j] : j \in J} = S
  BY DEF Split
<1> DEFINE U(n) == UNION {C[j] : j \in {i \in J : i <= n}}
           T == {n \in Nat : n <= Len(ys) => VolumeTo(ys, J, n) = Volume(xs, U(n))}
<1>0. Len(ys) \in Nat /\ \A j \in J : j \in Nat /\ 1 <= j /\ j <= Len(ys)
  BY <1>split DEF Pieced
<1>1. 0 \in T
  <2>1. U(0) = {}
    <3>1. \A i \in J : ~(i <= 0)
      BY <1>0
    <3> QED
      BY <3>1, Zenon
  <2>2. Volume(xs, {}) = 0
    BY VolumeEmpty
  <2> QED
    BY <2>1, <2>2, VolumeSteps
<1>2. ASSUME NEW n \in Nat, n \in T PROVE n + 1 \in T
  <2> SUFFICES ASSUME NEW m \in Nat, m = n + 1, m <= Len(ys)
               PROVE  VolumeTo(ys, J, m) = Volume(xs, U(m))
    OBVIOUS
  <2>1. VolumeTo(ys, J, n) = Volume(xs, U(n))
    BY <1>0, <1>2
  <2>2. VolumeTo(ys, J, m) = VolumeTo(ys, J, n) + Added(ys, J, m) /\ VolumeTo(ys, J, n) \in Nat
    BY VolumeNext
  <2>3. CASE m \notin J
    <3>1. {i \in J : i <= m} = {i \in J : i <= n}
      <4>1. \A i \in J : i <= m <=> i <= n
        BY <2>3, <1>0
      <4> QED
        BY <4>1, Zenon
    <3>2. U(m) = U(n)
      BY <3>1, Zenon
    <3>3. Added(ys, J, m) = 0
      BY <2>3 DEF Added
    <3> HIDE DEF U
    <3> QED
      BY <2>1, <2>2, <3>2, <3>3
  <2>4. CASE m \in J
    <3>1. {i \in J : i <= m} = {i \in J : i <= n} \cup {m}
      <4>1. \A i \in J : i <= m <=> (i <= n \/ i = m)
        BY <2>4, <1>0
      <4> QED
        BY <4>1, <2>4, Zenon
    <3>2. U(m) = U(n) \cup C[m]
      <4> DEFINE A == {i \in J : i <= n}
      <4> HIDE DEF A
      <4>1. UNION {C[j] : j \in A \cup {m}} = (UNION {C[j] : j \in A}) \cup C[m]
        OBVIOUS
      <4> QED
        BY <3>1, <4>1, Zenon DEF A
    <3>3. U(n) \cap C[m] = {}
      <4>1. ASSUME NEW p \in U(n), p \in C[m] PROVE FALSE
        <5>1. PICK i \in {i \in J : i <= n} : p \in C[i]
          BY <4>1
        <5>2. i # m
          BY <5>1, <1>0
        <5>3. C[i] \cap C[m] = {}
          BY <1>split, <5>1, <5>2, <2>4
        <5> QED
          BY <5>1, <5>3, <4>1
      <4> QED
        BY <4>1
    <3> HIDE DEF U
    <3>4. Volume(xs, U(m)) = Volume(xs, U(n)) + Volume(xs, C[m])
      BY <3>2, <3>3, VolumeUnion
    <3>5. Added(ys, J, m) = Volume(xs, C[m])
      BY <1>split, <2>4 DEF Added
    <3> QED
      BY <2>1, <2>2, <3>4, <3>5
  <2> QED
    BY <2>3, <2>4
<1> HIDE DEF T
<1>3. \A n \in Nat : n \in T
  BY <1>1, <1>2, SetInduction
<1>4. VolumeTo(ys, J, Len(ys)) = Volume(xs, U(Len(ys)))
  <2>1. Len(ys) \in T
    BY <1>0, <1>3, Zenon
  <2> QED
    BY <1>0, <2>1 DEF T
<1>5. {i \in J : i <= Len(ys)} = J
  BY <1>0, Zenon
<1>6. U(Len(ys)) = S
  BY <1>5, <1>union, Zenon
<1> HIDE DEF U
<1> QED
  BY <1>4, <1>6, VolumeIsVolumeTo, Zenon

-----------------------------------------------------------------------------
(* Bars that are sums *)

\* Sums, with the places where the open, the close, the high and the low come from.
Made(b, xs, I) ==
  /\ I \subseteq 1..Len(xs) /\ IsFiniteSet(I)
  /\ \E i \in I : b.o = xs[i].o /\ \A j \in I : i <= j
  /\ \E i \in I : b.c = xs[i].c /\ \A j \in I : j <= i
  /\ \E i \in I : b.h = xs[i].h /\ \A j \in I : xs[j].h <= b.h
  /\ \E i \in I : b.l = xs[i].l /\ \A j \in I : b.l <= xs[j].l
  /\ b.v = Volume(xs, I) /\ b.n = Cardinality(I)

LEMMA MaxIs ==
  ASSUME NEW S, S \subseteq Int, NEW m \in S, \A y \in S : y <= m
  PROVE  Max(S) = m
<1>1. Max(S) \in S /\ \A y \in S : Max(S) >= y
  BY DEF Max
<1>2. Max(S) \in Int /\ m \in Int
  BY <1>1
<1>3. Max(S) <= m /\ m <= Max(S)
  BY <1>1, <1>2
<1> QED
  BY <1>2, <1>3

LEMMA MinIs ==
  ASSUME NEW S, S \subseteq Int, NEW m \in S, \A y \in S : m <= y
  PROVE  Min(S) = m
<1>1. Min(S) \in S /\ \A y \in S : Min(S) <= y
  BY DEF Min
<1>2. Min(S) \in Int /\ m \in Int
  BY <1>1
<1>3. Min(S) <= m /\ m <= Min(S)
  BY <1>1, <1>2
<1> QED
  BY <1>2, <1>3

LEMMA MadeIsSums ==
  ASSUME NEW b, NEW xs, NEW I, Pieced(xs), Made(b, xs, I)
  PROVE  I # {} /\ Sums(b, xs, I)
<1>1. I \subseteq Int /\ \A i \in I : i \in 1..Len(xs) /\ xs[i].h \in Int /\ xs[i].l \in Int
  BY DEF Made, Pieced, Piece
<1>2. PICK i \in I : b.o = xs[i].o /\ \A j \in I : i <= j
  BY DEF Made
<1>3. Min(I) = i
  BY <1>1, <1>2, MinIs
<1>4. PICK j \in I : b.c = xs[j].c /\ \A m \in I : m <= j
  BY DEF Made
<1>5. Max(I) = j
  BY <1>1, <1>4, MaxIs
<1>6. b.h = Max({xs[m].h : m \in I})
  <2> DEFINE H == {xs[m].h : m \in I}
  <2>1. H \subseteq Int /\ b.h \in H /\ \A y \in H : y <= b.h
    BY <1>1 DEF Made
  <2> HIDE DEF H
  <2>2. Max(H) = b.h
    BY <2>1, MaxIs
  <2> QED
    BY <2>2 DEF H
<1>7. b.l = Min({xs[m].l : m \in I})
  <2> DEFINE H == {xs[m].l : m \in I}
  <2>1. H \subseteq Int /\ b.l \in H /\ \A y \in H : b.l <= y
    BY <1>1 DEF Made
  <2> HIDE DEF H
  <2>2. Min(H) = b.l
    BY <2>1, MinIs
  <2> QED
    BY <2>2 DEF H
<1>8. b.v = Volume(xs, I) /\ b.n = Cardinality(I)
  BY DEF Made
<1> QED
  BY <1>2, <1>3, <1>4, <1>5, <1>6, <1>7, <1>8 DEF Sums

\* ys is xs and one more.
OneMore(xs, ys) ==
  /\ Pieced(xs) /\ Pieced(ys) /\ Len(ys) = Len(xs) + 1
  /\ \A i \in 1..Len(xs) : ys[i] = xs[i]

LEMMA MadeGrown ==
  ASSUME NEW b, NEW xs, NEW ys, NEW I, OneMore(xs, ys), Made(b, xs, I)
  PROVE  Made(b, ys, I)
<1>1. Len(xs) \in Nat /\ Len(ys) = Len(xs) + 1 /\ I \subseteq 1..Len(xs)
  BY DEF OneMore, Pieced, Made
<1>2. \A i \in I : ys[i] = xs[i]
  BY <1>1 DEF OneMore
<1>3. I \subseteq 1..Len(ys) /\ Len(ys) \notin I
  BY <1>1
<1>4. Volume(xs, I) \in Nat /\ Volume(ys, I) = Volume(xs, I) + Added(ys, I, Len(ys))
  BY VolumeAppend DEF OneMore
<1>5. Volume(ys, I) = Volume(xs, I)
  BY <1>3, <1>4 DEF Added
<1> QED
  BY <1>2, <1>3, <1>5 DEF Made

LEMMA OpenedIsMade ==
  ASSUME NEW k \in 1..N, NEW xs, NEW ys, OneMore(xs, ys)
  PROVE  Made(Opened(k, ys[Len(ys)]), ys, {Len(ys)})
<1> DEFINE m == Len(ys)
           x == ys[m]
           b == Opened(k, x)
<1>1. Len(xs) \in Nat /\ m = Len(xs) + 1 /\ Pieced(xs) /\ Pieced(ys) /\ m \in 1..m
  BY DEF OneMore, Pieced
<1>2. Piece(x)
  BY <1>1 DEF Pieced
<1>3. /\ b.o = x.o /\ b.c = x.c /\ b.h = x.h /\ b.l = x.l /\ b.v = x.v /\ b.n = 1
  BY DEF Opened
<1>4. Volume(xs, {}) = 0
  BY <1>1, VolumeEmpty
<1>5. Volume(ys, {m}) = x.v
  <2>1. \A i \in 1..Len(xs) : ys[i] = xs[i] /\ (i \in {} <=> i \in {m})
    BY <1>1 DEF OneMore
  <2>2. Volume(ys, {m}) = Volume(xs, {}) + Added(ys, {m}, m)
    BY <1>1, <2>1, VolumeAppend
  <2>3. Added(ys, {m}, m) = x.v
    BY DEF Added
  <2> QED
    BY <1>2, <1>4, <2>2, <2>3 DEF Piece
<1>6. IsFiniteSet({m}) /\ Cardinality({m}) = 1
  BY FS_Singleton
<1>7. {m} \subseteq 1..Len(ys)
  BY <1>1
<1> HIDE DEF b
<1>8. Made(b, ys, {m})
  BY <1>1, <1>2, <1>3, <1>5, <1>6, <1>7 DEF Made, Piece
<1> QED
  BY <1>8 DEF b

LEMMA MergedIsMade ==
  ASSUME NEW b \in Bar, NEW xs, NEW ys, NEW I, OneMore(xs, ys), Made(b, xs, I)
  PROVE  Made(Merged(b, ys[Len(ys)]), ys, I \cup {Len(ys)})
<1> DEFINE m == Len(ys)
           x == ys[m]
           J == I \cup {m}
           c == Merged(b, x)
<1>1. Len(xs) \in Nat /\ m = Len(xs) + 1 /\ m \in 1..m /\ I \subseteq 1..Len(xs) /\ Pieced(ys)
  BY DEF OneMore, Pieced, Made
<1>2. Piece(x)
  BY <1>1 DEF Pieced
<1>3. /\ c.o = b.o /\ c.c = x.c /\ c.v = b.v + x.v /\ c.n = b.n + 1
      /\ c.h = IF x.h > b.h THEN x.h ELSE b.h
      /\ c.l = IF x.l < b.l THEN x.l ELSE b.l
  BY DEF Merged, Bar
<1>4. Made(b, ys, I)
  BY MadeGrown
<1>5. \A i \in I : i \in 1..m /\ i < m /\ Piece(ys[i])
  BY <1>1 DEF Pieced
<1>6. m \notin I /\ J \subseteq 1..m
  <2>1. I \subseteq 1..m
    BY <1>5
  <2>2. m \notin I
    BY <1>1, <1>5
  <2> HIDE DEF m
  <2> QED
    BY <2>1, <2>2, <1>1
<1>7. IsFiniteSet(J) /\ Cardinality(J) = Cardinality(I) + 1
  BY <1>4, <1>6, FS_AddElement DEF Made
<1>8. Volume(ys, J) = b.v + x.v
  <2>1. Pieced(xs)
    BY DEF OneMore
  <2>2. \A i \in 1..Len(xs) : ys[i] = xs[i] /\ (i \in I <=> i \in J)
    BY <1>1 DEF OneMore
  <2> HIDE DEF J
  <2>3. Volume(ys, J) = Volume(xs, I) + Added(ys, J, m)
    BY <1>1, <2>1, <2>2, VolumeAppend
  <2>4. Added(ys, J, m) = x.v
    BY DEF Added, J
  <2> QED
    BY <2>3, <2>4 DEF Made
<1>9. PICK i \in I : b.o = ys[i].o /\ \A j \in I : i <= j
  BY <1>4 DEF Made
<1>10. PICK hi \in I : b.h = ys[hi].h /\ \A j \in I : ys[j].h <= b.h
  BY <1>4 DEF Made
<1>11. PICK li \in I : b.l = ys[li].l /\ \A j \in I : b.l <= ys[j].l
  BY <1>4 DEF Made
<1>12. \A j \in J : j \in I \/ j = m
  OBVIOUS
<1>13. m \in J /\ i \in J /\ hi \in J /\ li \in J
  OBVIOUS
<1>14. b.h \in Nat /\ b.l \in Nat /\ x.h \in Nat /\ x.l \in Nat
  BY <1>2 DEF Piece, Bar
<1> HIDE DEF J, c, x, m
<1>15. \E p \in J : c.o = ys[p].o /\ \A j \in J : p <= j
  <2>1. i <= m
    BY <1>1, <1>5, <1>9
  <2>2. \A j \in J : i <= j
    BY <2>1, <1>9, <1>12
  <2> QED
    BY <2>2, <1>3, <1>9, <1>13
<1>16. \E p \in J : c.c = ys[p].c /\ \A j \in J : j <= p
  BY <1>1, <1>3, <1>5, <1>12, <1>13 DEF x
<1>17. \E p \in J : c.h = ys[p].h /\ \A j \in J : ys[j].h <= c.h
  <2>0. \A j \in I : ys[j].h \in Nat
    BY <1>5 DEF Piece
  <2>1. CASE x.h > b.h
    BY <2>0, <2>1, <1>3, <1>10, <1>12, <1>13, <1>14 DEF x
  <2>2. CASE ~(x.h > b.h)
    BY <2>0, <2>2, <1>3, <1>10, <1>12, <1>13, <1>14 DEF x
  <2> QED
    BY <2>1, <2>2
<1>18. \E p \in J : c.l = ys[p].l /\ \A j \in J : c.l <= ys[j].l
  <2>0. \A j \in I : ys[j].l \in Nat
    BY <1>5 DEF Piece
  <2>1. CASE x.l < b.l
    BY <2>0, <2>1, <1>3, <1>11, <1>12, <1>13, <1>14 DEF x
  <2>2. CASE ~(x.l < b.l)
    BY <2>0, <2>2, <1>3, <1>11, <1>12, <1>13, <1>14 DEF x
  <2> QED
    BY <2>1, <2>2
<1>19. c.v = Volume(ys, J) /\ c.n = Cardinality(J)
  BY <1>3, <1>7, <1>8 DEF Made
<1>20. Made(c, ys, J)
  BY <1>6, <1>7, <1>15, <1>16, <1>17, <1>18, <1>19 DEF Made, m
<1> QED
  BY <1>20 DEF J, c, x, m

-----------------------------------------------------------------------------
(* Bars and the finer bars of their buckets *)

\* A bucket holds the times it is computed from, and a later time has no earlier one.
LEMMA BucketHolds ==
  ASSUME NEW k \in 1..N, NEW ts \in Int
  PROVE  bucketStart(ts, k) <= ts /\ ts < bucketStart(ts, k) + Intervals[k]
<1> DEFINE I == Intervals[k]
           a == ts + Offset
<1>1. I \in Nat \ {0} /\ Offset \in Nat /\ a \in Int
  BY IntervalsArePositive, ConfigAssumption
<1>2. bucketStart(ts, k) = (a \div I) * I - Offset
  BY DEF bucketStart
<1>3. ts = a - Offset
  BY <1>1
<1> HIDE DEF I, a
<1>4. (a \div I) * I <= a /\ a < (a \div I) * I + I /\ (a \div I) * I \in Int
  BY <1>1, SMT
<1> QED
  BY <1>1, <1>2, <1>3, <1>4 DEF I

LEMMA BucketsMonotonic ==
  ASSUME NEW k \in 1..N, NEW ts \in Int, NEW us \in Int, ts <= us
  PROVE  bucketStart(ts, k) <= bucketStart(us, k)
<1>1. /\ bucketStart(ts, k) \in Int /\ Aligned(bucketStart(ts, k), k)
      /\ bucketStart(us, k) \in Int /\ Aligned(bucketStart(us, k), k)
  BY BucketStart
<1>2. bucketStart(ts, k) <= ts /\ us < bucketStart(us, k) + Intervals[k]
  BY BucketHolds
<1>3. bucketStart(us, k) < bucketStart(ts, k) => bucketStart(us, k) + Intervals[k] <= bucketStart(ts, k)
  BY <1>1, BucketsApart
<1>4. Intervals[k] \in Nat
  BY IntervalsArePositive
<1> QED
  BY <1>1, <1>2, <1>3, <1>4

\* ChildrenOf, in the list xs of bars sent.
ChildrenIn(xs, y) ==
  {i \in 1..Len(xs) : xs[i].lv = y.lv - 1 /\ bucketStart(xs[i].start, y.lv) = y.start}

MadeIn(xs, y) == Made(y, xs, ChildrenIn(xs, y))

LEMMA ChildrenOfIsChildrenIn == \A y : ChildrenOf(y) = ChildrenIn(sent, y)
  BY DEF ChildrenOf, ChildrenIn, Emitted

LEMMA ChildrenGrow ==
  ASSUME NEW xs, NEW ys, OneMore(xs, ys), NEW y, NEW x, x = ys[Len(ys)]
  PROVE  /\ ~(x.lv = y.lv - 1 /\ bucketStart(x.start, y.lv) = y.start) =>
              ChildrenIn(ys, y) = ChildrenIn(xs, y)
         /\ (x.lv = y.lv - 1 /\ bucketStart(x.start, y.lv) = y.start) =>
              ChildrenIn(ys, y) = ChildrenIn(xs, y) \cup {Len(ys)}
<1>1. Len(xs) \in Nat /\ Len(ys) = Len(xs) + 1 /\ \A i \in 1..Len(xs) : ys[i] = xs[i]
  BY DEF OneMore, Pieced
<1>2. \A i : i \in 1..Len(ys) <=> (i \in 1..Len(xs) \/ i = Len(ys))
  BY <1>1
<1> DEFINE P(b) == b.lv = y.lv - 1 /\ bucketStart(b.start, y.lv) = y.start
<1>3. ChildrenIn(xs, y) = {i \in 1..Len(xs) : P(xs[i])} /\ ChildrenIn(ys, y) = {i \in 1..Len(ys) : P(ys[i])}
  BY DEF ChildrenIn
<1> HIDE DEF P
<1>4. \A i : i \in ChildrenIn(ys, y) <=> (i \in ChildrenIn(xs, y) \/ (i = Len(ys) /\ P(x)))
  BY <1>1, <1>2, <1>3
<1>5. ~P(x) => ChildrenIn(ys, y) = ChildrenIn(xs, y)
  BY <1>4
<1>6. P(x) => ChildrenIn(ys, y) = ChildrenIn(xs, y) \cup {Len(ys)}
  BY <1>4
<1> QED
  BY <1>5, <1>6 DEF P

LEMMA MadeInGrown ==
  ASSUME NEW xs, NEW ys, OneMore(xs, ys), NEW y, NEW x, x = ys[Len(ys)], MadeIn(xs, y),
         ~(x.lv = y.lv - 1 /\ bucketStart(x.start, y.lv) = y.start)
  PROVE  MadeIn(ys, y)
<1>1. ChildrenIn(ys, y) = ChildrenIn(xs, y)
  BY ChildrenGrow
<1> QED
  BY <1>1, MadeGrown DEF MadeIn

LEMMA OpenedIsMadeIn ==
  ASSUME NEW k \in 2..N, NEW xs, NEW ys, OneMore(xs, ys), NEW x, x = ys[Len(ys)], x.lv = k - 1,
         ChildrenIn(xs, Opened(k, x)) = {}
  PROVE  MadeIn(ys, Opened(k, x))
<1> DEFINE b == Opened(k, x)
<1>1. b.lv = k /\ b.start = bucketStart(x.start, k)
  BY DEF Opened
<1> HIDE DEF b
<1>2. ChildrenIn(ys, b) = ChildrenIn(xs, b) \cup {Len(ys)}
  BY <1>1, ChildrenGrow
<1>3. ChildrenIn(ys, b) = {Len(ys)}
  BY <1>2 DEF b
<1>4. k \in 1..N
  BY IntervalsArePositive
<1> QED
  BY <1>3, <1>4, OpenedIsMade DEF b, MadeIn

LEMMA MergedIsMadeIn ==
  ASSUME NEW b \in Bar, NEW xs, NEW ys, OneMore(xs, ys), NEW x, x = ys[Len(ys)], MadeIn(xs, b),
         x.lv = b.lv - 1, bucketStart(x.start, b.lv) = b.start
  PROVE  MadeIn(ys, Merged(b, x))
<1> DEFINE c == Merged(b, x)
<1>1. Piece(x)
  BY DEF OneMore, Pieced
<1>2. c.lv = b.lv /\ c.start = b.start
  BY <1>1, MergedBar
<1> HIDE DEF c
<1>3. ChildrenIn(ys, c) = ChildrenIn(ys, b)
  BY <1>2 DEF ChildrenIn
<1>4. ChildrenIn(ys, b) = ChildrenIn(xs, b) \cup {Len(ys)}
  BY ChildrenGrow
<1>5. Made(c, ys, ChildrenIn(xs, b) \cup {Len(ys)})
  BY MergedIsMade DEF MadeIn, c
<1> QED
  BY <1>3, <1>4, <1>5 DEF MadeIn, c

-----------------------------------------------------------------------------
(* The invariant of the rollups *)

\* Bar y fills a gap behind bar z.
Fills(y, z) ==
  /\ z.lv = y.lv /\ End(z) = y.start
  /\ y.o = z.c /\ y.h = z.c /\ y.l = z.c /\ y.c = z.c

Rolled(y) ==
  \/ MadeIn(sent, y)
  \/ /\ ChildrenIn(sent, y) = {} /\ y.lv \in FillGaps /\ y.v = 0 /\ y.n = 0
     /\ \E z \in Out : Fills(y, z)

\* What has been emitted of the finer interval is in a bar that leaves or in the one
\* being built.
Covered(x) ==
  LET k == x.lv + 1
  IN  \/ \E y \in Out : y.lv = k /\ y.start = bucketStart(x.start, k)
      \/ flushing <= k /\ cur[k] # NoBar /\ cur[k].start = bucketStart(x.start, k)

RollInv ==
  /\ \A y \in Out : y.lv # 1 => Rolled(y)
  /\ \A k \in 2..N : (flushing <= k /\ cur[k] # NoBar) => MadeIn(sent, cur[k])
  /\ \A i \in 1..Len(sent) : sent[i].lv # N => Covered(sent[i])

\* The bars that fill a gap are empty.
LEMMA GapValues ==
  ASSUME NEW b \in Bar, NEW n \in Nat \ {0}, NEW bs \in Int,
         bs = b.start + n * Intervals[b.lv], NEW j \in 1..Len(Gaps(b, bs))
  PROVE  /\ b.lv \in FillGaps /\ Gaps(b, bs)[j].v = 0 /\ Gaps(b, bs)[j].n = 0
         /\ Gaps(b, bs)[j].o = b.c /\ Gaps(b, bs)[j].h = b.c
         /\ Gaps(b, bs)[j].l = b.c /\ Gaps(b, bs)[j].c = b.c
<1> DEFINE d == (bs - b.start) \div Intervals[b.lv] - 1
           gap(i) == [b EXCEPT !.start = @ + i * Intervals[b.lv],
                               !.o = b.c, !.h = b.c, !.l = b.c, !.v = 0, !.n = 0]
<1>1. b.lv \in FillGaps
  BY GapBars
<1>2. Gaps(b, bs) = [i \in 1..d |-> gap(i)]
  BY <1>1 DEF Gaps
<1>3. j \in DOMAIN Gaps(b, bs)
  <2>1. Gaps(b, bs) \in Seq(Bar)
    BY GapBars
  <2> QED
    BY <2>1
<1> HIDE DEF d
<1>4. Gaps(b, bs)[j] = gap(j)
  BY <1>2, <1>3
<1> DEFINE s == b.start + j * Intervals[b.lv]
           g == [b EXCEPT !.start = s, !.o = b.c, !.h = b.c, !.l = b.c, !.v = 0, !.n = 0]
<1>5. gap(j) = g
  BY DEF Bar
<1> HIDE DEF s
<1>6. g.v = 0 /\ g.n = 0 /\ g.o = b.c /\ g.h = b.c /\ g.l = b.c /\ g.c = b.c
  BY DEF Bar
<1> QED
  BY <1>1, <1>4, <1>5, <1>6

\* Behind the bar that is closed, each bar that leaves fills a gap behind the one
\* in front of it.
LEMMA EmitsFill ==
  ASSUME NEW k \in 2..N, NEW b \in Bar, b.lv = k, Aligned(b.start, k), cur[k] = b,
         NEW x, Piece(x), bucketStart(x.start, k) > b.start,
         NEW i \in 1..(Len(OfferBar(k, x).emits) - 1)
  PROVE  LET e == OfferBar(k, x).emits
         IN  /\ k \in FillGaps /\ e[i + 1].v = 0 /\ e[i + 1].n = 0
             /\ Fills(e[i + 1], e[i])
<1> DEFINE bs == bucketStart(x.start, k)
           I == Intervals[k]
           e == <<b>> \o Gaps(b, bs)
           r == OfferBar(k, x)
<1>0. k \in 1..N /\ N \in Nat
  BY IntervalsArePositive
<1>1. b # NoBar
  BY ValuesAssumption
<1>2. r = [cur |-> Opened(k, x), emits |-> e]
  BY <1>1 DEF OfferBar
<1>3. bs \in Int /\ Aligned(bs, k)
  BY <1>0, BucketStart DEF Piece
<1>4. PICK n \in Nat \ {0} : bs = b.start + n * I
  BY <1>0, <1>3, BucketsApart
<1>5. Gaps(b, bs) \in Seq(Bar)
  BY <1>3, <1>4, GapBars
<1>6. ASSUME NEW j \in 1..Len(Gaps(b, bs))
      PROVE  /\ k \in FillGaps /\ Gaps(b, bs)[j].v = 0 /\ Gaps(b, bs)[j].n = 0
             /\ Gaps(b, bs)[j].o = b.c /\ Gaps(b, bs)[j].h = b.c
             /\ Gaps(b, bs)[j].l = b.c /\ Gaps(b, bs)[j].c = b.c
  <2> HIDE DEF bs
  <2> QED
    BY <1>3, <1>4, <1>6, GapValues
<1>7. /\ k \in FillGaps => \A j \in 1..(Len(r.emits) - 1) : r.emits[j + 1].start = End(r.emits[j])
      /\ \A j \in 1..Len(r.emits) : r.emits[j].lv = k
  BY OfferBarCloses
<1> DEFINE G == Gaps(b, bs)
<1> HIDE DEF G, bs, r
<1>8. Len(G) \in Nat /\ Len(e) = Len(G) + 1 /\ e[1] = b /\ \A j \in 1..Len(G) : e[j + 1] = G[j]
  <2>1. G \in Seq(Bar) /\ <<b>> \in Seq(Bar) /\ Len(<<b>>) = 1 /\ <<b>>[1] = b
    BY <1>5 DEF G
  <2>2. /\ Len(<<b>> \o G) = 1 + Len(G)
        /\ \A j \in 1..(1 + Len(G)) : (<<b>> \o G)[j] = IF j <= 1 THEN <<b>>[j] ELSE G[j - 1]
    BY <2>1, ConcatProperties
  <2>3. Len(G) \in Nat
    BY <2>1, LenProperties
  <2>4. ASSUME NEW j \in 1..Len(G) PROVE (<<b>> \o G)[j + 1] = G[j]
    <3>1. j + 1 \in 1..(1 + Len(G)) /\ ~(j + 1 <= 1) /\ j + 1 - 1 = j
      BY <2>3
    <3> QED
      BY <3>1, <2>2
  <2> QED
    BY <2>1, <2>2, <2>3, <2>4 DEF G
<1>9. r.emits = e
  BY <1>2
<1> HIDE DEF e
<1>10. i \in 1..Len(G) /\ i \in 1..Len(e) /\ i + 1 \in 1..Len(e) /\ i \in 1..(Len(e) - 1)
  BY <1>8, <1>9 DEF r
<1>11. /\ k \in FillGaps /\ e[i + 1].v = 0 /\ e[i + 1].n = 0
       /\ e[i + 1].o = b.c /\ e[i + 1].h = b.c /\ e[i + 1].l = b.c /\ e[i + 1].c = b.c
  BY <1>6, <1>8, <1>10 DEF G
<1>12. e[i].c = b.c
  <2>1. CASE i = 1
    BY <2>1, <1>8
  <2>2. CASE i # 1
    <3>1. i - 1 \in 1..Len(G) /\ i - 1 + 1 = i
      BY <2>2, <1>8, <1>10
    <3>2. e[i - 1 + 1] = G[i - 1] /\ G[i - 1].c = b.c
      BY <3>1, <1>6, <1>8 DEF G
    <3> QED
      BY <3>1, <3>2
  <2> QED
    BY <2>1, <2>2
<1>13. e[i + 1].lv = k /\ e[i].lv = k /\ e[i + 1].start = End(e[i])
  BY <1>7, <1>9, <1>10, <1>11
<1>14. Fills(e[i + 1], e[i])
  BY <1>11, <1>12, <1>13 DEF Fills
<1> QED
  BY <1>9, <1>11, <1>14 DEF r

-----------------------------------------------------------------------------
(* Every step keeps the invariant of the rollups *)

LEMMA RolledStays ==
  ASSUME NEW y, Rolled(y), Out \subseteq Out',
         ChildrenIn(sent', y) = ChildrenIn(sent, y),
         MadeIn(sent, y) => MadeIn(sent', y)
  PROVE  Rolled(y)'
  BY DEF Rolled, Fills, End

\* Nothing is sent, and only bars of the first interval are put on the stack.
LEMMA RollQuiet ==
  ASSUME TypeOK, RollInv, sent' = sent, cur' = cur, Out \subseteq Out',
         \A y \in Out' : y \in Out \/ y.lv = 1,
         flushing' = flushing \/ (flushing = 0 /\ flushing' = 2)
  PROVE  RollInv'
<1>1. ASSUME NEW y \in Out', y.lv # 1 PROVE Rolled(y)'
  <2>1. Rolled(y)
    BY <1>1 DEF RollInv
  <2> QED
    BY <2>1, RolledStays
<1>2. flushing \in Int /\ N \in Nat
  BY IntervalsArePositive DEF TypeOK
<1>3. \A k \in 2..N : flushing' <= k => flushing <= k
  BY <1>2
<1>4. \A k \in 2..N : flushing <= k => flushing' <= k
  BY <1>2
<1>5. ASSUME NEW i \in 1..Len(sent), sent[i].lv # N PROVE Covered(sent[i])'
  <2>1. Covered(sent[i])
    BY <1>5 DEF RollInv
  <2>2. sent[i] \in Bar /\ sent[i].lv \in 1..N
    BY OutBars, Pieces
  <2>3. sent[i].lv + 1 \in 2..N
    BY <2>2, <1>2, <1>5
  <2> QED
    BY <2>1, <2>3, <1>4 DEF Covered
<1> QED
  BY <1>1, <1>3, <1>5 DEF RollInv

LEMMA RollFlush ==
  ASSUME IInv, RollInv, FlushRollup
  PROVE  RollInv'
<1> DEFINE k == flushing
<1>1. TypeOK /\ Building
  BY DEF IInv
<1>2. /\ k \in 2..N /\ todo = <<>> /\ flushing' = k + 1 /\ sent' = sent /\ cur' = cur
      /\ todo' = IF cur[k] = NoBar THEN <<>> ELSE <<cur[k]>>
  BY DEF FlushRollup
<1>3. N \in Nat /\ k \in Int
  BY <1>2, IntervalsArePositive
<1>4. cur[k] # NoBar => cur[k].lv = k
  BY <1>1, <1>2 DEF Building
<1> HIDE DEF k
<1>5. /\ \A x \in Out' : x \in Out \/ (cur[k] # NoBar /\ x = cur[k])
      /\ Out \subseteq Out'
      /\ cur[k] # NoBar => cur[k] \in Out'
  <2>1. Out = {sent[i] : i \in 1..Len(sent)}
    BY <1>2 DEF Out
  <2>2. Out' = {sent[i] : i \in 1..Len(sent)} \cup {todo'[i] : i \in 1..Len(todo')}
    BY <1>2 DEF Out
  <2>3. cur[k] # NoBar => Len(todo') = 1 /\ todo'[1] = cur[k]
    BY <1>2
  <2>4. cur[k] = NoBar => Len(todo') = 0
    BY <1>2
  <2> QED
    BY <2>1, <2>2, <2>3, <2>4
<1>6. ASSUME NEW y \in Out', y.lv # 1 PROVE Rolled(y)'
  <2>1. CASE y \in Out
    <3>1. Rolled(y)
      BY <2>1, <1>6 DEF RollInv
    <3> QED
      BY <3>1, <1>2, <1>5, RolledStays
  <2>2. CASE cur[k] # NoBar /\ y = cur[k]
    <3>1. k <= k
      BY <1>3
    <3>2. MadeIn(sent, cur[k])
      BY <2>2, <3>1, <1>2 DEF RollInv, k
    <3>3. MadeIn(sent', y)
      BY <3>2, <2>2, <1>2
    <3> QED
      BY <3>3 DEF Rolled
  <2> QED
    BY <2>1, <2>2, <1>5
<1>7. ASSUME NEW m \in 2..N, flushing' <= m, cur[m] # NoBar PROVE MadeIn(sent, cur[m])
  <2>1. flushing <= m
    BY <1>2, <1>3, <1>7 DEF k
  <2> QED
    BY <2>1, <1>7 DEF RollInv
<1>8. ASSUME NEW i \in 1..Len(sent), sent[i].lv # N PROVE Covered(sent[i])'
  <2> DEFINE x == sent[i]
             m == x.lv + 1
  <2>1. Covered(x)
    BY <1>8 DEF RollInv
  <2>2. x \in Bar /\ x.lv \in 1..N /\ m \in 2..N
    BY <1>1, <1>3, <1>8, OutBars, Pieces
  <2>3. CASE \E y \in Out : y.lv = m /\ y.start = bucketStart(x.start, m)
    BY <2>3, <1>2, <1>5 DEF Covered
  <2>4. CASE flushing <= m /\ cur[m] # NoBar /\ cur[m].start = bucketStart(x.start, m)
    <3>1. CASE m = k
      <4>1. cur[k] \in Out' /\ cur[k].lv = m /\ cur[k].start = bucketStart(x.start, m)
        BY <3>1, <2>4, <1>4, <1>5
      <4> QED
        BY <4>1, <1>2 DEF Covered
    <3>2. CASE m # k
      <4>1. flushing' <= m
        BY <3>2, <2>2, <2>4, <1>2, <1>3 DEF k
      <4> QED
        BY <4>1, <2>4, <1>2 DEF Covered
    <3> QED
      BY <3>1, <3>2
  <2> QED
    BY <2>1, <2>3, <2>4 DEF Covered
<1> QED
  BY <1>2, <1>6, <1>7, <1>8 DEF RollInv

LEMMA RollEmit ==
  ASSUME IInv, RollInv, Emit
  PROVE  RollInv'
<1> DEFINE b == Head(todo)
<1>1. TypeOK /\ Building /\ Stack /\ Order
  BY DEF IInv
<1>2. todo # <<>> /\ sent' = Append(sent, b) /\ flushing' = flushing
  BY DEF Emit
<1>3. N \in Nat \ {0} /\ FillGaps \subseteq 2..N
  BY IntervalsArePositive, ConfigAssumption
<1>4. todo \in Seq(Bar) /\ sent \in Seq(Bar) /\ flushing \in 0..(N + 1)
  BY <1>1 DEF TypeOK
<1>5. b \in Bar /\ b.lv \in 1..N /\ b = todo[1] /\ 1 \in 1..Len(todo) /\ Piece(b) /\ b.start \in Int
  <2>1. b = todo[1]
    OBVIOUS
  <2>2. 1 \in 1..Len(todo)
    BY <1>2, <1>4, EmptySeq, LenProperties
  <2> QED
    BY <2>1, <2>2, <1>4, ElementOfSeq, Pieces DEF Piece
<1>6. flushing <= b.lv + 1
  BY <1>1, <1>3, <1>4, <1>5 DEF Stack
<1>7. \A x \in Out : x \in Bar /\ x.lv \in 1..N /\ x.start \in Int /\ End(x) \in Int /\ End(x) > x.start
  BY <1>1, OutBars, Pieces, EndOfBar DEF Piece
<1>8. OneMore(sent, sent') /\ sent'[Len(sent')] = b /\ Len(sent') = Len(sent) + 1 /\ Len(sent) \in Nat
  <2>1. /\ sent' \in Seq(Bar) /\ Len(sent') = Len(sent) + 1 /\ Len(sent) \in Nat
        /\ \A i \in 1..Len(sent) : sent'[i] = sent[i]
        /\ sent'[Len(sent) + 1] = b
    BY <1>2, <1>4, <1>5, AppendProperties, LenProperties
  <2>2. /\ \A i \in 1..Len(sent) : sent[i] \in Bar
        /\ \A i \in 1..Len(sent') : sent'[i] \in Bar
    BY <2>1, <1>4, ElementOfSeq
  <2>3. Pieced(sent) /\ Pieced(sent')
    BY <2>1, <2>2, Pieces DEF Pieced
  <2> QED
    BY <2>1, <2>3 DEF OneMore
<1>9. \A i \in 1..Len(sent) : sent[i] \in Out
  BY <1>1, OutBars
<1>10. Tail(todo) \in Seq(Bar) /\ <<>> \o Tail(todo) = Tail(todo)
  BY <1>2, <1>4, HeadTailProperties, ConcatEmptySeq
<1> HIDE DEF b
\* A bar or a current bar that b is not a child of stays what it is.
<1>11. ASSUME NEW y, MadeIn(sent, y), ~(b.lv = y.lv - 1 /\ bucketStart(b.start, y.lv) = y.start)
       PROVE  MadeIn(sent', y)
  BY <1>8, <1>11, MadeInGrown
<1>12. ASSUME NEW y, Rolled(y), Out \subseteq Out',
              ~(b.lv = y.lv - 1 /\ bucketStart(b.start, y.lv) = y.start)
       PROVE  Rolled(y)'
  <2>1. ChildrenIn(sent', y) = ChildrenIn(sent, y)
    BY <1>8, <1>12, ChildrenGrow
  <2> QED
    BY <2>1, <1>11, <1>12, RolledStays
<1>13. ASSUME NEW e \in Seq(Bar), todo' = e \o Tail(todo),
              \A i \in 1..Len(e) : e[i].lv = b.lv + 1,
              \A i, j \in 1..Len(e) : i < j => Before(e[i], e[j]),
              \A x \in Out, i \in 1..Len(e) : x.lv = e[i].lv => Before(x, e[i])
       PROVE  Out' = Out \cup {e[i] : i \in 1..Len(e)}
  BY <1>2, <1>13, BarMoves DEF b
<1>14. (todo' = <<>> \o Tail(todo)) => Out' = Out
  <2> SUFFICES ASSUME todo' = <<>> \o Tail(todo) PROVE Out' = Out
    OBVIOUS
  <2>1. <<>> \in Seq(Bar) /\ \A i \in 1..Len(<<>>) : FALSE
    OBVIOUS
  <2>2. Out' = Out \cup {<<>>[i] : i \in 1..Len(<<>>)}
    BY <2>1, <1>13
  <2> QED
    BY <2>1, <2>2
\* What is known of the places of sent'.
<1>15. \A i \in 1..Len(sent') : (i \in 1..Len(sent) /\ sent'[i] = sent[i]) \/ sent'[i] = b
  <2>1. \A i \in 1..Len(sent') : i \in 1..Len(sent) \/ i = Len(sent')
    BY <1>8
  <2> QED
    BY <2>1, <1>8 DEF OneMore
<1>16. CASE b.lv = N
  <2>1. todo' = Tail(todo) /\ cur' = cur
    BY <1>16 DEF Emit, b
  <2>2. Out' = Out
    BY <2>1, <1>10, <1>14
  <2>3. ASSUME NEW y \in Out', y.lv # 1 PROVE Rolled(y)'
    <3>1. Rolled(y) /\ b.lv # y.lv - 1
      BY <2>2, <2>3, <1>3, <1>7, <1>16 DEF RollInv
    <3> QED
      BY <3>1, <2>2, <1>12
  <2>4. ASSUME NEW m \in 2..N, flushing' <= m, cur'[m] # NoBar PROVE MadeIn(sent', cur'[m])
    <3>1. MadeIn(sent, cur[m]) /\ cur[m].lv = m
      BY <2>1, <2>4, <1>1, <1>2 DEF RollInv, Building
    <3>2. b.lv # cur[m].lv - 1
      BY <3>1, <1>3, <1>16
    <3> QED
      BY <3>1, <3>2, <2>1, <1>11
  <2>5. ASSUME NEW i \in 1..Len(sent'), sent'[i].lv # N PROVE Covered(sent[i])'
    <3>1. i \in 1..Len(sent) /\ sent'[i] = sent[i]
      BY <2>5, <1>15, <1>16
    <3>2. Covered(sent[i])
      BY <3>1, <2>5 DEF RollInv
    <3> QED
      BY <3>1, <3>2, <2>1, <2>2, <1>2 DEF Covered
  <2> QED
    BY <2>3, <2>4, <2>5 DEF RollInv
<1>17. CASE b.lv # N
  <2> DEFINE k == b.lv + 1
             bs == bucketStart(b.start, k)
             r == OfferBar(k, b)
  <2>1. k \in 2..N /\ flushing <= k /\ k # 1 /\ k \in 1..N /\ b.lv = k - 1
    BY <1>3, <1>4, <1>5, <1>6, <1>17
  <2>2. cur' = [cur EXCEPT ![k] = r.cur] /\ todo' = r.emits \o Tail(todo)
    BY <1>17 DEF Emit, b
  <2>3. cur \in [2..N -> Bar \cup {NoBar}] /\ cur[k] \in Bar \cup {NoBar}
    BY <1>1, <2>1 DEF TypeOK
  <2>4. \A m \in 2..N : cur[m] # NoBar => cur[m].lv = m /\ Aligned(cur[m].start, m)
    BY <1>1 DEF Building
  <2>5. bs \in Int
    BY <2>1, <1>5, BucketStart
  <2>6. cur[k] # NoBar => cur[k] \in Bar /\ cur[k].lv = k /\ cur[k].start \in Int
    BY <2>1, <2>3, <2>4, Pieces DEF Piece
  <2>7. cur'[k] = r.cur /\ \A m \in 2..N : m # k => cur'[m] = cur[m]
    BY <2>1, <2>2, <2>3
  <2> HIDE DEF k, bs, r
  \* The bars that left are of earlier buckets than the current bar.
  <2>8. \A y \in Out : y.lv = k => cur[k] # NoBar /\ y.start < cur[k].start
    <3> SUFFICES ASSUME NEW y \in Out, y.lv = k PROVE cur[k] # NoBar /\ y.start < cur[k].start
      OBVIOUS
    <3>1. cur[y.lv] # NoBar /\ Before(y, cur[y.lv])
      BY <2>1, <1>1 DEF Order
    <3> QED
      BY <3>1, <2>6, <1>7 DEF Before
  \* The finer bars that were sent are of the current bucket or earlier ones.
  <2>9. \A j \in 1..Len(sent) : sent[j].lv = k - 1 =>
          cur[k] # NoBar /\ bucketStart(sent[j].start, k) <= cur[k].start
    <3> SUFFICES ASSUME NEW j \in 1..Len(sent), sent[j].lv = k - 1
                 PROVE  cur[k] # NoBar /\ bucketStart(sent[j].start, k) <= cur[k].start
      OBVIOUS
    <3>1. Covered(sent[j]) /\ sent[j].lv + 1 = k
      BY <2>1, <1>5, <1>17 DEF RollInv, k
    <3>2. CASE \E y \in Out : y.lv = k /\ y.start = bucketStart(sent[j].start, k)
      BY <3>2, <2>6, <2>8, <1>7
    <3>3. CASE cur[k] # NoBar /\ cur[k].start = bucketStart(sent[j].start, k)
      BY <3>3, <2>6
    <3> QED
      BY <3>1, <3>2, <3>3 DEF Covered
  \* So is b of the current bucket or a later one.
  <2>10. cur[k] # NoBar => MadeIn(sent, cur[k]) /\ bs >= cur[k].start
    <3> SUFFICES ASSUME cur[k] # NoBar PROVE MadeIn(sent, cur[k]) /\ bs >= cur[k].start
      OBVIOUS
    <3>1. MadeIn(sent, cur[k])
      BY <2>1 DEF RollInv
    <3>2. PICK j \in ChildrenIn(sent, cur[k]) : TRUE
      BY <3>1 DEF MadeIn, Made
    <3>3. j \in 1..Len(sent) /\ sent[j].lv = k - 1 /\ bucketStart(sent[j].start, k) = cur[k].start
      BY <2>6 DEF ChildrenIn
    <3>4. Before(sent[j], b)
      BY <3>3, <2>1, <1>1, <1>5 DEF Order
    <3>5. sent[j].start \in Int /\ sent[j].start <= b.start
      BY <3>3, <3>4, <1>5, <1>7, <1>9 DEF Before
    <3> QED
      BY <3>1, <3>3, <3>5, <2>1, <1>5, BucketsMonotonic DEF bs
  <2>11. ASSUME Out \subseteq Out', NEW y \in Out, y.lv # 1 PROVE Rolled(y)'
    <3>1. Rolled(y)
      BY <2>11 DEF RollInv
    <3>2. ~(b.lv = y.lv - 1 /\ bucketStart(b.start, y.lv) = y.start)
      <4>1. CASE y.lv = k
        <5>1. cur[k] # NoBar /\ y.start < cur[k].start
          BY <4>1, <2>8
        <5> QED
          BY <5>1, <4>1, <2>5, <2>6, <2>10, <1>7 DEF bs
      <4>2. CASE y.lv # k
        BY <4>2, <2>1, <1>5, <1>7 DEF k
      <4> QED
        BY <4>1, <4>2
    <3> QED
      BY <3>1, <3>2, <2>11, <1>12
  \* What each case has to show.
  <2>12. ASSUME Out \subseteq Out', \A y \in Out' : y \in Out \/ Rolled(y)',
                MadeIn(sent', r.cur), r.cur \in Bar, r.cur.start = bs,
                cur[k] # NoBar => r.cur.start = cur[k].start \/ cur[k] \in Out'
         PROVE  RollInv'
    <3>1. ASSUME NEW y \in Out', y.lv # 1 PROVE Rolled(y)'
      BY <3>1, <2>11, <2>12
    <3>2. r.cur # NoBar
      BY <2>12, ValuesAssumption
    <3>3. ASSUME NEW m \in 2..N, flushing' <= m, cur'[m] # NoBar PROVE MadeIn(sent', cur'[m])
      <4>1. CASE m = k
        BY <4>1, <2>7, <2>12
      <4>2. CASE m # k
        <5>1. cur'[m] = cur[m] /\ MadeIn(sent, cur[m]) /\ cur[m].lv = m
          BY <4>2, <3>3, <2>4, <2>7, <1>2 DEF RollInv
        <5>2. b.lv # cur[m].lv - 1
          BY <5>1, <4>2, <2>1
        <5> QED
          BY <5>1, <5>2, <1>11
      <4> QED
        BY <4>1, <4>2
    <3>4. ASSUME NEW i \in 1..Len(sent'), sent'[i].lv # N PROVE Covered(sent[i])'
      <4>1. CASE sent'[i] = b
        <5>1. cur'[k] # NoBar /\ cur'[k].start = bucketStart(b.start, k) /\ flushing' <= k
          BY <3>2, <2>1, <2>7, <2>12, <1>2 DEF bs
        <5> QED
          BY <5>1, <4>1 DEF Covered, k
      <4>2. CASE i \in 1..Len(sent) /\ sent'[i] = sent[i]
        <5> DEFINE x == sent[i]
                   m == x.lv + 1
        <5>1. Covered(x)
          BY <4>2, <3>4 DEF RollInv
        <5>2. m \in 2..N
          BY <4>2, <3>4, <1>3, <1>7, <1>9
        <5>3. CASE \E y \in Out : y.lv = m /\ y.start = bucketStart(x.start, m)
          BY <5>3, <4>2, <2>12 DEF Covered
        <5>4. CASE flushing <= m /\ cur[m] # NoBar /\ cur[m].start = bucketStart(x.start, m)
          <6>1. CASE m # k
            <7>1. cur'[m] = cur[m] /\ flushing' <= m
              BY <6>1, <5>2, <5>4, <2>7, <1>2
            <7> QED
              BY <7>1, <5>4, <4>2 DEF Covered
          <6>2. CASE m = k /\ r.cur.start = cur[k].start
            <7>1. cur'[m] # NoBar /\ cur'[m].start = bucketStart(x.start, m) /\ flushing' <= m
              BY <6>2, <5>4, <3>2, <2>7, <1>2
            <7> QED
              BY <7>1, <4>2 DEF Covered
          <6>3. CASE m = k /\ cur[k] \in Out'
            <7>1. cur[k] \in Out' /\ cur[k].lv = m /\ cur[k].start = bucketStart(x.start, m)
              BY <6>3, <5>4, <2>6
            <7> QED
              BY <7>1, <4>2 DEF Covered
          <6> QED
            BY <6>1, <6>2, <6>3, <5>4, <2>12
        <5> QED
          BY <5>1, <5>3, <5>4 DEF Covered
      <4> QED
        BY <4>1, <4>2, <1>15
    <3> QED
      BY <3>1, <3>3, <3>4 DEF RollInv
  \* A first child.
  <2>13. ASSUME r.cur = Opened(k, b), cur[k] = NoBar \/ bs > cur[k].start
         PROVE  MadeIn(sent', r.cur) /\ r.cur \in Bar /\ r.cur.start = bs
    <3> DEFINE o == Opened(k, b)
    <3>1. o \in Bar /\ o.lv = k /\ o.start = bs
      BY <2>1, <1>5, OpenedBar DEF bs
    <3> HIDE DEF o
    <3>2. ChildrenIn(sent, o) = {}
      <4> SUFFICES ASSUME NEW j \in ChildrenIn(sent, o) PROVE FALSE
        OBVIOUS
      <4>1. j \in 1..Len(sent) /\ sent[j].lv = k - 1 /\ bucketStart(sent[j].start, k) = bs
        BY <3>1 DEF ChildrenIn
      <4>2. cur[k] # NoBar /\ bs <= cur[k].start
        BY <4>1, <2>9
      <4> QED
        BY <4>2, <2>5, <2>6, <2>13
    <3>3. MadeIn(sent', o)
      BY <3>2, <2>1, <1>8, OpenedIsMadeIn DEF o
    <3> QED
      BY <3>1, <3>3, <2>13 DEF o
  <2>14. CASE cur[k] = NoBar
    <3>1. r = [cur |-> Opened(k, b), emits |-> <<>>]
      BY <2>14 DEF OfferBar, r
    <3>2. r.cur = Opened(k, b) /\ r.emits = <<>>
      BY <3>1
    <3>3. Out' = Out
      BY <3>2, <2>2, <1>14
    <3> QED
      BY <3>2, <3>3, <2>12, <2>13, <2>14
  <2>15. CASE cur[k] # NoBar /\ bs = cur[k].start
    <3> DEFINE c == cur[k]
    <3>1. r = [cur |-> Merged(c, b), emits |-> <<>>]
      BY <2>5, <2>15 DEF OfferBar, r, bs
    <3>2. r.cur = Merged(c, b) /\ r.emits = <<>>
      BY <3>1
    <3>3. Out' = Out
      BY <3>2, <2>2, <1>14
    <3>4. c \in Bar /\ c.lv = k /\ c.start = bs /\ MadeIn(sent, c)
      BY <2>6, <2>10, <2>15
    <3> HIDE DEF c
    <3>5. MadeIn(sent', Merged(c, b))
      BY <3>4, <2>1, <1>8, MergedIsMadeIn DEF bs
    <3>6. Merged(c, b) \in Bar /\ Merged(c, b).start = bs
      BY <3>4, <1>5, MergedBar
    <3> QED
      BY <3>2, <3>3, <3>5, <3>6, <2>12, <2>15
  <2>16. CASE cur[k] # NoBar /\ bs > cur[k].start
    <3> DEFINE c == cur[k]
    <3>0. PICK e : e = r.emits
      OBVIOUS
    <3>1. c \in Bar /\ c.lv = k /\ Aligned(c.start, k) /\ c.start \in Int /\ MadeIn(sent, c)
      BY <2>1, <2>4, <2>6, <2>10, <2>16
    <3>2. cur[k] = c /\ bucketStart(b.start, k) > c.start
      BY <2>16 DEF bs
    <3>3. r.cur = Opened(k, b)
      BY <3>2, <2>16 DEF OfferBar, r
    <3> HIDE DEF c
    <3>4. /\ e \in Seq(Bar) /\ Len(e) >= 1 /\ e[1] = c
          /\ \A i \in 1..Len(e) : e[i].lv = k /\ e[i].start >= c.start /\ Before(e[i], r.cur)
          /\ \A i, j \in 1..Len(e) : i < j => Before(e[i], e[j])
      BY <3>0, <3>1, <3>2, <2>1, <1>5, OfferBarCloses, SMTT(30) DEF r
    <3>5. \A i \in 1..(Len(e) - 1) :
            k \in FillGaps /\ e[i + 1].v = 0 /\ e[i + 1].n = 0 /\ Fills(e[i + 1], e[i])
      BY <3>0, <3>1, <3>2, <2>1, <1>5, EmitsFill DEF r
    <3>6. MadeIn(sent', r.cur) /\ r.cur \in Bar /\ r.cur.start = bs
      BY <3>3, <2>13, <2>16
    <3>7. Len(e) \in Nat /\ 1 \in 1..Len(e) /\ \A i \in 1..Len(e) : e[i] \in Bar /\ e[i].start \in Int
                /\ End(e[i]) \in Int /\ End(e[i]) > e[i].start
      BY <3>4, ElementOfSeq, LenProperties, Pieces, EndOfBar DEF Piece
    <3>8. \A x \in Out, i \in 1..Len(e) : x.lv = e[i].lv => Before(x, e[i])
      <4> SUFFICES ASSUME NEW x \in Out, NEW i \in 1..Len(e), x.lv = e[i].lv PROVE Before(x, e[i])
        OBVIOUS
      <4>1. x.lv = k /\ e[i].start >= c.start
        BY <3>4
      <4>2. Before(x, cur[x.lv])
        BY <4>1, <2>1, <1>1 DEF Order
      <4> QED
        BY <4>1, <4>2, <3>1, <3>7, <1>7 DEF Before, c
    <3>9. Out' = Out \cup {e[i] : i \in 1..Len(e)}
      <4>1. todo' = e \o Tail(todo)
        BY <3>0, <2>2
      <4> QED
        BY <4>1, <3>4, <3>8, <1>13 DEF k
    <3>10. ASSUME NEW i \in 1..Len(e) PROVE Rolled(e[i])'
      <4> DEFINE y == e[i]
      <4>1. y.lv = k /\ y.start \in Int /\ bs >= End(y) /\ End(y) > y.start /\ End(y) \in Int
        BY <3>4, <3>6, <3>7 DEF Before
      <4>2. ~(b.lv = y.lv - 1 /\ bucketStart(b.start, y.lv) = y.start)
        BY <4>1, <2>5 DEF bs
      <4>3. CASE i = 1
        <5>1. MadeIn(sent', c)
          BY <4>2, <4>3, <3>1, <3>4, <1>11
        <5>2. MadeIn(sent', e[i])
          BY <5>1, <4>3, <3>4
        <5> QED
          BY <5>2 DEF Rolled
      <4>4. CASE i # 1
        <5>1. i - 1 \in 1..(Len(e) - 1) /\ i - 1 \in 1..Len(e) /\ i - 1 + 1 = i /\ 1 < i
          BY <4>4, <3>7
        <5>2. k \in FillGaps /\ y.v = 0 /\ y.n = 0 /\ Fills(y, e[i - 1])
          BY <5>1, <3>5
        <5>3. e[i - 1] \in Out'
          BY <5>1, <3>9
        <5>4. y.start > c.start
          <6>1. Before(e[1], e[i])
            BY <5>1, <3>4, <3>7
          <6> QED
            BY <6>1, <3>4, <3>7 DEF Before
        <5> HIDE DEF y
        <5>5. ChildrenIn(sent, y) = {}
          <6> SUFFICES ASSUME NEW j \in ChildrenIn(sent, y) PROVE FALSE
            OBVIOUS
          <6>1. j \in 1..Len(sent) /\ sent[j].lv = k - 1 /\ bucketStart(sent[j].start, k) = y.start
            BY <4>1 DEF ChildrenIn
          <6>2. y.start <= c.start
            BY <6>1, <2>9 DEF c
          <6> QED
            BY <6>2, <5>4, <4>1, <3>1
        <5>6. ChildrenIn(sent', y) = {}
          BY <5>5, <4>2, <1>8, ChildrenGrow
        <5>7. Fills(y, e[i - 1])'
          BY <5>2 DEF Fills, End
        <5> QED
          BY <5>2, <5>3, <5>6, <4>1 DEF Rolled, y
      <4> QED
        BY <4>3, <4>4
    <3>11. cur[k] \in Out'
      BY <3>4, <3>7, <3>9 DEF c
    <3>12. Out \subseteq Out' /\ \A y \in Out' : y \in Out \/ Rolled(y)'
      BY <3>9, <3>10
    <3> QED
      BY <3>6, <3>11, <3>12, <2>12
  <2> QED
    BY <2>5, <2>6, <2>10, <2>14, <2>15, <2>16
<1> QED
  BY <1>16, <1>17

-----------------------------------------------------------------------------
(* What reaches the first interval *)

\* A bar that is put on the stack by an emit callback is of a coarser interval.
LEMMA EmitOut ==
  ASSUME IInv, Emit
  PROVE  Out \subseteq Out' /\ \A y \in Out' : y \in Out \/ y.lv # 1
<1> DEFINE b == Head(todo)
           k == b.lv + 1
           r == OfferBar(k, b)
<1>1. TypeOK /\ Building
  BY DEF IInv
<1>2. todo # <<>> /\ sent' = Append(sent, b)
  BY DEF Emit
<1>3. todo \in Seq(Bar) /\ cur \in [2..N -> Bar \cup {NoBar}] /\ N \in Nat \ {0}
  BY <1>1, IntervalsArePositive DEF TypeOK
<1>4. b \in Bar /\ b.lv \in 1..N /\ Piece(b)
  BY <1>2, <1>3, HeadTailProperties, Pieces
<1>5. Tail(todo) \in Seq(Bar) /\ <<>> \o Tail(todo) = Tail(todo)
  BY <1>2, <1>3, HeadTailProperties, ConcatEmptySeq
<1>6. ASSUME NEW e \in Seq(Bar), todo' = e \o Tail(todo), \A i \in 1..Len(e) : e[i].lv # 1
      PROVE  Out \subseteq Out' /\ \A y \in Out' : y \in Out \/ y.lv # 1
  <2>1. Out' = Out \cup {e[i] : i \in 1..Len(e)}
    BY <1>1, <1>2, <1>6, OutMoves
  <2> QED
    BY <2>1, <1>6
<1>7. <<>> \in Seq(Bar) /\ \A i \in 1..Len(<<>>) : FALSE
  OBVIOUS
<1>8. CASE b.lv = N
  <2>1. todo' = Tail(todo)
    BY <1>8 DEF Emit
  <2>2. todo' = <<>> \o Tail(todo)
    BY <2>1, <1>5
  <2> HIDE DEF b, k, r
  <2> QED
    BY <2>2, <1>6, <1>7
<1>9. CASE b.lv # N
  <2>1. k \in 2..N /\ k # 1
    BY <1>3, <1>4, <1>9
  <2>2. todo' = r.emits \o Tail(todo)
    BY <1>9 DEF Emit
  <2>3. cur[k] \in Bar \cup {NoBar} /\ (cur[k] # NoBar => cur[k].lv = k /\ Aligned(cur[k].start, k))
    BY <2>1, <1>1, <1>3 DEF Building
  <2> HIDE DEF b, k, r
  <2>4. CASE cur[k] = NoBar \/ ~(bucketStart(b.start, k) > cur[k].start)
    <3>1. r.emits = <<>>
      BY <2>1, <2>3, <2>4, <1>4, OfferBarKeeps, ValuesAssumption DEF r
    <3> QED
      BY <3>1, <2>2, <1>6, <1>7
  <2>5. CASE cur[k] # NoBar /\ bucketStart(b.start, k) > cur[k].start
    <3> DEFINE c == cur[k]
    <3>1. c \in Bar /\ c.lv = k /\ Aligned(c.start, k) /\ cur[k] = c /\ bucketStart(b.start, k) > c.start
      BY <2>3, <2>5
    <3> HIDE DEF c
    <3>2. r.emits \in Seq(Bar) /\ \A i \in 1..Len(r.emits) : r.emits[i].lv = k
      BY <3>1, <2>1, <1>4, OfferBarCloses, SMTT(30) DEF r
    <3>3. PICK e : e = r.emits
      OBVIOUS
    <3>4. e \in Seq(Bar) /\ todo' = e \o Tail(todo) /\ \A i \in 1..Len(e) : e[i].lv # 1
      BY <3>2, <3>3, <2>1, <2>2
    <3> QED
      BY <3>4, <1>6
  <2> QED
    BY <2>4, <2>5
<1> QED
  BY <1>8, <1>9

\* The bars R of the first interval leave.
LEMMA FirstOut ==
  ASSUME TypeOK, todo = <<>>, sent' = sent, NEW R, R \subseteq Bar, IsFiniteSet(R),
         NEW s \in Sorted(R), todo' = s,
         last' = IF s = <<>> THEN last ELSE Last(s).start,
         has' = (has \/ s # <<>>)
  PROVE  /\ Out' = Out \cup R
         /\ R = {} => last' = last /\ has' = has
         /\ R # {} => has' = TRUE /\ \E b \in R : last' = b.start /\ \A c \in R : c.start <= b.start
<1>1. /\ s \in Seq(Bar)
      /\ \A i \in 1..Len(s) : s[i] \in R
      /\ s # <<>> => /\ Len(s) \in 1..Len(s) /\ Last(s) = s[Len(s)]
                     /\ \A i \in 1..Len(s) : s[i].start <= Last(s).start
      /\ ToSet(s) = R
  BY SortedList
<1>2. {s[i] : i \in 1..Len(s)} = R
  BY <1>1 DEF ToSet
<1>3. Out = {sent[i] : i \in 1..Len(sent)} /\ Out' = {sent[i] : i \in 1..Len(sent)} \cup R
  BY <1>2 DEF Out
<1>4. s = <<>> <=> R = {}
  <2>1. s = <<>> => R = {}
    BY <1>2
  <2>2. s # <<>> => R # {}
    BY <1>1
  <2> QED
    BY <2>1, <2>2
<1>5. ASSUME R = {} PROVE last' = last /\ has' = has
  BY <1>4, <1>5 DEF TypeOK
<1>6. ASSUME R # {} PROVE has' = TRUE /\ \E b \in R : last' = b.start /\ \A c \in R : c.start <= b.start
  <2>1. s # <<>> /\ has'
    BY <1>4, <1>6
  <2>2. last' = s[Len(s)].start /\ s[Len(s)] \in R /\ \A i \in 1..Len(s) : s[i].start <= s[Len(s)].start
    BY <2>1, <1>1
  <2>3. \A c \in R : c.start <= s[Len(s)].start
    BY <2>2, <1>2
  <2> QED
    BY <2>1, <2>2, <2>3
<1> QED
  BY <1>3, <1>5, <1>6

LEMMA ReadyBars ==
  ASSUME TypeOK, todo = <<>>, sent' = sent, NEW bs, NEW w, EmitReady(bs, w),
         bs \subseteq Bar, IsFiniteSet(bs)
  PROVE  LET R == {b \in NotEmitted(bs) : End(b) <= w}
         IN  /\ bars' = bs \ R /\ Out' = Out \cup R
             /\ R = {} => last' = last /\ has' = has
             /\ R # {} => /\ has' = TRUE
                          /\ \E b \in R : last' = b.start /\ \A c \in R : c.start <= b.start
<1> DEFINE R == {b \in NotEmitted(bs) : End(b) <= w}
<1>1. PICK s \in Sorted(R) :
         /\ bars' = bs \ ToSet(s)
         /\ todo' = s
         /\ last' = IF s = <<>> THEN last ELSE Last(s).start
         /\ has' = (has \/ s # <<>>)
  BY DEF EmitReady
<1>2. R \subseteq bs
  BY DEF NotEmitted
<1>3. R \subseteq Bar /\ IsFiniteSet(R)
  BY <1>2, FS_Subset
<1> HIDE DEF R
<1>4. ToSet(s) = R
  BY <1>3, SortedList
<1>5. /\ Out' = Out \cup R
      /\ R = {} => last' = last /\ has' = has
      /\ R # {} => has' = TRUE /\ \E b \in R : last' = b.start /\ \A c \in R : c.start <= b.start
  BY <1>1, <1>3, FirstOut
<1> QED
  BY <1>1, <1>4, <1>5 DEF R

\* TakeTrade: the bars once the trade is in.
LEMMA TakenBars ==
  ASSUME IInv, TakeTrade
  PROVE  LET t    == Head(inbox)
             x    == AsBar(t)
             same == {b \in bars : b.start = bucketStart(x.start, 1)}
             new  == IF same = {} THEN Opened(1, x) ELSE Merged(CHOOSE b \in same : TRUE, x)
             bs   == (bars \ same) \cup {new}
         IN  /\ t \in Trade /\ Piece(x) /\ x.start = t.ts /\ t.ts \in Nat
             /\ ~IsLate(t) /\ latest' = Latest(t) /\ latest' \in Nat
             /\ EmitReady(bs, latest' - Window) /\ taken' = Append(taken, t)
             /\ bs \subseteq Bar /\ IsFiniteSet(bs) /\ \A b \in bs : b.lv = 1
             /\ new \in Bar /\ new.lv = 1 /\ new.start = bucketStart(x.start, 1)
             /\ \/ same = {} /\ new = Opened(1, x)
                \/ \E b \in bars : same = {b} /\ new = Merged(b, x)
<1> DEFINE x    == AsBar(Head(inbox))
           same == {b \in bars : b.start = bucketStart(x.start, 1)}
           new  == IF same = {} THEN Opened(1, x) ELSE Merged(CHOOSE b \in same : TRUE, x)
           bs   == (bars \ same) \cup {new}
<1>1. TypeOK /\ Building
  BY DEF IInv
<1>2. /\ InSelect /\ inbox # <<>> /\ Head(inbox) # BadTrade /\ ~IsLate(Head(inbox))
      /\ inbox' = Tail(inbox) /\ latest' = Latest(Head(inbox))
      /\ EmitReady(bs, latest' - Window)
      /\ taken' = Append(taken, Head(inbox))
  BY DEF TakeTrade
<1>3. Head(inbox) \in Trade /\ latest' \in Nat
  BY <1>1, <1>2, HeadOfInbox, LatestType
<1>4. bars \subseteq Bar
  BY <1>1 DEF TypeOK
<1>5. Piece(x) /\ 1 \in 1..N /\ x.start \in Nat /\ x.start = Head(inbox).ts
  BY <1>3, Pieces, IntervalsArePositive DEF AsBar
<1> HIDE DEF x
<1>6. \/ same = {} /\ new = Opened(1, x)
      \/ \E b \in bars : same = {b} /\ new = Merged(b, x)
  <2>1. CASE same = {}
    BY <2>1
  <2>2. CASE same # {}
    <3>1. PICK b \in same : b = CHOOSE c \in same : TRUE
      BY <2>2
    <3>2. \A c \in same : c = b
      BY <3>1, <1>1 DEF Building
    <3>3. new = Merged(b, x) /\ same = {b}
      BY <2>2, <3>1, <3>2
    <3> QED
      BY <3>3
  <2> QED
    BY <2>1, <2>2
<1>7. new \in Bar /\ new.lv = 1 /\ new.start = bucketStart(x.start, 1)
  <2>1. CASE same = {} /\ new = Opened(1, x)
    <3> HIDE DEF new
    <3> QED
      BY <2>1, <1>5, OpenedBar
  <2>2. CASE \E b \in bars : same = {b} /\ new = Merged(b, x)
    <3> HIDE DEF new
    <3>1. PICK b \in bars : same = {b} /\ new = Merged(b, x)
      BY <2>2
    <3>2. b \in Bar /\ b.start = bucketStart(x.start, 1) /\ b.lv = 1
      BY <3>1, <1>1, <1>4 DEF Building
    <3> QED
      BY <3>1, <3>2, <1>5, MergedBar
  <2> QED
    BY <2>1, <2>2, <1>6
<1> HIDE DEF new
<1>8. bs \subseteq Bar /\ \A b \in bs : b.lv = 1
  BY <1>1, <1>4, <1>7 DEF Building
<1>9. IsFiniteSet(bs)
  BY <1>1, FS_Subset, FS_AddElement DEF Building
<1> QED
  BY <1>2, <1>3, <1>5, <1>6, <1>7, <1>8, <1>9 DEF x, new

-----------------------------------------------------------------------------
(* The invariant of the first interval *)

\* TradesOf, in the list xs of accepted trades.
TradesIn(xs, s) == {i \in 1..Len(xs) : bucketStart(xs[i].start, 1) = s}

FirstMade(xs, b) == Made(b, xs, TradesIn(xs, b.start))

LEMMA TradesOfIsTradesIn == \A b : TradesOf(b) = TradesIn(Trades, b.start)
  BY DEF TradesOf, TradesIn

\* The trades, in the bars being built and the ones that leave: a bar leaves behind
\* the watermark, so that no trade of its bucket is accepted afterwards, and the bars
\* being built are behind the last one.
TradeInv ==
  /\ \A b \in bars : FirstMade(Trades, b)
  /\ \A b \in Out : b.lv = 1 => FirstMade(Trades, b)
  /\ \A i \in 1..Len(Trades) :
       \E b \in bars \cup Out : b.lv = 1 /\ b.start = bucketStart(Trades[i].start, 1)
  /\ (has /\ flushing = 0) => last + Intervals[1] <= latest - Window
  /\ has => \A b \in bars : b.start > last
  /\ flushing # 0 => bars = {}

LEMMA TradesList ==
  ASSUME TypeOK
  PROVE  /\ Len(taken) \in Nat /\ Len(Trades) = Len(taken) /\ Pieced(Trades)
         /\ \A i \in 1..Len(taken) : Trades[i] = AsBar(taken[i])
<1>1. taken \in Seq(Trade)
  BY DEF TypeOK
<1>2. Len(taken) \in Nat /\ \A i \in 1..Len(taken) : taken[i] \in Trade
  BY <1>1, ElementOfSeq, LenProperties
<1>3. Trades \in Seq({AsBar(t) : t \in Trade}) /\ Len(Trades) = Len(taken)
  BY <1>2 DEF Trades
<1>4. \A i \in 1..Len(taken) : Trades[i] = AsBar(taken[i])
  BY DEF Trades
<1> QED
  BY <1>2, <1>3, <1>4, Pieces DEF Pieced

LEMMA TradesAppend ==
  ASSUME TypeOK, NEW t \in Trade, taken' = Append(taken, t)
  PROVE  /\ OneMore(Trades, Trades') /\ Trades'[Len(Trades')] = AsBar(t)
         /\ Len(Trades') = Len(Trades) + 1
<1>1. taken \in Seq(Trade) /\ taken' \in Seq(Trade)
  BY AppendProperties DEF TypeOK
<1>2. /\ Len(taken) \in Nat /\ Len(Trades) = Len(taken) /\ Pieced(Trades)
      /\ \A i \in 1..Len(taken) : Trades[i] = AsBar(taken[i])
  BY TradesList
<1>3. /\ Len(taken') = Len(taken) + 1 /\ taken'[Len(taken) + 1] = t
      /\ \A i \in 1..Len(taken) : taken'[i] = taken[i]
  BY <1>1, AppendProperties
<1>4. Trades' = [i \in 1..Len(taken') |-> AsBar(taken'[i])]
  BY DEF Trades, AsBar
<1>5. \A i \in 1..Len(taken') : taken'[i] \in Trade /\ Trades'[i] = AsBar(taken'[i])
  BY <1>1, <1>4, ElementOfSeq
<1>6. Len(Trades') = Len(taken')
  BY <1>2, <1>3, <1>4
<1>7. Pieced(Trades')
  BY <1>2, <1>3, <1>5, <1>6, Pieces DEF Pieced
<1>8. \A i \in 1..Len(taken) : i \in 1..Len(taken')
  BY <1>2, <1>3
<1>9. \A i \in 1..Len(Trades) : Trades'[i] = Trades[i]
  BY <1>2, <1>3, <1>5, <1>8
<1>10. Len(taken') \in 1..Len(taken')
  BY <1>2, <1>3
<1> QED
  BY <1>2, <1>3, <1>5, <1>6, <1>7, <1>9, <1>10 DEF OneMore

-----------------------------------------------------------------------------
(* Every step keeps the invariant of the first interval *)

LEMMA LatestGrows ==
  ASSUME TypeOK, NEW t \in Trade
  PROVE  /\ t.ts \in Nat /\ latest \in Nat /\ Window \in Nat /\ Latest(t) \in Nat
         /\ latest <= Latest(t) /\ t.ts <= Latest(t)
         /\ (~IsLate(t) /\ Window > 0) => Latest(t) - Window <= t.ts
<1>1. t.ts \in Nat /\ latest \in Nat /\ Window \in Nat
  BY TradesAssumption, ConfigAssumption DEF TypeOK, Trade
<1> QED
  BY <1>1 DEF Latest, IsLate

\* The bars that are ready leave, and the watermark is behind the last of them.
LEMMA ReadyKeeps ==
  ASSUME TypeOK, todo = <<>>, sent' = sent, NEW bs, bs \subseteq Bar, IsFiniteSet(bs),
         \A b \in bs : b.lv = 1, latest' \in Nat, latest <= latest',
         EmitReady(bs, latest' - Window),
         has => last + Intervals[1] <= latest - Window,
         has => \A b \in bs : b.start > last
  PROVE  /\ Out \subseteq Out' /\ bars' \subseteq bs
         /\ \A b \in bs : b \in bars' \/ b \in Out'
         /\ \A b \in Out' : b \in Out \/ b \in bs
         /\ has' => last' + Intervals[1] <= latest' - Window
         /\ has' => \A b \in bars' : b.start > last'
<1> DEFINE w == latest' - Window
           R == {b \in NotEmitted(bs) : End(b) <= w}
<1>1. /\ bars' = bs \ R /\ Out' = Out \cup R
      /\ R = {} => last' = last /\ has' = has
      /\ R # {} => /\ has' = TRUE
                   /\ \E b \in R : last' = b.start /\ \A c \in R : c.start <= b.start
  BY ReadyBars
<1>2. R \subseteq bs /\ \A b \in R : End(b) <= w
  BY DEF NotEmitted
<1>3. \A b \in bs : End(b) <= w => b \in R
  BY DEF NotEmitted
<1>4. 1 \in 1..N /\ Intervals[1] \in Nat /\ latest \in Nat /\ last \in Int /\ Window \in Nat /\ w \in Int
  BY IntervalsArePositive, ConfigAssumption DEF TypeOK
<1>5. \A b \in bs : End(b) = b.start + Intervals[1] /\ b.start \in Int
  BY EndOfBar, Pieces DEF Piece
<1> HIDE DEF w, R
<1>6. has' => last' \in Int /\ last' + Intervals[1] <= w
  <2>1. CASE R = {}
    <3>1. last' = last /\ (has' => has)
      BY <2>1, <1>1
    <3>2. has' => last' + Intervals[1] <= latest - Window
      BY <3>1
    <3> QED
      BY <3>1, <3>2, <1>4 DEF w
  <2>2. CASE R # {}
    <3>1. PICK b \in R : last' = b.start
      BY <2>2, <1>1
    <3>2. b \in bs /\ End(b) <= w
      BY <1>2
    <3> QED
      BY <3>1, <3>2, <1>5
  <2> QED
    BY <2>1, <2>2
<1>7. has' => \A b \in bars' : b.start > last'
  <2> SUFFICES ASSUME has', NEW b \in bars' PROVE b.start > last'
    OBVIOUS
  <2>1. b \in bs /\ ~(End(b) <= w)
    BY <1>1, <1>3
  <2> QED
    BY <2>1, <1>4, <1>5, <1>6
<1> QED
  BY <1>1, <1>2, <1>6, <1>7 DEF w

\* A trade that is not late is of a later bucket than the bars that have left.
LEMMA NotLateIsLater ==
  ASSUME IInv, TradeInv, Window > 0, flushing = 0, NEW t \in Trade, ~IsLate(t)
  PROVE  /\ has => bucketStart(t.ts, 1) > last
         /\ \A y \in Out : y.lv = 1 => y.start # bucketStart(t.ts, 1)
<1> DEFINE B == bucketStart(t.ts, 1)
<1>1. TypeOK /\ Order
  BY DEF IInv
<1>2. /\ t.ts \in Nat /\ latest \in Nat /\ Window \in Nat /\ Latest(t) \in Nat
      /\ latest <= Latest(t) /\ Latest(t) - Window <= t.ts
  BY <1>1, LatestGrows
<1>3. 1 \in 1..N /\ Intervals[1] \in Nat /\ last \in Int
  BY <1>1, IntervalsArePositive DEF TypeOK
<1>4. t.ts < B + Intervals[1] /\ B \in Int
  BY <1>2, <1>3, BucketHolds, BucketStart
<1> HIDE DEF B
<1>5. has => B > last
  BY <1>2, <1>3, <1>4 DEF TradeInv
<1>6. \A y \in Out : y.lv = 1 => y.start # B
  <2> SUFFICES ASSUME NEW y \in Out, y.lv = 1 PROVE y.start # B
    OBVIOUS
  <2>1. has /\ y.start <= last
    BY <1>1 DEF Order
  <2> QED
    BY <2>1, <1>3, <1>4, <1>5
<1> QED
  BY <1>5, <1>6 DEF B

LEMMA TradesGrow ==
  ASSUME NEW xs, NEW ys, OneMore(xs, ys), NEW s
  PROVE  TradesIn(ys, s) = IF bucketStart(ys[Len(ys)].start, 1) = s
                           THEN TradesIn(xs, s) \cup {Len(ys)} ELSE TradesIn(xs, s)
<1>1. Len(xs) \in Nat /\ Len(ys) = Len(xs) + 1 /\ \A i \in 1..Len(xs) : ys[i] = xs[i]
  BY DEF OneMore, Pieced
<1>2. \A i : i \in 1..Len(ys) <=> (i \in 1..Len(xs) \/ i = Len(ys))
  BY <1>1
<1> DEFINE P(b) == bucketStart(b.start, 1) = s
<1>3. TradesIn(xs, s) = {i \in 1..Len(xs) : P(xs[i])} /\ TradesIn(ys, s) = {i \in 1..Len(ys) : P(ys[i])}
  BY DEF TradesIn
<1> HIDE DEF P
<1>4. \A i : i \in TradesIn(ys, s) <=> (i \in TradesIn(xs, s) \/ (i = Len(ys) /\ P(ys[Len(ys)])))
  BY <1>1, <1>2, <1>3
<1>5. ~P(ys[Len(ys)]) => TradesIn(ys, s) = TradesIn(xs, s)
  BY <1>4
<1>6. P(ys[Len(ys)]) => TradesIn(ys, s) = TradesIn(xs, s) \cup {Len(ys)}
  BY <1>4
<1> QED
  BY <1>5, <1>6 DEF P

LEMMA TradeTake ==
  ASSUME IInv, TradeInv, Window > 0, TakeTrade
  PROVE  TradeInv'
<1>1. TypeOK /\ Building /\ Order
  BY DEF IInv
<1>2. todo = <<>> /\ flushing = 0 /\ sent' = sent /\ flushing' = flushing
  BY DEF TakeTrade, InSelect
<1> DEFINE t    == Head(inbox)
           x    == AsBar(t)
           same == {b \in bars : b.start = bucketStart(x.start, 1)}
           new  == IF same = {} THEN Opened(1, x) ELSE Merged(CHOOSE b \in same : TRUE, x)
           bs   == (bars \ same) \cup {new}
           B    == bucketStart(t.ts, 1)
<1>3. /\ t \in Trade /\ Piece(x) /\ x.start = t.ts /\ t.ts \in Nat
      /\ ~IsLate(t) /\ latest' = Latest(t) /\ latest' \in Nat
      /\ EmitReady(bs, latest' - Window) /\ taken' = Append(taken, t)
      /\ bs \subseteq Bar /\ IsFiniteSet(bs) /\ \A b \in bs : b.lv = 1
      /\ new \in Bar /\ new.lv = 1 /\ new.start = bucketStart(x.start, 1)
      /\ \/ same = {} /\ new = Opened(1, x)
         \/ \E b \in bars : same = {b} /\ new = Merged(b, x)
  BY TakenBars
<1>4. (\A b \in bars : b \in same \/ b \in bs) /\ new \in bs /\ \A b \in bs : b = new \/ (b \in bars /\ b \notin same)
  OBVIOUS
<1>5. /\ \A b \in bars : b \in same <=> b.start = B
      /\ new.start = B
  BY <1>3
<1>6. bars \subseteq Bar /\ \A b \in bars : b.lv = 1
  BY <1>1 DEF TypeOK, Building
<1> HIDE DEF t, x, same, new, bs, B
<1>7. /\ has => B > last
      /\ \A y \in Out : y.lv = 1 => y.start # B
  BY <1>2, <1>3, NotLateIsLater DEF B
<1>8. latest <= latest'
  BY <1>1, <1>3, LatestGrows
<1>9. has => \A b \in bs : b.start > last
  BY <1>4, <1>5, <1>7 DEF TradeInv
<1>10. has => last + Intervals[1] <= latest - Window
  BY <1>2 DEF TradeInv
<1>11. /\ Out \subseteq Out' /\ bars' \subseteq bs
       /\ \A b \in bs : b \in bars' \/ b \in Out'
       /\ \A b \in Out' : b \in Out \/ b \in bs
       /\ has' => last' + Intervals[1] <= latest' - Window
       /\ has' => \A b \in bars' : b.start > last'
  BY <1>1, <1>2, <1>3, <1>8, <1>9, <1>10, ReadyKeeps
<1> DEFINE xs == Trades
           ys == Trades'
<1>12. OneMore(xs, ys) /\ ys[Len(ys)] = x /\ Len(ys) = Len(xs) + 1 /\ Len(xs) \in Nat
  BY <1>1, <1>3, TradesAppend, TradesList DEF x
<1> HIDE DEF xs, ys
<1>13. \A s : TradesIn(ys, s) = IF s = B THEN TradesIn(xs, s) \cup {Len(ys)} ELSE TradesIn(xs, s)
  BY <1>3, <1>12, TradesGrow DEF B
\* The bars of other buckets are left alone.
<1>14. ASSUME NEW b, FirstMade(xs, b), b.start # B PROVE FirstMade(ys, b)
  <2>1. TradesIn(ys, b.start) = TradesIn(xs, b.start)
    BY <1>13, <1>14
  <2> QED
    BY <2>1, <1>12, <1>14, MadeGrown DEF FirstMade
<1>15. FirstMade(ys, new)
  <2>1. TradesIn(ys, B) = TradesIn(xs, B) \cup {Len(ys)}
    BY <1>13
  <2>2. CASE same = {} /\ new = Opened(1, x)
    <3>1. TradesIn(xs, B) = {}
      <4> SUFFICES ASSUME NEW i \in TradesIn(xs, B) PROVE FALSE
        OBVIOUS
      <4>1. i \in 1..Len(Trades) /\ bucketStart(Trades[i].start, 1) = B
        BY DEF TradesIn, xs
      <4>2. PICK b \in bars \cup Out : b.lv = 1 /\ b.start = B
        BY <4>1 DEF TradeInv
      <4> QED
        BY <4>2, <2>2, <1>5, <1>7
    <3>2. Made(Opened(1, ys[Len(ys)]), ys, {Len(ys)})
      <4>1. 1 \in 1..N
        BY IntervalsArePositive
      <4> QED
        BY <4>1, <1>12, OpenedIsMade
    <3>3. TradesIn(ys, B) = {Len(ys)}
      BY <2>1, <3>1
    <3> QED
      BY <2>2, <3>2, <3>3, <1>5, <1>12 DEF FirstMade
  <2>3. CASE \E b \in bars : same = {b} /\ new = Merged(b, x)
    <3>1. PICK b \in bars : same = {b} /\ new = Merged(b, x)
      BY <2>3
    <3>2. b \in Bar /\ b.start = B /\ FirstMade(xs, b)
      BY <3>1, <1>5, <1>6 DEF TradeInv, xs
    <3>3. Made(b, xs, TradesIn(xs, B))
      BY <3>2 DEF FirstMade
    <3>4. Made(Merged(b, ys[Len(ys)]), ys, TradesIn(xs, B) \cup {Len(ys)})
      BY <3>2, <3>3, <1>12, MergedIsMade
    <3> QED
      BY <3>1, <3>4, <2>1, <1>5, <1>12 DEF FirstMade
  <2> QED
    BY <2>2, <2>3, <1>3
<1>16. \A b \in bs : FirstMade(ys, b)
  <2> SUFFICES ASSUME NEW b \in bs PROVE FirstMade(ys, b)
    OBVIOUS
  <2>1. CASE b = new
    BY <2>1, <1>15
  <2>2. CASE b \in bars /\ b \notin same
    <3>1. FirstMade(xs, b) /\ b.start # B
      BY <2>2, <1>5 DEF TradeInv, xs
    <3> QED
      BY <3>1, <1>14
  <2> QED
    BY <2>1, <2>2, <1>4
<1>17. \A b \in Out : b.lv = 1 => FirstMade(ys, b)
  <2> SUFFICES ASSUME NEW b \in Out, b.lv = 1 PROVE FirstMade(ys, b)
    OBVIOUS
  <2>1. FirstMade(xs, b) /\ b.start # B
    BY <1>7 DEF TradeInv, xs
  <2> QED
    BY <2>1, <1>14
<1>18. \A b \in bars' : FirstMade(ys, b)
  BY <1>11, <1>16
<1>19. \A b \in Out' : b.lv = 1 => FirstMade(ys, b)
  BY <1>11, <1>16, <1>17
<1>20. ASSUME NEW i \in 1..Len(ys)
       PROVE  \E b \in bars' \cup Out' : b.lv = 1 /\ b.start = bucketStart(ys[i].start, 1)
  <2>0. \A b \in bs : b.lv = 1 /\ b \in bars' \cup Out'
    BY <1>3, <1>11
  <2>1. CASE i = Len(ys)
    <3>1. bucketStart(ys[i].start, 1) = B
      BY <2>1, <1>3, <1>12 DEF B
    <3> QED
      BY <3>1, <2>0, <1>4, <1>5
  <2>2. CASE i # Len(ys)
    <3>1. i \in 1..Len(xs) /\ ys[i] = xs[i]
      BY <2>2, <1>12 DEF OneMore
    <3>2. PICK b \in bars \cup Out : b.lv = 1 /\ b.start = bucketStart(ys[i].start, 1)
      BY <3>1 DEF TradeInv, xs
    <3>3. CASE b \in Out
      BY <3>2, <3>3, <1>11
    <3>4. CASE b \in same
      BY <3>2, <3>4, <2>0, <1>4, <1>5 DEF same
    <3>5. CASE b \in bars /\ b \notin same
      BY <3>2, <3>5, <2>0, <1>4
    <3> QED
      BY <3>2, <3>3, <3>4, <3>5
  <2> QED
    BY <2>1, <2>2
<1> QED
  BY <1>2, <1>11, <1>18, <1>19, <1>20 DEF TradeInv, ys

LEMMA TradeLate ==
  ASSUME IInv, TradeInv, TakeLate
  PROVE  TradeInv'
<1>1. TypeOK /\ Building
  BY DEF IInv
<1>2. /\ todo = <<>> /\ flushing = 0 /\ sent' = sent /\ flushing' = flushing /\ taken' = taken
      /\ inbox # <<>> /\ Head(inbox) # BadTrade /\ latest' = Latest(Head(inbox))
      /\ EmitReady(bars, latest' - Window)
  BY DEF TakeLate, InSelect
<1>3. latest' \in Nat /\ latest <= latest'
  BY <1>1, <1>2, HeadOfInbox, LatestGrows
<1>4. bars \subseteq Bar /\ IsFiniteSet(bars) /\ \A b \in bars : b.lv = 1
  BY <1>1 DEF TypeOK, Building
<1>5. (has => last + Intervals[1] <= latest - Window) /\ (has => \A b \in bars : b.start > last)
  BY <1>2 DEF TradeInv
<1>6. /\ Out \subseteq Out' /\ bars' \subseteq bars
      /\ \A b \in bars : b \in bars' \/ b \in Out'
      /\ \A b \in Out' : b \in Out \/ b \in bars
      /\ has' => last' + Intervals[1] <= latest' - Window
      /\ has' => \A b \in bars' : b.start > last'
  BY <1>1, <1>2, <1>3, <1>4, <1>5, ReadyKeeps
<1>7. Trades' = Trades
  BY <1>2 DEF Trades
<1>8. bars \cup Out \subseteq bars' \cup Out'
  BY <1>6
<1> QED
  BY <1>2, <1>6, <1>7, <1>8 DEF TradeInv

LEMMA TradeFlush ==
  ASSUME IInv, TradeInv, FlushTrades
  PROVE  TradeInv'
<1>1. TypeOK /\ Building
  BY DEF IInv
<1>2. PICK s \in Sorted(NotEmitted(bars)) :
         /\ todo' = s /\ bars' = {}
         /\ last' = IF s = <<>> THEN last ELSE Last(s).start
         /\ has' = (has \/ s # <<>>)
  BY DEF FlushTrades
<1>3. todo = <<>> /\ flushing' = 2 /\ sent' = sent /\ taken' = taken
  BY DEF FlushTrades, InSelect
<1>4. bars \subseteq Bar /\ IsFiniteSet(bars)
  BY <1>1 DEF TypeOK, Building
<1>5. NotEmitted(bars) = bars
  BY DEF NotEmitted, TradeInv
<1>6. Out' = Out \cup bars
  BY <1>1, <1>2, <1>3, <1>4, <1>5, FirstOut
<1>7. Trades' = Trades
  BY <1>3 DEF Trades
<1> QED
  BY <1>2, <1>3, <1>6, <1>7 DEF TradeInv

LEMMA TradeQuiet ==
  ASSUME TradeInv, UNCHANGED <<bars, latest, last, has, taken>>, Out \subseteq Out',
         \A y \in Out' : y \in Out \/ y.lv # 1, flushing' = 0 <=> flushing = 0
  PROVE  TradeInv'
<1>1. Trades' = Trades
  BY DEF Trades
<1>2. bars \cup Out \subseteq bars' \cup Out'
  OBVIOUS
<1> QED
  BY <1>1, <1>2 DEF TradeInv

-----------------------------------------------------------------------------
(* Every step keeps both *)

FInv == IInv /\ RollInv /\ (Window > 0 => TradeInv)

LEMMA FirstLeave ==
  ASSUME IInv, TakeLate \/ TakeTrade \/ FlushTrades
  PROVE  /\ sent' = sent /\ cur' = cur /\ Out \subseteq Out'
         /\ \A y \in Out' : y \in Out \/ y.lv = 1
         /\ flushing' = flushing \/ (flushing = 0 /\ flushing' = 2)
<1>1. TypeOK /\ bars \subseteq Bar /\ IsFiniteSet(bars) /\ \A b \in bars : b.lv = 1
  BY DEF IInv, TypeOK, Building
<1>2. todo = <<>> /\ sent' = sent /\ cur' = cur
  BY DEF TakeLate, TakeTrade, FlushTrades, InSelect
<1>3. flushing' = flushing \/ (flushing = 0 /\ flushing' = 2)
  BY DEF TakeLate, TakeTrade, FlushTrades, InSelect
<1>4. ASSUME NEW bs, NEW w, EmitReady(bs, w), bs \subseteq Bar, IsFiniteSet(bs), \A b \in bs : b.lv = 1
      PROVE  Out \subseteq Out' /\ \A y \in Out' : y \in Out \/ y.lv = 1
  <2> DEFINE R == {b \in NotEmitted(bs) : End(b) <= w}
  <2>1. Out' = Out \cup R
    BY <1>1, <1>2, <1>4, ReadyBars
  <2>2. R \subseteq bs
    BY DEF NotEmitted
  <2> HIDE DEF R
  <2> QED
    BY <2>1, <2>2, <1>4
<1>5. CASE TakeLate
  <2>1. EmitReady(bars, latest' - Window)
    BY <1>5 DEF TakeLate
  <2> QED
    BY <2>1, <1>1, <1>2, <1>3, <1>4
<1>6. CASE TakeTrade
  <2>1. \E bs : /\ EmitReady(bs, latest' - Window) /\ bs \subseteq Bar /\ IsFiniteSet(bs)
                /\ \A b \in bs : b.lv = 1
    BY <1>6, TakenBars
  <2> QED
    BY <2>1, <1>2, <1>3, <1>4
<1>7. CASE FlushTrades
  <2> DEFINE R == NotEmitted(bars)
  <2>1. PICK s \in Sorted(R) :
         /\ todo' = s
         /\ last' = IF s = <<>> THEN last ELSE Last(s).start
         /\ has' = (has \/ s # <<>>)
    BY <1>7 DEF FlushTrades
  <2>2. R \subseteq bars
    BY DEF NotEmitted
  <2>3. R \subseteq Bar /\ IsFiniteSet(R)
    BY <2>2, <1>1, FS_Subset
  <2> HIDE DEF R
  <2>4. Out' = Out \cup R
    BY <2>1, <2>3, <1>1, <1>2, FirstOut
  <2> QED
    BY <2>2, <2>4, <1>1, <1>2, <1>3
<1> QED
  BY <1>5, <1>6, <1>7

LEMMA InitFInv ==
  ASSUME Init
  PROVE  FInv
<1>1. IInv
  BY InitIInv
<1>2. Out = {} /\ Len(sent) = 0 /\ sent = <<>>
  BY DEF Init, Out
<1>3. \A k \in 2..N : cur[k] = NoBar
  BY DEF Init
<1>4. RollInv
  BY <1>2, <1>3 DEF RollInv
<1>5. taken = <<>> /\ bars = {} /\ flushing = 0
  BY DEF Init
<1>6. ~has
  BY Zenon DEF Init
<1>7. Len(Trades) = 0
  BY <1>1, <1>5, TradesList DEF IInv
<1>8. TradeInv
  BY <1>2, <1>5, <1>6, <1>7 DEF TradeInv
<1> QED
  BY <1>1, <1>4, <1>8 DEF FInv

LEMMA NextFInv ==
  ASSUME FInv, [Next]_vars
  PROVE  FInv'
<1>0. IInv /\ RollInv /\ TypeOK /\ Building
  BY DEF FInv, IInv
<1>1. IInv'
  BY <1>0, NextIInv
<1>2. ASSUME RollInv', (Window > 0 /\ TradeInv) => TradeInv' PROVE FInv'
  BY <1>1, <1>2 DEF FInv
<1>3. CASE \/ \E t \in Trade \cup {BadTrade} : OfferTrade(t)
           \/ OfferDropped \/ TakeBad \/ Read \/ Cancel \/ Quit \/ Close \/ UNCHANGED vars
  <2>1. UNCHANGED <<sent, todo, cur, flushing, bars, latest, last, has, taken>>
    BY <1>3 DEF OfferTrade, OfferDropped, TakeBad, Read, Cancel, Quit, Close, vars, sym
  <2>2. Out' = Out
    BY <2>1 DEF Out
  <2>3. RollInv'
    BY <2>1, <2>2, <1>0, RollQuiet
  <2>4. TradeInv => TradeInv'
    BY <2>1, <2>2, TradeQuiet
  <2> QED
    BY <2>3, <2>4, <1>2
<1>4. CASE TakeLate
  <2>1. RollInv'
    BY <1>0, <1>4, FirstLeave, RollQuiet
  <2> QED
    BY <2>1, <1>0, <1>2, <1>4, TradeLate
<1>5. CASE TakeTrade
  <2>1. RollInv'
    BY <1>0, <1>5, FirstLeave, RollQuiet
  <2> QED
    BY <2>1, <1>0, <1>2, <1>5, TradeTake
<1>6. CASE Emit
  <2>1. RollInv'
    BY <1>0, <1>6, RollEmit
  <2>2. UNCHANGED <<bars, latest, last, has, taken, flushing>>
    BY <1>6 DEF Emit, sym
  <2>3. Out \subseteq Out' /\ \A y \in Out' : y \in Out \/ y.lv # 1
    BY <1>0, <1>6, EmitOut
  <2>4. TradeInv => TradeInv'
    BY <2>2, <2>3, TradeQuiet
  <2> QED
    BY <2>1, <2>4, <1>2
<1>7. CASE FlushTrades
  <2>1. RollInv'
    BY <1>0, <1>7, FirstLeave, RollQuiet
  <2> QED
    BY <2>1, <1>0, <1>2, <1>7, TradeFlush
<1>8. CASE FlushRollup
  <2>1. RollInv'
    BY <1>0, <1>8, RollFlush
  <2>2. /\ UNCHANGED <<bars, latest, last, has, taken, sent>>
        /\ flushing \in 2..N /\ flushing' = flushing + 1 /\ todo = <<>>
        /\ todo' = IF cur[flushing] = NoBar THEN <<>> ELSE <<cur[flushing]>>
    BY <1>8 DEF FlushRollup, sym
  <2>3. N \in Nat /\ (cur[flushing] # NoBar => cur[flushing].lv # 1)
    BY <2>2, <1>0, IntervalsArePositive DEF Building
  <2>4. Out \subseteq Out' /\ \A y \in Out' : y \in Out \/ y.lv # 1
    <3>1. \A i \in 1..Len(todo') : todo'[i].lv # 1
      <4>1. CASE cur[flushing] = NoBar
        BY <4>1, <2>2
      <4>2. CASE cur[flushing] # NoBar
        <5>1. Len(todo') = 1 /\ todo'[1] = cur[flushing]
          BY <4>2, <2>2
        <5> QED
          BY <5>1, <4>2, <2>3
      <4> QED
        BY <4>1, <4>2
    <3>2. Out = {sent[i] : i \in 1..Len(sent)}
      BY <2>2 DEF Out
    <3>3. Out' = {sent[i] : i \in 1..Len(sent)} \cup {todo'[i] : i \in 1..Len(todo')}
      BY <2>2 DEF Out
    <3> QED
      BY <3>1, <3>2, <3>3
  <2>5. flushing' # 0 /\ flushing # 0
    BY <2>2, <2>3
  <2>6. TradeInv => TradeInv'
    BY <2>2, <2>4, <2>5, TradeQuiet
  <2> QED
    BY <2>1, <2>6, <1>2
<1> QED
  BY <1>3, <1>4, <1>5, <1>6, <1>7, <1>8 DEF Next

LEMMA SpecFInv == Spec => []FInv
<1>1. Init => FInv
  BY InitFInv
<1>2. FInv /\ [Next]_vars => FInv'
  BY NextFInv
<1> QED
  BY <1>1, <1>2, PTL DEF Spec

-----------------------------------------------------------------------------
(* What the invariant says of the bars sent *)

LEMMA SentList ==
  ASSUME TypeOK
  PROVE  /\ Pieced(sent) /\ Len(sent) \in Nat
         /\ \A i \in 1..Len(sent) : /\ sent[i] \in Out /\ sent[i] \in Bar /\ sent[i].lv \in 1..N
                                    /\ sent[i].start \in Int /\ End(sent[i]) \in Int
                                    /\ End(sent[i]) > sent[i].start
<1>1. Len(sent) \in Nat /\ \A i \in 1..Len(sent) : sent[i] \in Bar /\ sent[i] \in Out
  BY OutBars
<1> QED
  BY <1>1, Pieces, EndOfBar DEF Pieced, Piece

LEMMA FInvIsRollupsAgree ==
  ASSUME FInv
  PROVE  RollupsAgree
<1>1. TypeOK /\ Order /\ RollInv
  BY DEF FInv, IInv
<1>2. /\ Pieced(sent) /\ Len(sent) \in Nat
      /\ \A i \in 1..Len(sent) : /\ sent[i] \in Out /\ sent[i] \in Bar /\ sent[i].lv \in 1..N
                                 /\ sent[i].start \in Int /\ End(sent[i]) \in Int
                                 /\ End(sent[i]) > sent[i].start
  BY <1>1, SentList
<1>3. \A i, j \in 1..Len(sent) : (i < j /\ sent[i].lv = sent[j].lv) => sent[j].start >= End(sent[i])
  BY <1>1 DEF Order, Before
<1> SUFFICES ASSUME NEW k \in 2..N, NEW j \in Emitted(k)
             PROVE  LET y == sent[j]
                    IN  IF ChildrenOf(y) # {} THEN Sums(y, sent, ChildrenOf(y))
                        ELSE /\ k \in FillGaps /\ y.v = 0 /\ y.n = 0
                             /\ \E i \in Emitted(k) :
                                  /\ i < j /\ \A m \in (i + 1)..(j - 1) : m \notin Emitted(k)
                                  /\ {y.o, y.h, y.l, y.c} = {sent[i].c}
  BY DEF RollupsAgree
<1> DEFINE y == sent[j]
<1>4. j \in 1..Len(sent) /\ y.lv = k /\ y \in Out /\ k # 1
  BY <1>2, IntervalsArePositive DEF Emitted
<1>5. Rolled(y)
  BY <1>1, <1>4 DEF RollInv
<1>6. ChildrenOf(y) = ChildrenIn(sent, y)
  BY ChildrenOfIsChildrenIn
<1>7. CASE MadeIn(sent, y)
  <2>1. ChildrenOf(y) # {} /\ Sums(y, sent, ChildrenOf(y))
    BY <1>2, <1>6, <1>7, MadeIsSums DEF MadeIn
  <2> QED
    BY <2>1
<1>8. CASE /\ ChildrenIn(sent, y) = {} /\ y.lv \in FillGaps /\ y.v = 0 /\ y.n = 0
           /\ \E z \in Out : Fills(y, z)
  <2>1. PICK z \in Out : Fills(y, z)
    BY <1>8
  <2>2. z.lv = k /\ End(z) = y.start /\ {y.o, y.h, y.l, y.c} = {z.c}
    BY <2>1, <1>4 DEF Fills
  <2>3. z \in Bar /\ End(z) > z.start /\ z.start \in Int /\ End(z) \in Int
    BY <1>1, OutBars, EndOfBar, Pieces DEF Piece
  <2>4. PICK i \in 1..Len(sent) : z = sent[i]
    <3>1. ASSUME NEW m \in 1..Len(todo), z = todo[m] PROVE FALSE
      <4>1. Before(y, z)
        BY <3>1, <2>2, <1>1, <1>4 DEF Order
      <4> QED
        BY <4>1, <2>2, <2>3, <1>2, <1>4 DEF Before
    <3> QED
      BY <3>1, <1>1, OutBars
  <2>5. i < j
    <3>1. i # j
      BY <2>2, <2>3, <2>4, <1>2, <1>4
    <3>2. ~(j < i)
      <4> SUFFICES ASSUME j < i PROVE FALSE
        OBVIOUS
      <4>1. z.start >= End(y)
        BY <2>2, <2>4, <1>3, <1>4
      <4> QED
        BY <4>1, <2>2, <2>3, <1>2, <1>4
    <3> QED
      BY <3>1, <3>2, <1>2, <1>4
  <2>6. ASSUME NEW m \in (i + 1)..(j - 1), m \in Emitted(k) PROVE FALSE
    <3>1. m \in 1..Len(sent) /\ sent[m].lv = k /\ i < m /\ m < j
      BY <2>6, <1>2 DEF Emitted
    <3>2. sent[m].start >= End(z) /\ y.start >= End(sent[m])
      BY <3>1, <2>2, <2>4, <1>3, <1>4
    <3> QED
      BY <3>1, <3>2, <2>2, <2>3, <1>2
  <2>7. i \in Emitted(k)
    BY <2>2, <2>4 DEF Emitted
  <2> QED
    BY <2>2, <2>4, <2>5, <2>6, <2>7, <1>4, <1>6, <1>8
<1> QED
  BY <1>5, <1>7, <1>8 DEF Rolled

LEMMA FInvIsBarsAreTrades ==
  ASSUME FInv
  PROVE  BarsAreTrades
<1> SUFFICES ASSUME Window > 0
             PROVE  /\ \A j \in Emitted(1) : TradesOf(sent[j]) # {} /\ Sums(sent[j], Trades, TradesOf(sent[j]))
                    /\ Returned => \A i \in 1..Len(Trades) : \E j \in Emitted(1) : i \in TradesOf(sent[j])
  BY DEF BarsAreTrades
<1>1. TypeOK /\ TradeInv
  BY DEF FInv, IInv
<1>2. Pieced(Trades)
  BY <1>1, TradesList
<1>3. ASSUME NEW j \in Emitted(1)
      PROVE  TradesOf(sent[j]) # {} /\ Sums(sent[j], Trades, TradesOf(sent[j]))
  <2>1. sent[j] \in Out /\ sent[j].lv = 1
    BY <1>1, SentList DEF Emitted
  <2>2. Made(sent[j], Trades, TradesOf(sent[j]))
    BY <2>1, <1>1, TradesOfIsTradesIn DEF TradeInv, FirstMade
  <2> QED
    BY <2>2, <1>2, MadeIsSums
<1>4. ASSUME Returned, NEW i \in 1..Len(Trades)
      PROVE  \E j \in Emitted(1) : i \in TradesOf(sent[j])
  <2>1. todo = <<>> /\ flushing # 0
    BY <1>4, IntervalsArePositive DEF Returned
  <2>2. bars = {} /\ Out = {sent[m] : m \in 1..Len(sent)}
    BY <2>1, <1>1 DEF TradeInv, Out
  <2>3. PICK b \in Out : b.lv = 1 /\ b.start = bucketStart(Trades[i].start, 1)
    BY <2>2, <1>1, <1>4 DEF TradeInv
  <2>4. PICK j \in 1..Len(sent) : b = sent[j]
    BY <2>2, <2>3
  <2> QED
    BY <2>3, <2>4, <1>4 DEF Emitted, TradesOf
<1> QED
  BY <1>3, <1>4

\* Bars of one interval that left are of different buckets.
LEMMA EmittedApart ==
  ASSUME TypeOK, Order, NEW k, NEW i \in Emitted(k), NEW j \in Emitted(k), i # j
  PROVE  sent[i].start # sent[j].start
<1>1. /\ i \in 1..Len(sent) /\ j \in 1..Len(sent) /\ sent[i].lv = sent[j].lv /\ Len(sent) \in Nat
  BY SentList DEF Emitted
<1>2. /\ sent[i].start \in Int /\ End(sent[i]) \in Int /\ End(sent[i]) > sent[i].start
      /\ sent[j].start \in Int /\ End(sent[j]) \in Int /\ End(sent[j]) > sent[j].start
  BY <1>1, SentList
<1>3. CASE i < j
  <2>1. Before(sent[i], sent[j])
    BY <1>1, <1>3 DEF Order
  <2> QED
    BY <2>1, <1>2 DEF Before
<1>4. CASE j < i
  <2>1. Before(sent[j], sent[i])
    BY <1>1, <1>4 DEF Order
  <2> QED
    BY <2>1, <1>2 DEF Before
<1> QED
  BY <1>1, <1>3, <1>4

\* The bars of the first interval account for all trades.
LEMMA FirstIsFull ==
  ASSUME FInv, Returned, Window > 0
  PROVE  Volume(sent, Emitted(1)) = Volume(Trades, 1..Len(Trades))
<1>1. TypeOK /\ Order /\ BarsAreTrades
  BY FInvIsBarsAreTrades DEF FInv, IInv
<1>2. Pieced(sent) /\ Pieced(Trades)
  BY <1>1, SentList, TradesList
<1> DEFINE J == Emitted(1)
           C == [j \in J |-> TradesOf(sent[j])]
<1>3. J \subseteq 1..Len(sent)
  BY DEF Emitted
<1>4. \A j \in J : sent[j].v = Volume(Trades, C[j])
  BY <1>1 DEF BarsAreTrades, Sums
<1>5. \A i, j \in J : i # j => C[i] \cap C[j] = {}
  <2> SUFFICES ASSUME NEW i \in J, NEW j \in J, i # j, NEW p \in C[i], p \in C[j] PROVE FALSE
    OBVIOUS
  <2>1. sent[i].start # sent[j].start
    BY <1>1, EmittedApart
  <2> QED
    BY <2>1 DEF TradesOf
<1>6. /\ \A i \in 1..Len(Trades) : \E j \in J : i \in C[j]
      /\ \A j \in J : C[j] \subseteq 1..Len(Trades)
  <2>1. \A i \in 1..Len(Trades) : \E j \in J : i \in C[j]
    BY <1>1 DEF BarsAreTrades
  <2>2. \A j \in J : C[j] \subseteq 1..Len(Trades)
    BY DEF TradesOf
  <2> QED
    BY <2>1, <2>2
<1> HIDE DEF J, C
<1>7. Split(Trades, sent, J, C, 1..Len(Trades))
  BY <1>3, <1>4, <1>5, <1>6 DEF Split
<1>8. Volume(sent, J) = Volume(Trades, 1..Len(Trades))
  BY <1>2, <1>7, VolumePartition
<1> QED
  BY <1>8 DEF J

\* The bars of each coarser interval account for the bars of the one below.
LEMMA NextIsFull ==
  ASSUME FInv, Returned, NEW k \in 2..N
  PROVE  Volume(sent, Emitted(k)) = Volume(sent, Emitted(k - 1))
<1>1. TypeOK /\ Order /\ RollInv /\ RollupsAgree
  BY FInvIsRollupsAgree DEF FInv, IInv
<1>2. /\ Pieced(sent) /\ Len(sent) \in Nat
      /\ \A i \in 1..Len(sent) : sent[i] \in Out /\ sent[i] \in Bar /\ sent[i].lv \in 1..N
  BY <1>1, SentList
<1>3. N \in Nat
  BY IntervalsArePositive
<1> DEFINE J == Emitted(k)
           C == [j \in J |-> ChildrenOf(sent[j])]
<1>4. J \subseteq 1..Len(sent) /\ \A j \in J : sent[j].lv = k
  BY DEF Emitted
<1>5. \A j \in J : sent[j].v = Volume(sent, C[j])
  <2> SUFFICES ASSUME NEW j \in J PROVE sent[j].v = Volume(sent, ChildrenOf(sent[j]))
    OBVIOUS
  <2>1. CASE ChildrenOf(sent[j]) # {}
    BY <2>1, <1>1 DEF RollupsAgree, Sums
  <2>2. CASE ChildrenOf(sent[j]) = {}
    <3>1. sent[j].v = 0
      BY <2>2, <1>1 DEF RollupsAgree
    <3>2. Volume(sent, {}) = 0
      BY <1>2, VolumeEmpty
    <3> QED
      BY <2>2, <3>1, <3>2
  <2> QED
    BY <2>1, <2>2
<1>6. \A i, j \in J : i # j => C[i] \cap C[j] = {}
  <2> SUFFICES ASSUME NEW i \in J, NEW j \in J, i # j, NEW p \in C[i], p \in C[j] PROVE FALSE
    OBVIOUS
  <2>1. sent[i].start # sent[j].start /\ sent[i].lv = sent[j].lv
    BY <1>1, <1>4, EmittedApart
  <2> QED
    BY <2>1 DEF ChildrenOf
<1>7. /\ \A i \in Emitted(k - 1) : \E j \in J : i \in C[j]
      /\ \A j \in J : C[j] \subseteq Emitted(k - 1)
  <2>1. ASSUME NEW i \in Emitted(k - 1) PROVE \E j \in J : i \in C[j]
    <3>1. i \in 1..Len(sent) /\ sent[i].lv = k - 1 /\ sent[i].lv # N /\ sent[i].lv + 1 = k
      BY <1>3 DEF Emitted
    <3>2. Covered(sent[i])
      BY <3>1, <1>1 DEF RollInv
    <3>3. todo = <<>> /\ ~(flushing <= k)
      BY <1>3 DEF Returned
    <3>4. PICK y \in Out : y.lv = k /\ y.start = bucketStart(sent[i].start, k)
      BY <3>1, <3>2, <3>3 DEF Covered
    <3>5. PICK j \in 1..Len(sent) : y = sent[j]
      BY <3>3, <3>4 DEF Out
    <3> QED
      BY <3>4, <3>5 DEF Emitted, ChildrenOf
  <2>2. \A j \in J : C[j] \subseteq Emitted(k - 1)
    BY <1>4 DEF ChildrenOf, Emitted
  <2> QED
    BY <2>1, <2>2
<1> HIDE DEF J, C
<1>8. Split(sent, sent, J, C, Emitted(k - 1))
  BY <1>4, <1>5, <1>6, <1>7 DEF Split
<1>9. Volume(sent, J) = Volume(sent, Emitted(k - 1))
  BY <1>2, <1>8, VolumePartition
<1> QED
  BY <1>9 DEF J

LEMMA FInvIsFlushedInFull ==
  ASSUME FInv
  PROVE  FlushedInFull
<1> SUFFICES ASSUME Returned, Window > 0, NEW k \in 1..N
             PROVE  Volume(sent, Emitted(k)) = Volume(Trades, 1..Len(Trades))
  BY DEF FlushedInFull
<1> DEFINE V == Volume(Trades, 1..Len(Trades))
           T == {n \in Nat : n + 1 <= N => Volume(sent, Emitted(n + 1)) = V}
<1>0. N \in Nat
  BY IntervalsArePositive
<1>1. Volume(sent, Emitted(1)) = V
  BY FirstIsFull
<1> HIDE DEF V
<1>2. 0 \in T
  BY <1>1
<1>3. ASSUME NEW n \in Nat, n \in T PROVE n + 1 \in T
  <2> SUFFICES ASSUME n + 1 + 1 <= N PROVE Volume(sent, Emitted(n + 1 + 1)) = V
    OBVIOUS
  <2>1. n + 1 + 1 \in 2..N /\ n + 1 <= N /\ n + 1 + 1 - 1 = n + 1
    BY <1>0
  <2>2. Volume(sent, Emitted(n + 1 + 1)) = Volume(sent, Emitted(n + 1 + 1 - 1))
    BY <2>1, NextIsFull
  <2>3. Volume(sent, Emitted(n + 1)) = V
    BY <2>1, <1>3
  <2> QED
    BY <2>1, <2>2, <2>3
<1> HIDE DEF T
<1>4. k - 1 \in Nat /\ k - 1 + 1 = k /\ k <= N
  BY <1>0
<1>5. k - 1 \in T
  BY <1>2, <1>3, <1>4, SetInduction
<1> QED
  BY <1>4, <1>5 DEF T, V

\* A bar of the first interval holds exactly the accepted trades of its bucket: none
\* is taken after the bar has left, and at the end none is left behind.
THEOREM BarsHoldTheirTrades == Spec => []BarsAreTrades
<1>1. FInv => BarsAreTrades
  BY FInvIsBarsAreTrades
<1> QED
  BY <1>1, SpecFInv, PTL

\* A coarser bar is what the finer bars of its bucket make; one without finer bars is
\* empty, at the close of the bar in front of it.
THEOREM RollupsAreSums == Spec => []RollupsAgree
<1>1. FInv => RollupsAgree
  BY FInvIsRollupsAgree
<1> QED
  BY <1>1, SpecFInv, PTL

\* When the shard has returned every interval has the volume of all accepted trades.
THEOREM FlushLosesNothing == Spec => []FlushedInFull
<1>1. FInv => FlushedInFull
  BY FInvIsFlushedInFull
<1> QED
  BY <1>1, SpecFInv, PTL
=============================================================================
