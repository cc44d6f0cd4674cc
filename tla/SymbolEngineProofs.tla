------------------------- MODULE SymbolEngineProofs -------------------------
(***************************************************************************)
(* Theorems about SymbolEngine, for every set of commands, every book that *)
(* satisfies BookAssumption, and every bound: its types, the write-ahead   *)
(* property and the publisher's promise, from inductive invariants that    *)
(* say where the numbers of the commands come from and what the            *)
(* publisher's offsets mean; then the outbox: the engine implements the    *)
(* event feed, every logged command is answered when the actor rests,      *)
(* events leave in the order of their commands, the replay rebuilds the    *)
(* book, and the results of a command are the same whenever they are       *)
(* computed.                                                               *)
(***************************************************************************)
EXTENDS SymbolEngine, SequenceTheorems, WellFoundedInduction, TLAPS

-----------------------------------------------------------------------------
(* The log file.  The proofs about the engine need two facts of every operation
   on it: its result is a file, and how its records relate to the records it
   started from. *)

\* A prefix of a sequence, its length and its elements.
LEMMA PrefixProperties ==
  ASSUME NEW S, NEW s \in Seq(S), NEW n \in 0..Len(s)
  PROVE  /\ Prefix(s, n) \in Seq(S)
         /\ Len(Prefix(s, n)) = n
         /\ \A k \in 1..n : Prefix(s, n)[k] = s[k]
<1>1. \A i \in 1..n : s[i] \in S
  BY ElementOfSeq, LenProperties
<1>2. n \in Int /\ n >= 0
  BY LenProperties
<1> QED
  BY <1>1, <1>2, SubSeqProperties DEF Prefix

\* A sequence followed by a prefix of another.
LEMMA ConcatPrefix ==
  ASSUME NEW S, NEW s \in Seq(S), NEW t \in Seq(S), NEW n \in 0..Len(t)
  PROVE  /\ s \o Prefix(t, n) \in Seq(S)
         /\ Len(s) \in Nat /\ Len(t) \in Nat
         /\ Len(s \o Prefix(t, n)) = Len(s) + n
         /\ \A k \in 1..Len(s) : (s \o Prefix(t, n))[k] = s[k]
         /\ \A k \in 1..n : (s \o Prefix(t, n))[Len(s) + k] = t[k]
<1>1. /\ Prefix(t, n) \in Seq(S) /\ Len(Prefix(t, n)) = n
      /\ \A k \in 1..n : Prefix(t, n)[k] = t[k]
      /\ Len(s) \in Nat /\ Len(t) \in Nat
  BY PrefixProperties, LenProperties
<1>2. ASSUME NEW p \in Seq(S), Len(p) = n
      PROVE  /\ s \o p \in Seq(S)
             /\ Len(s \o p) = Len(s) + n
             /\ \A k \in 1..Len(s) : (s \o p)[k] = s[k]
             /\ \A k \in 1..n : (s \o p)[Len(s) + k] = p[k]
  <2>1. /\ s \o p \in Seq(S)
        /\ Len(s \o p) = Len(s) + Len(p)
        /\ \A i \in 1..(Len(s) + Len(p)) :
             (s \o p)[i] = IF i <= Len(s) THEN s[i] ELSE p[i - Len(s)]
    BY ConcatProperties
  <2>2. \A k \in 1..n : Len(s) + k \in 1..(Len(s) + Len(p)) /\ ~(Len(s) + k <= Len(s)) /\ Len(s) + k - Len(s) = k
    BY <1>1, <1>2
  <2> QED
    BY <1>1, <1>2, <2>1, <2>2
<1> QED
  BY <1>1, <1>2

LEMMA ConcatWhole ==
  ASSUME NEW S, NEW s \in Seq(S), NEW t \in Seq(S)
  PROVE  /\ Len(s \o t) = Len(s) + Len(t)
         /\ \A k \in 1..Len(s) : (s \o t)[k] = s[k]
         /\ \A k \in 1..Len(t) : (s \o t)[Len(s) + k] = t[k]
<1>1. /\ Len(s) \in Nat /\ Len(t) \in Nat
      /\ Len(s \o t) = Len(s) + Len(t)
      /\ \A i \in 1..(Len(s) + Len(t)) :
           (s \o t)[i] = IF i <= Len(s) THEN s[i] ELSE t[i - Len(s)]
  BY ConcatProperties, LenProperties
<1>2. \A k \in 1..Len(t) : /\ Len(s) + k \in 1..(Len(s) + Len(t))
                           /\ ~(Len(s) + k <= Len(s))
                           /\ Len(s) + k - Len(s) = k
  BY <1>1
<1>3. \A k \in 1..Len(s) : k \in 1..(Len(s) + Len(t)) /\ k <= Len(s)
  BY <1>1
<1> QED
  BY <1>1, <1>2, <1>3


\* The fields of a file and how they bound each other.
LEMMA FileFields ==
  ASSUME NEW Rec, NEW f, IsFile(f, Rec)
  PROVE  /\ f.recs \in Seq(Rec) /\ Len(f.recs) \in Nat
         /\ f.synced \in Nat /\ f.synced <= Len(f.recs)
         /\ f.tail \in Tails
         /\ f.gap \in Nat \cup {NoGap} /\ f.gap \in Int /\ f.gap <= Len(f.recs)
         /\ f.stub \in BOOLEAN
BY LenProperties DEF IsFile, NoGap

\* A reader never delivers more records than the file holds.
LEMMA ReadableBound ==
  ASSUME NEW Rec, NEW f, IsFile(f, Rec)
  PROVE  Readable(f) \in 0..Len(f.recs)
BY FileFields DEF Readable, NoGap

LEMMA EmptyIsFile ==
  ASSUME NEW Rec
  PROVE  IsFile(EmptyFile, Rec) /\ EmptyFile.recs = <<>>
BY EmptySeq DEF IsFile, EmptyFile, Tails, NoGap

\* A gap stays where it is, and what buried it.
KeepsGap(f, g) == f.gap # NoGap => g.gap = f.gap /\ g.stub = f.stub

\* Write appends whole records and leaves the older ones alone.
LEMMA WriteProperties ==
  ASSUME NEW Rec, NEW f, IsFile(f, Rec), NEW rs \in Seq(Rec), NEW t \in Tails
  PROVE  /\ IsFile(Write(f, rs, t), Rec)
         /\ Write(f, rs, t).recs = f.recs \o rs
         /\ Write(f, rs, t).synced = f.synced
         /\ KeepsGap(f, Write(f, rs, t))
<1> DEFINE g == Write(f, rs, t)
<1>1. /\ f.recs \o rs \in Seq(Rec)
      /\ Len(f.recs \o rs) = Len(f.recs) + Len(rs)
      /\ Len(rs) \in Nat
  BY FileFields, ConcatProperties, LenProperties
<1>2. g.recs = f.recs \o rs /\ g.synced = f.synced /\ g.tail = t
  BY DEF Write
<1>3. /\ g.gap \in Nat \cup {NoGap}
      /\ g.gap <= Len(g.recs)
  BY <1>1, <1>2, FileFields DEF Write, NoGap
<1>4. g.stub \in BOOLEAN
  BY FileFields DEF Write
<1>5. g \in [recs : Seq(Rec), synced : Nat, tail : Tails, gap : Nat \cup {NoGap}, stub : BOOLEAN]
  BY <1>1, <1>2, <1>3, <1>4, FileFields DEF Write
<1>6. g.synced <= Len(g.recs)
  BY <1>1, <1>2, FileFields
<1>7. KeepsGap(f, g)
  BY DEF Write, KeepsGap
<1> QED
  BY <1>2, <1>3, <1>5, <1>6, <1>7 DEF IsFile

\* An fsync changes neither the records nor the shape of the file.
LEMMA SyncProperties ==
  ASSUME NEW Rec, NEW f, IsFile(f, Rec)
  PROVE  /\ IsFile([f EXCEPT !.synced = Len(f.recs)], Rec)
         /\ [f EXCEPT !.synced = Len(f.recs)].recs = f.recs
         /\ [f EXCEPT !.synced = Len(f.recs)].synced = Len(f.recs)
         /\ [f EXCEPT !.synced = Len(f.recs)].gap = f.gap
         /\ [f EXCEPT !.synced = Len(f.recs)].stub = f.stub
BY FileFields DEF IsFile

\* Flush writes the whole buffer.
LEMMA FlushedProperties ==
  ASSUME NEW Rec, NEW f, IsFile(f, Rec), NEW buf \in Seq(Rec)
  PROVE  /\ IsFile(Flushed(f, buf), Rec)
         /\ Flushed(f, buf).recs = f.recs \o buf
         /\ Flushed(f, buf).synced = Len(Flushed(f, buf).recs)
         /\ KeepsGap(f, Flushed(f, buf))
<1> DEFINE g == IF buf = <<>> THEN f ELSE Write(f, buf, "clean")
<1>1. IsFile(g, Rec) /\ g.recs = f.recs \o buf /\ KeepsGap(f, g)
  <2>1. CASE buf = <<>>
    BY <2>1, FileFields, ConcatEmptySeq DEF KeepsGap
  <2>2. CASE buf # <<>>
    BY <2>2, WriteProperties DEF Tails
  <2> QED
    BY <2>1, <2>2
<1>2. Flushed(f, buf) = [g EXCEPT !.synced = Len(g.recs)]
  BY DEF Flushed
<1> HIDE DEF g
<1> QED
  BY <1>1, <1>2, SyncProperties DEF KeepsGap

\* An interrupted write leaves the older records and a prefix of the buffer.
LEMMA PartialWritesProperties ==
  ASSUME NEW Rec, NEW f, IsFile(f, Rec), NEW buf \in Seq(Rec), NEW torn,
         NEW g \in PartialWrites(f, buf, torn)
  PROVE  /\ IsFile(g, Rec) /\ g.synced = f.synced /\ KeepsGap(f, g)
         /\ \E n \in 0..Len(buf) : g.recs = f.recs \o Prefix(buf, n)
<1>0. Len(buf) \in Nat
  BY LenProperties
<1>1. ASSUME g = f \/ \E t \in CutAgain(f) : g = [f EXCEPT !.tail = t]
      PROVE  /\ IsFile(g, Rec) /\ g.synced = f.synced /\ KeepsGap(f, g)
             /\ \E k \in 0..Len(buf) : g.recs = f.recs \o Prefix(buf, k)
  <2>1. Prefix(buf, 0) = <<>>
    BY SubSeqEmpty DEF Prefix
  <2>2. /\ IsFile(g, Rec) /\ g.synced = f.synced /\ g.recs = f.recs
        /\ g.gap = f.gap /\ g.stub = f.stub
    BY <1>1 DEF CutAgain, IsFile, Tails, Torn
  <2>3. g.recs = f.recs \o Prefix(buf, 0)
    BY <2>1, <2>2, FileFields, ConcatEmptySeq
  <2> QED
    BY <1>0, <2>2, <2>3 DEF KeepsGap
<1>2. ASSUME NEW n \in 0..Len(buf), NEW t \in Tails, g = Write(f, Prefix(buf, n), t)
      PROVE  /\ IsFile(g, Rec) /\ g.synced = f.synced /\ KeepsGap(f, g)
             /\ \E k \in 0..Len(buf) : g.recs = f.recs \o Prefix(buf, k)
  <2>1. Prefix(buf, n) \in Seq(Rec)
    BY PrefixProperties
  <2>2. IsFile(g, Rec) /\ g.synced = f.synced /\ KeepsGap(f, g) /\ g.recs = f.recs \o Prefix(buf, n)
    BY <1>2, <2>1, WriteProperties
  <2> QED
    BY <2>2
<1>3. \/ g = f \/ \E t \in CutAgain(f) : g = [f EXCEPT !.tail = t]
      \/ \E n \in 0..Len(buf), t \in Tails : g = Write(f, Prefix(buf, n), t)
  BY <1>0 DEF PartialWrites, Tails, Torn
<1> QED
  BY <1>1, <1>2, <1>3

\* A power cut leaves a prefix of the records, and a gap in it as it was.
LEMMA PowerCutsProperties ==
  ASSUME NEW Rec, NEW f, IsFile(f, Rec), NEW torn, NEW g \in PowerCuts(f, torn)
  PROVE  /\ IsFile(g, Rec) /\ g.synced = Len(g.recs)
         /\ g.gap = NoGap \/ g.gap < Len(g.recs)
         /\ f.gap # NoGap /\ f.gap < f.synced => KeepsGap(f, g)
         /\ \E m \in 0..Len(f.recs) : f.synced <= m /\ g.recs = Prefix(f.recs, m)
<1>1. PICK m \in f.synced..Len(f.recs), t \in Tails :
        g = [ recs   |-> Prefix(f.recs, m),
              synced |-> m,
              tail   |-> IF m = Len(f.recs) /\ f.tail = "clean" THEN "clean" ELSE t,
              gap    |-> IF f.gap >= m THEN NoGap ELSE f.gap,
              stub   |-> f.stub /\ f.gap < m ]
  BY DEF PowerCuts, Tails
<1>2. m \in 0..Len(f.recs) /\ f.synced <= m
  BY FileFields
<1>3. Prefix(f.recs, m) \in Seq(Rec) /\ Len(Prefix(f.recs, m)) = m
  BY <1>2, FileFields, PrefixProperties
<1>4. /\ g.recs = Prefix(f.recs, m) /\ g.synced = m
      /\ g.tail \in Tails
      /\ g.gap \in Nat \cup {NoGap} /\ g.gap <= m
      /\ g.gap = NoGap \/ g.gap < m
  BY <1>1, <1>2, FileFields DEF NoGap, Tails
<1>5. g \in [recs : Seq(Rec), synced : Nat, tail : Tails, gap : Nat \cup {NoGap}, stub : BOOLEAN]
  BY <1>1, <1>2, <1>3, <1>4
<1>6. f.gap # NoGap /\ f.gap < f.synced => KeepsGap(f, g)
  BY <1>1, <1>2, FileFields DEF KeepsGap
<1> QED
  BY <1>2, <1>3, <1>4, <1>5, <1>6 DEF IsFile

\* Truncating keeps the records in front of the cut.
LEMMA TruncatedToProperties ==
  ASSUME NEW Rec, NEW f, IsFile(f, Rec), NEW n \in 0..Len(f.recs)
  PROVE  /\ IsFile(TruncatedTo(f, n), Rec)
         /\ TruncatedTo(f, n).recs = Prefix(f.recs, n)
<1> DEFINE g == TruncatedTo(f, n)
<1>1. Prefix(f.recs, n) \in Seq(Rec) /\ Len(Prefix(f.recs, n)) = n
  <2>1. f.recs \in Seq(Rec)
    BY FileFields
  <2> QED
    BY <2>1, PrefixProperties
<1>2. n \in Nat
  BY FileFields
<1>3. /\ g.recs = Prefix(f.recs, n) /\ g.tail = "clean"
      /\ g.synced \in Nat /\ g.synced <= n
      /\ g.gap \in Nat \cup {NoGap} /\ g.gap <= n
      /\ g.stub \in BOOLEAN
  BY <1>2, FileFields DEF TruncatedTo, NoGap
<1>4. g \in [recs : Seq(Rec), synced : Nat, tail : Tails, gap : Nat \cup {NoGap}, stub : BOOLEAN]
  BY <1>1, <1>3 DEF TruncatedTo, Tails
<1> QED
  BY <1>1, <1>3, <1>4 DEF IsFile

-----------------------------------------------------------------------------
(* Sequences, events and the steps of the engine *)

\* t is s with records behind it.
Grown(s, t) == Len(t) \in Nat /\ Len(s) <= Len(t) /\ \A k \in 1..Len(s) : t[k] = s[k]

\* A function on 1..n is a sequence of length n.
LEMMA FunIsSeq ==
  ASSUME NEW S, NEW n \in Nat, NEW f \in [1..n -> S]
  PROVE  f \in Seq(S) /\ Len(f) = n
BY SeqDef

\* A nonempty set of naturals below a bound has a greatest element.
LEMMA BoundedMax ==
  ASSUME NEW n \in Nat, NEW T \in SUBSET (1..n), T # {}
  PROVE  \E k \in T : \A j \in T : j <= k
<1> DEFINE D == {n - k : k \in T}
<1>0. \A k \in T : k \in Nat /\ k <= n
  OBVIOUS
<1>1. D \subseteq Nat /\ D # {}
  <2>1. \A k \in T : n - k \in Nat
    BY <1>0
  <2> QED
    BY <2>1
<1>2. \E x \in D : \A y \in D : ~(<<y, x>> \in OpToRel(<, Nat))
  BY <1>1, NatLessThanWellFounded, WFMin
<1>3. PICK x \in D : \A y \in D : ~(y < x)
  BY <1>1, <1>2 DEF OpToRel
<1>4. PICK k \in T : x = n - k
  OBVIOUS
<1>5. ASSUME NEW j \in T PROVE j <= k
  <2>1. ~(n - j < n - k)
    BY <1>3, <1>4
  <2> QED
    BY <1>0, <2>1
<1> QED
  BY <1>5

\* What the emitter stamps: one event per entry, all under the same number and
\* request.
LEMMA StampedProperties ==
  ASSUME NEW s \in Nat, NEW c \in Commands, NEW evs \in Seq(Evs)
  PROVE  /\ Stamped(s, c, evs) \in Seq(EvRec)
         /\ Len(Stamped(s, c, evs)) = Len(evs)
         /\ \A k \in 1..Len(evs) :
              /\ Stamped(s, c, evs)[k] \in Event
              /\ Stamped(s, c, evs)[k].seq = s
              /\ Stamped(s, c, evs)[k].req = c
<1>1. Len(evs) \in Nat /\ \A k \in 1..Len(evs) : evs[k] \in Evs
  BY LenProperties, ElementOfSeq
<1>2. \A k \in 1..Len(evs) :
        /\ Stamped(s, c, evs)[k] \in Event
        /\ Stamped(s, c, evs)[k].seq = s
        /\ Stamped(s, c, evs)[k].req = c
  BY <1>1 DEF Stamped, Event
<1>3. Stamped(s, c, evs) \in [1..Len(evs) -> EvRec]
  BY <1>1 DEF Stamped, Event, EvRec
<1> QED
  BY <1>1, <1>2, <1>3, FunIsSeq

\* A CmdEnd record is an end, an event is not.
LEMMA EndsAndEvents ==
  /\ \A s \in Nat : CmdEnd(s) \in EvRec /\ IsEnd(CmdEnd(s)) /\ CmdEnd(s).seq = s
  /\ \A e \in Event : ~IsEnd(e)
  /\ \A r \in EvRec : ~IsEnd(r) => r \in Event
BY EventsAssumption DEF CmdEnd, IsEnd, EvRec, EndRec, Event

\* The events of a log are the records that are no CmdEnd.
LEMMA EventsInDef ==
  ASSUME NEW s \in Seq(EvRec), NEW e
  PROVE  e \in EventsIn(s) <=> \E k \in 1..Len(s) : ~IsEnd(s[k]) /\ e = s[k]
BY DEF EventsIn

LEMMA EventsInType ==
  ASSUME NEW s \in Seq(EvRec)
  PROVE  EventsIn(s) \subseteq Event
BY ElementOfSeq, EndsAndEvents DEF EventsIn

\* The events of two logs laid end to end.
LEMMA EventsInConcat ==
  ASSUME NEW s \in Seq(EvRec), NEW t \in Seq(EvRec)
  PROVE  EventsIn(s \o t) = EventsIn(s) \cup EventsIn(t)
<1>1. /\ s \o t \in Seq(EvRec) /\ Len(s \o t) = Len(s) + Len(t)
      /\ Len(s) \in Nat /\ Len(t) \in Nat
      /\ \A i \in 1..(Len(s) + Len(t)) :
           (s \o t)[i] = IF i <= Len(s) THEN s[i] ELSE t[i - Len(s)]
  BY ConcatProperties, LenProperties
<1>2. ASSUME NEW e \in EventsIn(s \o t) PROVE e \in EventsIn(s) \cup EventsIn(t)
  <2>1. PICK k \in 1..(Len(s) + Len(t)) : ~IsEnd((s \o t)[k]) /\ e = (s \o t)[k]
    BY <1>1 DEF EventsIn
  <2>2. CASE k <= Len(s)
    BY <1>1, <2>1, <2>2 DEF EventsIn
  <2>3. CASE ~(k <= Len(s))
    <3>1. k - Len(s) \in 1..Len(t) /\ e = t[k - Len(s)]
      BY <1>1, <2>1, <2>3
    <3> QED
      BY <2>1, <3>1 DEF EventsIn
  <2> QED
    BY <2>2, <2>3
<1>3. ASSUME NEW e \in EventsIn(s) PROVE e \in EventsIn(s \o t)
  <2>1. PICK k \in 1..Len(s) : ~IsEnd(s[k]) /\ e = s[k]
    BY DEF EventsIn
  <2>2. k \in 1..(Len(s) + Len(t)) /\ (s \o t)[k] = s[k]
    BY <1>1
  <2> QED
    BY <1>1, <2>1, <2>2 DEF EventsIn
<1>4. ASSUME NEW e \in EventsIn(t) PROVE e \in EventsIn(s \o t)
  <2>1. PICK k \in 1..Len(t) : ~IsEnd(t[k]) /\ e = t[k]
    BY DEF EventsIn
  <2>2. Len(s) + k \in 1..(Len(s) + Len(t)) /\ (s \o t)[Len(s) + k] = t[k]
    BY <1>1
  <2> QED
    BY <1>1, <2>1, <2>2 DEF EventsIn
<1> QED
  BY <1>2, <1>3, <1>4

LEMMA EventsInPrefix ==
  ASSUME NEW s \in Seq(EvRec), NEW n \in 0..Len(s)
  PROVE  EventsIn(Prefix(s, n)) \subseteq EventsIn(s)
<1>1. Len(Prefix(s, n)) = n /\ \A k \in 1..n : Prefix(s, n)[k] = s[k]
  BY PrefixProperties
<1>2. 1..n \subseteq 1..Len(s)
  BY LenProperties
<1> QED
  BY <1>1, <1>2 DEF EventsIn

LEMMA EventsInEmpty == EventsIn(<<>>) = {}
BY DEF EventsIn

\* The events of command c under number s.
EventsOf(s, c) == {e \in Event : e.seq = s /\ e.req = c}

LEMMA StampedEvents ==
  ASSUME NEW s \in Nat, NEW c \in Commands, NEW evs \in Seq(Evs)
  PROVE  /\ Stamped(s, c, evs) \in Seq(EvRec)
         /\ EventsIn(Stamped(s, c, evs)) \subseteq EventsOf(s, c)
BY StampedProperties DEF EventsIn, EventsOf

\* Events and the CmdEnd behind them, as the recovery and the actor write them.
LEMMA EndedEvents ==
  ASSUME NEW s \in Nat, NEW c \in Commands, NEW evs \in Seq(Evs)
  PROVE  /\ Stamped(s, c, evs) \o <<CmdEnd(s)>> \in Seq(EvRec)
         /\ EventsIn(Stamped(s, c, evs) \o <<CmdEnd(s)>>) \subseteq EventsOf(s, c)
<1>1. <<CmdEnd(s)>> \in Seq(EvRec) /\ EventsIn(<<CmdEnd(s)>>) = {}
  BY EndsAndEvents DEF EventsIn
<1> QED
  BY <1>1, StampedEvents, EventsInConcat, ConcatProperties

\* What one command adds to the outbox, during the recovery and live.
LEMMA ReplayEventsProperties ==
  ASSUME NEW r \in CmdRec, book \in Books
  PROVE  /\ ReplayEvents(r) \in Seq(EvRec)
         /\ EventsIn(ReplayEvents(r)) \subseteq EventsOf(r.seq, r.cmd)
<1>1. r.seq \in Nat /\ r.cmd \in Commands
  BY DEF CmdRec
<1>2. Apply(book, r.cmd).evs \in Seq(Evs)
  BY <1>1, BookAssumption
<1> QED
  BY <1>1, <1>2, EndedEvents DEF ReplayEvents

LEMMA LiveEventsProperties ==
  ASSUME NEW r \in CmdRec, book \in Books
  PROVE  /\ LiveEvents(r) \in Seq(EvRec)
         /\ EventsIn(LiveEvents(r)) \subseteq EventsOf(r.seq, r.cmd)
<1> DEFINE a == Apply(book, r.cmd)
           evs == IF a.found THEN a.evs ELSE a.evs \o <<Rejected>>
<1>1. r.seq \in Nat /\ r.cmd \in Commands
  BY DEF CmdRec
<1>2. <<Rejected>> \in Seq(Evs)
  BY EventsAssumption
<1>3. a.evs \in Seq(Evs)
  BY <1>1, BookAssumption
<1>4. evs \in Seq(Evs)
  BY <1>2, <1>3, ConcatProperties
<1>5. CASE ~Valid(r.cmd)
  BY <1>1, <1>2, <1>5, StampedEvents DEF LiveEvents
<1>6. CASE Valid(r.cmd)
  <2>1. LiveEvents(r) = Stamped(r.seq, r.cmd, evs) \o <<CmdEnd(r.seq)>>
    BY <1>6 DEF LiveEvents
  <2> QED
    BY <1>1, <1>4, <2>1, EndedEvents
<1> QED
  BY <1>5, <1>6

-----------------------------------------------------------------------------
(* Type correctness *)

\* The publisher runs only while the symbol is open.
PubNeedsActor == pc \in {"down", "replay"} => pub = "off"

\* What a closed reader still holds came out of the file.
HeldInFile == pub = "blind" => held <= Len(evFile.recs)

\* TypeOK speaks of everything but the book, whose type TLC cannot enumerate
\* cheaply; the proof needs both, and that the publisher reads inside the file.
TypeInv == TypeOK /\ book \in Books /\ PubNeedsActor /\ HeldInFile

\* ScanAndRepairOutbox cuts behind a CmdEnd, or nowhere.
LEMMA RepairedProperties ==
  ASSUME NEW f, IsFile(f, EvRec)
  PROVE  /\ IsFile(Repaired(f), EvRec)
         /\ CompleteSeq(f) \in Nat
         /\ Repaired(f).recs \in Seq(EvRec)
         /\ \/ Ends(f) = {} /\ Repaired(f) = f
            \/ /\ LastEnd(f) \in Ends(f)
               /\ \A j \in Ends(f) : j <= LastEnd(f)
               /\ Repaired(f).recs = Prefix(f.recs, LastEnd(f))
<1>0. f.recs \in Seq(EvRec) /\ Len(f.recs) \in Nat
  BY FileFields
<1>1. CASE Ends(f) = {}
  BY <1>0, <1>1 DEF Repaired, CompleteSeq
<1>2. CASE Ends(f) # {}
  <2>1. Ends(f) \subseteq 1..Len(f.recs)
    BY DEF Ends
  <2>2. \E k \in Ends(f) : \A j \in Ends(f) : j <= k
    BY <1>0, <1>2, <2>1, BoundedMax
  <2>3. LastEnd(f) \in Ends(f) /\ \A j \in Ends(f) : j <= LastEnd(f)
    BY <2>2 DEF LastEnd
  <2>4. LastEnd(f) \in 0..Len(f.recs) /\ LastEnd(f) \in 1..Len(f.recs)
    BY <1>0, <2>1, <2>3
  <2>5. f.recs[LastEnd(f)] \in EvRec
    BY <1>0, <2>4, ElementOfSeq
  <2>6. CompleteSeq(f) \in Nat
    BY <1>2, <2>5 DEF CompleteSeq, EvRec, EndRec, Event
  <2>7. Repaired(f) = TruncatedTo(f, LastEnd(f))
    BY <1>2 DEF Repaired
  <2>8. /\ IsFile(Repaired(f), EvRec)
        /\ Repaired(f).recs = Prefix(f.recs, LastEnd(f))
    BY <2>4, <2>7, TruncatedToProperties
  <2> QED
    BY <2>3, <2>6, <2>8, FileFields
<1> QED
  BY <1>1, <1>2

LEMMA InitTypeInv == Init => TypeInv
BY EmptyIsFile, EmptySeq, BookAssumption DEF Init, TypeInv, TypeOK, PubNeedsActor, HeldInFile

\* The records an action reads exist and are typed.
LEMMA NextCmdTyped ==
  ASSUME TypeInv, ri < Readable(cmdFile)
  PROVE  /\ ri + 1 \in 1..Len(cmdFile.recs)
         /\ cmdFile.recs[ri + 1] \in CmdRec
<1>1. IsFile(cmdFile, CmdRec) /\ ri \in Nat
  BY DEF TypeInv, TypeOK
<1>2. Readable(cmdFile) \in 0..Len(cmdFile.recs) /\ Len(cmdFile.recs) \in Nat
  BY <1>1, ReadableBound, FileFields
<1>3. ri + 1 \in 1..Len(cmdFile.recs)
  BY <1>1, <1>2
<1> QED
  BY <1>1, <1>3, FileFields, ElementOfSeq

LEMMA NextEvTyped ==
  ASSUME TypeInv, rd < Deliverable
  PROVE  /\ rd + 1 \in 1..Len(evFile.recs)
         /\ evFile.recs[rd + 1] \in EvRec
<1>1. IsFile(evFile, EvRec) /\ rd \in Nat /\ held \in Nat
  BY DEF TypeInv, TypeOK
<1>2. Deliverable \in 0..Len(evFile.recs) /\ Len(evFile.recs) \in Nat
  BY <1>1, ReadableBound, FileFields DEF Deliverable, TypeInv, HeldInFile
<1>3. rd + 1 \in 1..Len(evFile.recs)
  BY <1>1, <1>2
<1> QED
  BY <1>1, <1>3, FileFields, ElementOfSeq

\* The batch TakeBatch makes: the first n commands of the mailbox, numbered on
\* from seq; n is at least 1.
LEMMA TakeBatchProperties ==
  ASSUME TypeInv, TakeBatch
  PROVE  /\ batch' \in Seq(CmdRec) /\ Len(batch') \in Nat
         /\ cmdBuf' = batch'
         /\ seq' = seq + Len(batch')
         /\ \A k \in 1..Len(batch') : batch'[k].seq = seq + k
         /\ mailbox' \in Seq(Commands)
<1> DEFINE n == IF Len(mailbox) < BatchMax THEN Len(mailbox) ELSE BatchMax
<1>1. mailbox \in Seq(Commands) /\ Len(mailbox) \in Nat /\ seq \in Nat
  BY LenProperties DEF TypeInv, TypeOK
<1>2. n \in Nat /\ n <= Len(mailbox)
  BY <1>1, BoundsAssumption
<1>3. /\ batch' = [k \in 1..n |-> [seq |-> seq + k, cmd |-> mailbox[k]]]
      /\ seq' = seq + n
      /\ mailbox' = SubSeq(mailbox, n + 1, Len(mailbox))
      /\ cmdBuf' = batch'
  BY DEF TakeBatch
<1> HIDE DEF n
<1>4. \A k \in 1..n : mailbox[k] \in Commands
  BY <1>1, <1>2, ElementOfSeq
<1>5. batch' \in [1..n -> CmdRec]
  BY <1>1, <1>2, <1>3, <1>4 DEF CmdRec
<1>6. batch' \in Seq(CmdRec) /\ Len(batch') = n
  BY <1>2, <1>5, FunIsSeq
<1>7. \A i \in (n + 1)..Len(mailbox) : mailbox[i] \in Commands
  BY <1>1, <1>2, ElementOfSeq
<1>8. mailbox' \in Seq(Commands)
  BY <1>1, <1>2, <1>3, <1>7, SubSeqProperties
<1> QED
  BY <1>2, <1>3, <1>6, <1>8

\* Every step keeps the types: one case per action.
LEMMA NextTyped ==
  ASSUME TypeInv, [Next]_vars
  PROVE  TypeOK' /\ book' \in Books
<1> USE DEF disk, actor, recov, pubv, hist
<1>0. /\ IsFile(cmdFile, CmdRec) /\ cmdBuf \in Seq(CmdRec)
      /\ IsFile(evFile, EvRec) /\ evBuf \in Seq(EvRec)
      /\ cmdFile.recs \in Seq(CmdRec) /\ evFile.recs \in Seq(EvRec)
      /\ Len(evFile.recs) \in Nat
  BY FileFields DEF TypeInv, TypeOK
<1>1. CASE Open
  BY <1>0, <1>1, RepairedProperties, BookAssumption DEF Open, TypeInv, TypeOK
<1>2. CASE ReplayRecord
  <2>1. PICK r \in CmdRec :
          /\ book' = Apply(book, r.cmd).book
          /\ evBuf' = IF r.seq <= complete THEN evBuf ELSE evBuf \o ReplayEvents(r)
          /\ seq' = IF r.seq > seq THEN r.seq ELSE seq
    BY <1>2, NextCmdTyped DEF ReplayRecord
  <2>2. r.seq \in Nat /\ r.cmd \in Commands
    BY DEF CmdRec
  <2>3. book' \in Books
    BY <2>1, <2>2, BookAssumption DEF TypeInv
  <2>4. evBuf' \in Seq(EvRec)
    BY <1>0, <2>1, ReplayEventsProperties, ConcatProperties DEF TypeInv
  <2>5. seq' \in Nat
    BY <2>1, <2>2 DEF TypeInv, TypeOK
  <2> QED
    BY <1>2, <2>3, <2>4, <2>5 DEF ReplayRecord, TypeInv, TypeOK
<1>3. CASE ReplayFails
  BY <1>0, <1>3, FlushedProperties, EmptySeq DEF ReplayFails, TypeInv, TypeOK
<1>4. CASE Start
  BY <1>0, <1>4, FlushedProperties, EmptySeq DEF Start, TypeInv, TypeOK
<1>5. ASSUME NEW c \in Commands, TryEnqueue(c) PROVE TypeOK' /\ book' \in Books
  BY <1>5, AppendProperties DEF TryEnqueue, TypeInv, TypeOK
<1>6. CASE TakeBatch
  <2>1. seq' \in Nat
    BY <1>6, TakeBatchProperties DEF TypeInv, TypeOK
  <2> QED
    BY <1>6, <2>1, TakeBatchProperties DEF TakeBatch, TypeInv, TypeOK
<1>7. CASE FlushCmd
  BY <1>0, <1>7, FlushedProperties, EmptySeq DEF FlushCmd, TypeInv, TypeOK
<1>8. CASE ApplyCmd
  <2>1. Head(batch) \in CmdRec /\ Tail(batch) \in Seq(CmdRec)
    BY <1>8, HeadTailProperties DEF ApplyCmd, TypeInv, TypeOK
  <2>2. Head(batch).cmd \in Commands
    BY <2>1 DEF CmdRec
  <2>3. book' \in Books
    BY <1>8, <2>2, BookAssumption DEF ApplyCmd, TypeInv
  <2>4. evBuf' \in Seq(EvRec)
    BY <1>0, <1>8, <2>1, LiveEventsProperties, ConcatProperties DEF ApplyCmd, TypeInv
  <2> QED
    BY <1>8, <2>1, <2>3, <2>4 DEF ApplyCmd, TypeInv, TypeOK
<1>9. CASE FlushEv
  BY <1>0, <1>9, FlushedProperties, EmptySeq DEF FlushEv, TypeInv, TypeOK
<1>10. CASE SpillEv
  <2>1. PICK k \in 1..Len(evBuf) :
          /\ evFile' = Write(evFile, Prefix(evBuf, k), "clean")
          /\ evBuf' = SubSeq(evBuf, k + 1, Len(evBuf))
    BY <1>10 DEF SpillEv
  <2>2. Len(evBuf) \in Nat
    BY <1>0, LenProperties
  <2>3. Prefix(evBuf, k) \in Seq(EvRec)
    BY <1>0, <2>2, PrefixProperties
  <2>4. IsFile(evFile', EvRec)
    BY <1>0, <2>1, <2>3, WriteProperties DEF Tails
  <2>5. \A i \in (k + 1)..Len(evBuf) : evBuf[i] \in EvRec
    BY <1>0, <2>2, ElementOfSeq
  <2>6. evBuf' \in Seq(EvRec)
    BY <2>1, <2>2, <2>5, SubSeqProperties
  <2> QED
    BY <1>10, <2>4, <2>6 DEF SpillEv, TypeInv, TypeOK
<1>11. CASE PubStart
  BY <1>0, <1>11 DEF PubStart, TypeInv, TypeOK
<1>12. CASE PublishEvent
  <2>1. evFile.recs[rd + 1] \in Event
    BY <1>12, NextEvTyped, EndsAndEvents DEF PublishEvent
  <2>2. evFile.recs[rd + 1].seq \in Nat
    BY <2>1 DEF Event
  <2> QED
    BY <1>12, <2>1, <2>2 DEF PublishEvent, TypeInv, TypeOK
<1>13. CASE CommitCursor
  BY <1>13 DEF CommitCursor, TypeInv, TypeOK
<1>14. CASE ReaderCloses
  BY <1>14 DEF ReaderCloses, TypeInv, TypeOK
<1>21. CASE ReaderStumbles
  BY <1>0, <1>21 DEF ReaderStumbles, TypeInv, TypeOK
<1>15. CASE Stop
  BY <1>15, EmptySeq DEF Stop, Halt, TypeInv, TypeOK
<1>16. CASE Crash
  <2>1. IsFile(cmdFile', CmdRec) /\ IsFile(evFile', EvRec)
    BY <1>0, <1>16, PartialWritesProperties DEF Crash
  <2> QED
    BY <1>16, <2>1, EmptySeq DEF Crash, Halt, TypeInv, TypeOK
<1>17. CASE PowerLoss
  <2>1. IsFile(cmdFile', CmdRec) /\ IsFile(evFile', EvRec)
    BY <1>0, <1>17, PartialWritesProperties, PowerCutsProperties DEF PowerLoss
  <2>2. cursor' \in Nat
    BY <1>17 DEF PowerLoss, TypeInv, TypeOK
  <2> QED
    BY <1>17, <2>1, <2>2, EmptySeq DEF PowerLoss, Halt, TypeInv, TypeOK
<1>18. CASE WriteFails
  <2>1. IsFile(cmdFile', CmdRec) /\ IsFile(evFile', EvRec)
    BY <1>0, <1>18, PartialWritesProperties DEF WriteFails
  <2> QED
    BY <1>18, <2>1, EmptySeq DEF WriteFails, TypeInv, TypeOK
<1>19. CASE FillFails
  <2>1. IsFile(evFile', EvRec)
    BY <1>0, <1>19, PartialWritesProperties DEF FillFails
  <2> QED
    BY <1>19, <2>1, EmptySeq DEF FillFails, TypeInv, TypeOK
<1>20. CASE UNCHANGED vars
  BY <1>20 DEF vars, TypeInv, TypeOK
<1> QED
  BY <1>1, <1>2, <1>3, <1>4, <1>5, <1>6, <1>7, <1>8, <1>9, <1>10, <1>11, <1>12,
     <1>13, <1>14, <1>15, <1>16, <1>17, <1>18, <1>19, <1>20, <1>21 DEF Next

\* Every way of writing to the outbox only lengthens it.
LEMMA EvGrown ==
  ASSUME TypeInv, NEW n \in 0..Len(evBuf), NEW g, g.recs = evFile.recs \o Prefix(evBuf, n)
  PROVE  Grown(evFile.recs, g.recs)
<1>1. evFile.recs \in Seq(EvRec) /\ evBuf \in Seq(EvRec)
  BY FileFields DEF TypeInv, TypeOK
<1> QED
  BY <1>1, ConcatPrefix DEF Grown

LEMMA FlushedGrown ==
  ASSUME TypeInv
  PROVE  Grown(evFile.recs, Flushed(evFile, evBuf).recs)
<1>1. IsFile(evFile, EvRec) /\ evBuf \in Seq(EvRec) /\ Len(evBuf) \in Nat
  BY LenProperties DEF TypeInv, TypeOK
<1>2. evBuf = Prefix(evBuf, Len(evBuf))
  BY <1>1, SubSeqFull DEF Prefix
<1>3. Flushed(evFile, evBuf).recs = evFile.recs \o Prefix(evBuf, Len(evBuf))
  BY <1>1, <1>2, FlushedProperties
<1>4. Len(evBuf) \in 0..Len(evBuf)
  BY <1>1
<1> QED
  BY <1>3, <1>4, EvGrown

LEMMA PartialGrown ==
  ASSUME TypeInv, NEW torn, NEW g \in PartialWrites(evFile, evBuf, torn)
  PROVE  Grown(evFile.recs, g.recs)
<1>1. IsFile(evFile, EvRec) /\ evBuf \in Seq(EvRec)
  BY DEF TypeInv, TypeOK
<1>2. PICK n \in 0..Len(evBuf) : g.recs = evFile.recs \o Prefix(evBuf, n)
  BY <1>1, PartialWritesProperties
<1> QED
  BY <1>2, EvGrown

\* The publisher runs only while the symbol is open, and the outbox is not cut
\* while it runs.
LEMMA NextHeld ==
  ASSUME TypeInv, [Next]_vars
  PROVE  PubNeedsActor' /\ HeldInFile'
<1> USE DEF disk, actor, recov, pubv, hist
<1>0. PubNeedsActor /\ HeldInFile /\ Len(evFile.recs) \in Nat /\ held \in Nat
  BY FileFields DEF TypeInv, TypeOK
<1>1. ASSUME pub' # "blind", pc' \in {"down", "replay"} => pub' = "off"
      PROVE  PubNeedsActor' /\ HeldInFile'
  BY <1>1 DEF PubNeedsActor, HeldInFile
<1>2. ASSUME UNCHANGED <<pub, held>>, UNCHANGED pc \/ pc' \in {"log", "apply", "idle", "dead"},
             UNCHANGED evFile \/ Grown(evFile.recs, evFile'.recs)
      PROVE  PubNeedsActor' /\ HeldInFile'
  BY <1>0, <1>2 DEF PubNeedsActor, HeldInFile, Grown
<1>3. CASE Open \/ ReplayRecord \/ ReplayFails \/ FillFails
  BY <1>0, <1>1, <1>3 DEF Open, ReplayRecord, ReplayFails, FillFails, PubNeedsActor
<1>4. CASE Start \/ Stop \/ Crash \/ PowerLoss
  BY <1>1, <1>4 DEF Start, Stop, Crash, PowerLoss, Halt
<1>5. CASE (\E c \in Commands : TryEnqueue(c)) \/ TakeBatch \/ FlushCmd \/ ApplyCmd
  BY <1>2, <1>5 DEF TryEnqueue, TakeBatch, FlushCmd, ApplyCmd
<1>6. CASE FlushEv
  BY <1>2, <1>6, FlushedGrown DEF FlushEv
<1>7. CASE SpillEv
  <2>1. PICK k \in 1..Len(evBuf) : evFile' = Write(evFile, Prefix(evBuf, k), "clean")
    BY <1>7 DEF SpillEv
  <2>2. k \in 0..Len(evBuf) /\ evFile'.recs = evFile.recs \o Prefix(evBuf, k)
    BY <2>1, LenProperties DEF Write, TypeInv, TypeOK
  <2>3. Grown(evFile.recs, evFile'.recs)
    BY <2>2, EvGrown
  <2> QED
    BY <1>2, <1>7, <2>3 DEF SpillEv
<1>8. CASE WriteFails
  <2>1. UNCHANGED evFile \/ Grown(evFile.recs, evFile'.recs)
    BY <1>8, PartialGrown DEF WriteFails
  <2> QED
    BY <1>2, <1>8, <2>1 DEF WriteFails
<1>9. CASE PubStart \/ ReaderCloses
  BY <1>0, <1>1, <1>9 DEF PubStart, ReaderCloses, Reading, PubNeedsActor
<1>10. CASE PublishEvent \/ CommitCursor \/ UNCHANGED vars
  BY <1>2, <1>10 DEF PublishEvent, CommitCursor, vars
<1>11. CASE ReaderStumbles
  BY <1>0, <1>11 DEF ReaderStumbles, PubNeedsActor, HeldInFile
<1> QED
  BY <1>3, <1>4, <1>5, <1>6, <1>7, <1>8, <1>9, <1>10, <1>11 DEF Next

LEMMA NextTypeInv ==
  ASSUME TypeInv, [Next]_vars
  PROVE  TypeInv'
BY NextTyped, NextHeld DEF TypeInv

\* Type correctness: log records, events, numbers and cursors keep their types
\* through every step of the clients, the actor, the publisher, the recovery and
\* the faults; an event's index is never negative and a CmdEnd never published.
THEOREM TypeCorrect == Spec => []TypeOK
<1>1. Spec => []TypeInv
  BY InitTypeInv, NextTypeInv, PTL DEF Spec
<1>2. TypeInv => TypeOK
  BY DEF TypeInv
<1> QED
  BY <1>1, <1>2, PTL

-----------------------------------------------------------------------------
(* The command log *)

\* What holds of the log in every case.  The buffer is empty outside phase 1 and
\* holds the batch in it; in phase 2 the commands of the batch are in cmd.wal; and
\* where power can fail, an fsync has covered all of cmd.wal, its gap included.
LogInv ==
  /\ pc # "log" => cmdBuf = <<>>
  /\ pc = "log" => cmdBuf = batch
  /\ pc = "apply" => \A k \in 1..Len(batch) : \E j \in 1..Len(cmdFile.recs) : cmdFile.recs[j] = batch[k]
  /\ "power" \in Faults => /\ cmdFile.synced = Len(cmdFile.recs)
                           /\ cmdFile.gap = NoGap \/ cmdFile.gap < Len(cmdFile.recs)

\* What holds as long as no command is hidden.  Record k of cmd.wal has number k:
\* replayed and live numbers never collide.
CmdsNumbered == \A k \in 1..Len(cmdFile.recs) : cmdFile.recs[k].seq = k

\* The buffer continues the numbers of the file.
BufferNumbered == \A k \in 1..Len(cmdBuf) : cmdBuf[k].seq = Len(cmdFile.recs) + k

\* The actor's counter stands at the end of what it has logged or replayed.
SeqAtEnd ==
  /\ pc = "replay" => seq = ri
  /\ pc \in {"idle", "apply"} => seq = Len(cmdFile.recs)
  /\ pc = "log" => seq = Len(cmdFile.recs) + Len(batch) /\ cmdBuf = batch

\* In phase 2 every command of the batch is in cmd.wal under its number.
BatchInLog ==
  pc = "apply" => \A k \in 1..Len(batch) :
                    /\ batch[k].seq \in 1..Len(cmdFile.recs)
                    /\ cmdFile.recs[batch[k].seq] = batch[k]

CmdInv == CmdsNumbered /\ BufferNumbered /\ SeqAtEnd /\ BatchInLog

\* Power failures do not combine with kills and write errors: a kill leaves
\* records behind that no fsync covered and that the recovery replays anyway.
CleanFaults == "power" \notin Faults \/ ("crash" \notin Faults /\ "io" \notin Faults)

LEMMA InitLogInv == Init => LogInv
BY EmptyIsFile DEF Init, LogInv, EmptyFile

LEMMA InitCmdInv == Init => CmdInv
BY EmptyIsFile DEF Init, CmdInv, CmdsNumbered, BufferNumbered, SeqAtEnd, BatchInLog

\* The command log, as each step leaves it: longer, with its gap where it was.
LEMMA CmdsMove ==
  ASSUME TypeInv, LogInv, CleanFaults, [Next]_vars
  PROVE  /\ cmdFile'.recs \in Seq(CmdRec) /\ Grown(cmdFile.recs, cmdFile'.recs)
         /\ KeepsGap(cmdFile, cmdFile')
         /\ "power" \in Faults => /\ cmdFile'.synced = Len(cmdFile'.recs)
                                  /\ cmdFile'.gap = NoGap \/ cmdFile'.gap < Len(cmdFile'.recs)
<1> USE DEF disk, actor, recov, pubv, hist
<1> DEFINE P == /\ Grown(cmdFile.recs, cmdFile'.recs) /\ KeepsGap(cmdFile, cmdFile')
                /\ "power" \in Faults => /\ cmdFile'.synced = Len(cmdFile'.recs)
                                         /\ cmdFile'.gap = NoGap \/ cmdFile'.gap < Len(cmdFile'.recs)
<1>0. /\ IsFile(cmdFile, CmdRec) /\ cmdFile.recs \in Seq(CmdRec) /\ Len(cmdFile.recs) \in Nat
      /\ cmdBuf \in Seq(CmdRec) /\ Len(cmdBuf) \in Nat /\ cmdFile.gap \in Int
  BY FileFields, LenProperties DEF TypeInv, TypeOK
<1>1. cmdFile'.recs \in Seq(CmdRec) /\ Len(cmdFile'.recs) \in Nat
  BY NextTypeInv, FileFields DEF TypeInv, TypeOK
<1>2. ASSUME NEW n \in 0..Len(cmdBuf), NEW g, g.recs = cmdFile.recs \o Prefix(cmdBuf, n)
      PROVE  Len(g.recs) = Len(cmdFile.recs) + n /\ Grown(cmdFile.recs, g.recs)
  <2>1. cmdFile.recs \in Seq(CmdRec) /\ cmdBuf \in Seq(CmdRec)
    BY <1>0
  <2>2. /\ Len(g.recs) = Len(cmdFile.recs) + n
        /\ \A k \in 1..Len(cmdFile.recs) : g.recs[k] = cmdFile.recs[k]
    BY <1>2, <2>1, ConcatPrefix
  <2> QED
    BY <1>0, <2>2 DEF Grown
<1>3. ASSUME FlushCmd PROVE P
  <2>1. /\ cmdFile'.recs = cmdFile.recs \o cmdBuf /\ cmdFile'.synced = Len(cmdFile'.recs)
        /\ KeepsGap(cmdFile, cmdFile')
    BY <1>0, <1>3, FlushedProperties DEF FlushCmd
  <2>2. cmdBuf = Prefix(cmdBuf, Len(cmdBuf)) /\ Len(cmdBuf) \in 0..Len(cmdBuf)
    BY <1>0, SubSeqFull DEF Prefix
  <2>3. Len(cmdFile'.recs) = Len(cmdFile.recs) + Len(cmdBuf) /\ Grown(cmdFile.recs, cmdFile'.recs)
    BY <1>2, <2>1, <2>2
  <2>4. ASSUME "power" \in Faults PROVE cmdFile'.gap = NoGap \/ cmdFile'.gap < Len(cmdFile'.recs)
    <3>1. CASE cmdBuf = <<>>
      <4>1. cmdFile'.gap = cmdFile.gap
        BY <1>3, <3>1, SyncProperties, <1>0 DEF FlushCmd, Flushed
      <4> QED
        BY <1>0, <2>3, <2>4, <4>1 DEF LogInv
    <3>2. CASE cmdBuf # <<>>
      <4>1. Len(cmdBuf) > 0
        BY <1>0, <3>2, EmptySeq
      <4>2. cmdFile'.gap = Write(cmdFile, cmdBuf, "clean").gap
        <5>1. IsFile(Write(cmdFile, cmdBuf, "clean"), CmdRec)
          BY <1>0, WriteProperties DEF Tails
        <5> QED
          BY <1>3, <3>2, <5>1, SyncProperties DEF FlushCmd, Flushed
      <4>3. cmdFile'.gap = cmdFile.gap \/ cmdFile'.gap = Len(cmdFile.recs)
        BY <4>2 DEF Write
      <4> QED
        BY <1>0, <2>3, <2>4, <4>1, <4>3 DEF LogInv
    <3> QED
      BY <3>1, <3>2
  <2> QED
    BY <2>1, <2>3, <2>4
<1>a. ASSUME NEW torn, NEW g \in PartialWrites(cmdFile, cmdBuf, torn)
      PROVE  /\ IsFile(g, CmdRec) /\ g.synced = cmdFile.synced /\ KeepsGap(cmdFile, g)
             /\ Grown(cmdFile.recs, g.recs)
  <2>1. /\ IsFile(g, CmdRec) /\ g.synced = cmdFile.synced /\ KeepsGap(cmdFile, g)
        /\ \E n \in 0..Len(cmdBuf) : g.recs = cmdFile.recs \o Prefix(cmdBuf, n)
    BY <1>0, PartialWritesProperties
  <2> QED
    BY <1>2, <2>1
<1>4. ASSUME "power" \notin Faults, cmdFile' \in PartialWrites(cmdFile, cmdBuf, "torn" \in Faults)
      PROVE  P
  BY <1>4, <1>a
<1>5. ASSUME Crash PROVE P
  BY <1>4, <1>5 DEF Crash, CleanFaults
<1>6. ASSUME PowerLoss PROVE P
  <2>1. PICK f \in PartialWrites(cmdFile, cmdBuf, FALSE) : cmdFile' \in PowerCuts(f, "torn" \in Faults)
    BY <1>6 DEF PowerLoss
  <2>2. /\ IsFile(f, CmdRec) /\ f.synced = cmdFile.synced /\ KeepsGap(cmdFile, f)
        /\ f.recs \in Seq(CmdRec) /\ Len(f.recs) \in Nat /\ Grown(cmdFile.recs, f.recs)
    BY <1>a, <2>1, FileFields
  <2>3. ASSUME NEW torn, NEW g \in PowerCuts(f, torn)
        PROVE  /\ g.synced = Len(g.recs)
               /\ g.gap = NoGap \/ g.gap < Len(g.recs)
               /\ f.gap # NoGap /\ f.gap < f.synced => KeepsGap(f, g)
               /\ \E m \in 0..Len(f.recs) : f.synced <= m /\ g.recs = Prefix(f.recs, m)
    BY <2>2, PowerCutsProperties
  <2>4. /\ cmdFile'.synced = Len(cmdFile'.recs)
        /\ cmdFile'.gap = NoGap \/ cmdFile'.gap < Len(cmdFile'.recs)
        /\ f.gap # NoGap /\ f.gap < f.synced => KeepsGap(f, cmdFile')
    BY <2>1, <2>3
  <2>5. PICK m \in 0..Len(f.recs) : f.synced <= m /\ cmdFile'.recs = Prefix(f.recs, m)
    BY <2>1, <2>3
  <2>6. cmdFile.synced = Len(cmdFile.recs) /\ (cmdFile.gap = NoGap \/ cmdFile.gap < Len(cmdFile.recs))
    BY <1>6 DEF LogInv, PowerLoss
  <2>7. Len(cmdFile'.recs) = m /\ \A k \in 1..m : cmdFile'.recs[k] = f.recs[k]
    BY <2>2, <2>5, PrefixProperties
  <2>8. Grown(cmdFile.recs, cmdFile'.recs)
    BY <1>0, <1>1, <2>2, <2>5, <2>6, <2>7 DEF Grown
  <2>9. KeepsGap(cmdFile, cmdFile')
    BY <2>2, <2>4, <2>6 DEF KeepsGap
  <2> QED
    BY <2>4, <2>8, <2>9
<1>7. ASSUME UNCHANGED cmdFile PROVE P
  BY <1>0, <1>7 DEF Grown, KeepsGap, LogInv
<1>8. ASSUME WriteFails PROVE P
  BY <1>4, <1>7, <1>8 DEF WriteFails, CleanFaults
<1> HIDE DEF P
<1>9. ASSUME Open \/ ReplayRecord \/ ReplayFails \/ Start \/ (\E c \in Commands : TryEnqueue(c)) \/ TakeBatch
      PROVE  P
  BY <1>7, <1>9 DEF Open, ReplayRecord, ReplayFails, Start, TryEnqueue, TakeBatch
<1>10. ASSUME ApplyCmd \/ FlushEv \/ SpillEv \/ PubStart \/ PublishEvent \/ CommitCursor
      PROVE  P
  BY <1>7, <1>10 DEF ApplyCmd, FlushEv, SpillEv, PubStart, PublishEvent, CommitCursor
<1>11. ASSUME ReaderStumbles \/ ReaderCloses \/ Stop \/ FillFails \/ UNCHANGED vars
      PROVE  P
  BY <1>7, <1>11 DEF ReaderStumbles, ReaderCloses, Stop, FillFails, vars
<1>12. P
  BY <1>3, <1>5, <1>6, <1>8, <1>9, <1>10, <1>11 DEF Next, P
<1> QED
  BY <1>1, <1>12 DEF P

\* cmd.wal only grows.
LEMMA CmdsGrow ==
  ASSUME TypeInv, LogInv, CleanFaults, [Next]_vars
  PROVE  cmdFile'.recs \in Seq(CmdRec) /\ Grown(cmdFile.recs, cmdFile'.recs)
BY CmdsMove

\* What is hidden stays hidden.
LEMMA NoneHiddenBefore ==
  ASSUME TypeInv, LogInv, CleanFaults, [Next]_vars, NoneHidden'
  PROVE  NoneHidden
BY CmdsMove DEF NoneHidden, Hides, KeepsGap

\* The replay of a log in which nothing is hidden reads it to its end.
LEMMA StartReads ==
  ASSUME NoneHidden, Start
  PROVE  ri = Len(cmdFile.recs)
BY DEF Start, ReplayOk, Readable, NoneHidden, Hides

\* The unconditional part is kept by every step.
LEMMA NextLogInv ==
  ASSUME TypeInv, LogInv, CleanFaults, [Next]_vars
  PROVE  LogInv'
<1> USE DEF disk, actor, recov, pubv, hist
<1>0. /\ cmdFile.recs \in Seq(CmdRec) /\ Len(cmdFile.recs) \in Nat
      /\ batch \in Seq(CmdRec) /\ Len(batch) \in Nat
      /\ Grown(cmdFile.recs, cmdFile'.recs)
  BY CmdsGrow, FileFields, LenProperties DEF TypeInv, TypeOK
<1>1. "power" \in Faults => /\ cmdFile'.synced = Len(cmdFile'.recs)
                            /\ cmdFile'.gap = NoGap \/ cmdFile'.gap < Len(cmdFile'.recs)
  BY CmdsMove
<1>a. ASSUME pc' \notin {"log", "apply"}, cmdBuf' = <<>> PROVE LogInv'
  BY <1>1, <1>a DEF LogInv
<1>b. ASSUME UNCHANGED <<cmdFile, cmdBuf, pc, batch>> PROVE LogInv'
  BY <1>1, <1>b DEF LogInv
<1>2. CASE Open \/ ReplayRecord \/ ReplayFails \/ Start \/ FlushEv
  BY <1>a, <1>2 DEF Open, ReplayRecord, ReplayFails, Start, FlushEv, LogInv
<1>3. CASE Stop \/ Crash \/ PowerLoss \/ WriteFails
  BY <1>a, <1>3 DEF Stop, Crash, PowerLoss, WriteFails, Halt
<1>4. CASE FillFails
  BY <1>a, <1>4 DEF FillFails, LogInv
<1>5. CASE (\E c \in Commands : TryEnqueue(c)) \/ SpillEv \/ PubStart \/ PublishEvent \/ CommitCursor
  BY <1>b, <1>5 DEF TryEnqueue, SpillEv, PubStart, PublishEvent, CommitCursor
<1>6. CASE ReaderStumbles \/ ReaderCloses \/ UNCHANGED vars
  BY <1>b, <1>6 DEF ReaderStumbles, ReaderCloses, vars
<1>7. CASE TakeBatch
  BY <1>1, <1>7 DEF TakeBatch, LogInv
<1>8. CASE FlushCmd
  <2>1. pc = "log" /\ pc' = "apply" /\ cmdBuf' = <<>> /\ UNCHANGED batch /\ cmdBuf = batch
    BY <1>8 DEF FlushCmd, LogInv
  <2>2. cmdFile'.recs = cmdFile.recs \o batch
    BY <1>8, <2>1, FlushedProperties DEF FlushCmd, TypeInv, TypeOK
  <2>4. /\ Len(cmdFile'.recs) = Len(cmdFile.recs) + Len(batch)
        /\ \A k \in 1..Len(batch) : cmdFile'.recs[Len(cmdFile.recs) + k] = batch[k]
    <3>1. /\ Len(cmdFile.recs \o batch) = Len(cmdFile.recs) + Len(batch)
          /\ \A k \in 1..Len(batch) :
               (cmdFile.recs \o batch)[Len(cmdFile.recs) + k] = batch[k]
      BY <1>0, ConcatWhole
    <3> QED
      BY <2>2, <3>1, Zenon
  <2>5. ASSUME NEW k \in 1..Len(batch)
        PROVE  \E j \in 1..Len(cmdFile'.recs) : cmdFile'.recs[j] = batch[k]
    <3>1. Len(cmdFile.recs) + k \in 1..Len(cmdFile'.recs)
      BY <1>0, <2>4
    <3> QED
      BY <2>4, <3>1
  <2> QED
    BY <1>1, <2>1, <2>5 DEF LogInv
<1>9. CASE ApplyCmd
  <2>1. /\ pc = "apply" /\ batch # <<>> /\ batch' = Tail(batch)
        /\ UNCHANGED <<cmdFile, cmdBuf, pc>>
    BY <1>9 DEF ApplyCmd
  <2>2. /\ Len(Tail(batch)) = Len(batch) - 1
        /\ \A k \in 1..Len(Tail(batch)) : Tail(batch)[k] = batch[k + 1]
    BY <1>0, <2>1, HeadTailProperties
  <2>3. \A k \in 1..Len(Tail(batch)) : k + 1 \in 1..Len(batch)
    BY <1>0, <2>2
  <2> QED
    BY <1>1, <2>1, <2>2, <2>3 DEF LogInv
<1> QED
  BY <1>2, <1>3, <1>4, <1>5, <1>6, <1>7, <1>8, <1>9 DEF Next

\* Whatever prefix t of its buffer reaches cmd.wal, the numbers stay in step.
LEMMA NumberedAppend ==
  ASSUME NEW s \in Seq(CmdRec), NEW t \in Seq(CmdRec), NEW n \in 0..Len(t),
         \A k \in 1..Len(s) : s[k].seq = k,
         \A k \in 1..Len(t) : t[k].seq = Len(s) + k
  PROVE  \A k \in 1..(Len(s) + n) : (s \o Prefix(t, n))[k].seq = k
<1>1. Len(s) \in Nat /\ Len(t) \in Nat
  BY LenProperties
<1>0. /\ \A k \in 1..Len(s) : (s \o Prefix(t, n))[k] = s[k]
      /\ \A k \in 1..n : (s \o Prefix(t, n))[Len(s) + k] = t[k]
  BY ConcatPrefix
<1>2. SUFFICES ASSUME NEW k \in 1..(Len(s) + n)
               PROVE  (s \o Prefix(t, n))[k].seq = k
  OBVIOUS
<1>3. CASE k <= Len(s)
  <2>1. k \in 1..Len(s)
    BY <1>1, <1>3
  <2> QED
    BY <2>1, <1>0
<1>4. CASE ~(k <= Len(s))
  <2>1. PICK j \in 1..n : k = Len(s) + j
    <3>1. k - Len(s) \in 1..n /\ k = Len(s) + (k - Len(s))
      BY <1>1, <1>4
    <3> QED
      BY <3>1
  <2>2. (s \o Prefix(t, n))[k] = t[j]
    <3>1. (s \o Prefix(t, n))[Len(s) + j] = t[j]
      BY <1>0
    <3> QED
      BY <2>1, <3>1, Zenon
  <2>3. j \in 1..Len(t)
    BY <1>1
  <2> QED
    BY <2>1, <2>2, <2>3
<1> QED
  BY <1>3, <1>4

\* The same for what an interrupted write or a power cut leaves of cmd.wal.
LEMMA PartialNumbered ==
  ASSUME TypeInv, CmdInv, NEW torn, NEW g \in PartialWrites(cmdFile, cmdBuf, torn)
  PROVE  /\ IsFile(g, CmdRec) /\ g.synced = cmdFile.synced
         /\ Len(g.recs) >= Len(cmdFile.recs)
         /\ \A k \in 1..Len(cmdFile.recs) : g.recs[k] = cmdFile.recs[k]
         /\ \A k \in 1..Len(g.recs) : g.recs[k].seq = k
<1>1. /\ IsFile(cmdFile, CmdRec) /\ cmdFile.recs \in Seq(CmdRec)
      /\ cmdBuf \in Seq(CmdRec) /\ Len(cmdFile.recs) \in Nat
  BY FileFields DEF TypeInv, TypeOK
<1>2. IsFile(g, CmdRec) /\ g.synced = cmdFile.synced
  BY <1>1, PartialWritesProperties
<1>3. PICK n \in 0..Len(cmdBuf) : g.recs = cmdFile.recs \o Prefix(cmdBuf, n)
  BY <1>1, PartialWritesProperties
<1>4. /\ Len(g.recs) = Len(cmdFile.recs) + n
      /\ \A k \in 1..Len(cmdFile.recs) : g.recs[k] = cmdFile.recs[k]
  <2>1. cmdFile.recs \in Seq(CmdRec) /\ cmdBuf \in Seq(CmdRec)
    BY <1>1
  <2>2. /\ Len(cmdFile.recs \o Prefix(cmdBuf, n)) = Len(cmdFile.recs) + n
        /\ \A k \in 1..Len(cmdFile.recs) :
             (cmdFile.recs \o Prefix(cmdBuf, n))[k] = cmdFile.recs[k]
    BY <2>1, ConcatPrefix
  <2> QED
    BY <1>3, <2>2, Zenon
<1>5. \A k \in 1..(Len(cmdFile.recs) + n) : g.recs[k].seq = k
  BY <1>1, <1>3, NumberedAppend DEF CmdInv, CmdsNumbered, BufferNumbered
<1> QED
  BY <1>1, <1>2, <1>4, <1>5, LenProperties

LEMMA PowerNumbered ==
  ASSUME TypeInv, LogInv, CmdInv, NEW torn, NEW f \in PartialWrites(cmdFile, cmdBuf, FALSE),
         NEW g \in PowerCuts(f, torn), "power" \in Faults
  PROVE  /\ IsFile(g, CmdRec) /\ g.synced = Len(g.recs)
         /\ Len(g.recs) >= Len(cmdFile.recs)
         /\ \A k \in 1..Len(cmdFile.recs) : g.recs[k] = cmdFile.recs[k]
         /\ \A k \in 1..Len(g.recs) : g.recs[k].seq = k
<1>1. /\ IsFile(f, CmdRec) /\ f.synced = cmdFile.synced
      /\ \A k \in 1..Len(cmdFile.recs) : f.recs[k] = cmdFile.recs[k]
      /\ \A k \in 1..Len(f.recs) : f.recs[k].seq = k
  BY PartialNumbered
<1>2. PICK m \in 0..Len(f.recs) : f.synced <= m /\ g.recs = Prefix(f.recs, m)
  BY <1>1, PowerCutsProperties
<1>3. IsFile(g, CmdRec) /\ g.synced = Len(g.recs)
  BY <1>1, PowerCutsProperties
<1>4. f.recs \in Seq(CmdRec) /\ Len(f.recs) \in Nat
  BY <1>1, FileFields
<1>5. Len(g.recs) = m /\ \A k \in 1..m : g.recs[k] = f.recs[k]
  BY <1>2, <1>4, PrefixProperties
<1>6. cmdFile.synced = Len(cmdFile.recs) /\ Len(cmdFile.recs) \in Nat
  BY FileFields DEF LogInv, TypeInv, TypeOK
<1>7. m >= Len(cmdFile.recs)
  BY <1>1, <1>2, <1>6
<1> QED
  BY <1>1, <1>3, <1>4, <1>5, <1>6, <1>7

\* A process that is down, or an actor that has returned, has no numbers to keep.
LEMMA AtRest ==
  ASSUME CmdsNumbered', pc' \in {"down", "dead"}, cmdBuf' = <<>>
  PROVE  CmdInv'
BY DEF CmdInv, BufferNumbered, SeqAtEnd, BatchInLog

LEMMA NextCmdInv ==
  ASSUME TypeInv, LogInv, CmdInv, CleanFaults, NoneHidden, [Next]_vars
  PROVE  CmdInv'
<1> USE DEF disk, actor, recov, pubv, hist
<1>0. /\ IsFile(cmdFile, CmdRec) /\ cmdFile.recs \in Seq(CmdRec)
      /\ cmdBuf \in Seq(CmdRec) /\ batch \in Seq(CmdRec)
      /\ Len(cmdFile.recs) \in Nat /\ Len(batch) \in Nat /\ seq \in Nat /\ ri \in Nat
  BY FileFields, LenProperties DEF TypeInv, TypeOK
<1>a. ASSUME UNCHANGED <<cmdFile, cmdBuf, pc, batch, seq, ri>> PROVE CmdInv'
  BY <1>a DEF CmdInv, CmdsNumbered, BufferNumbered, SeqAtEnd, BatchInLog
<1>b. ASSUME UNCHANGED cmdFile, pc' \in {"down", "dead"}, cmdBuf' = <<>> PROVE CmdInv'
  BY <1>b, AtRest DEF CmdInv, CmdsNumbered
<1>1. CASE Open
  BY <1>1 DEF Open, CmdInv, CmdsNumbered, BufferNumbered, SeqAtEnd, BatchInLog
<1>2. CASE ReplayRecord
  <2>1. ri + 1 \in 1..Len(cmdFile.recs)
    BY <1>2, NextCmdTyped DEF ReplayRecord
  <2>2. cmdFile.recs[ri + 1].seq = ri + 1
    BY <2>1 DEF CmdInv, CmdsNumbered
  <2>3. seq' = ri' /\ UNCHANGED <<cmdFile, cmdBuf, pc, batch>> /\ pc = "replay"
    BY <1>0, <1>2, <2>2 DEF ReplayRecord, CmdInv, SeqAtEnd
  <2> QED
    BY <2>3 DEF CmdInv, CmdsNumbered, BufferNumbered, SeqAtEnd, BatchInLog
<1>3. CASE ReplayFails
  BY <1>3, <1>b DEF ReplayFails, LogInv
<1>4. CASE Start
  <2>1. seq = Len(cmdFile.recs)
    BY <1>4, StartReads DEF Start, CmdInv, SeqAtEnd
  <2> QED
    BY <1>4, <2>1 DEF Start, CmdInv, CmdsNumbered, BufferNumbered, SeqAtEnd, BatchInLog
<1>5. ASSUME NEW c \in Commands, TryEnqueue(c) PROVE CmdInv'
  BY <1>5, <1>a DEF TryEnqueue
<1>6. CASE TakeBatch
  <2>1. seq = Len(cmdFile.recs) /\ UNCHANGED cmdFile /\ pc' = "log"
    BY <1>6 DEF TakeBatch, CmdInv, SeqAtEnd
  <2>2. /\ cmdBuf' = batch' /\ seq' = seq + Len(batch')
        /\ \A k \in 1..Len(batch') : batch'[k].seq = seq + k
    BY <1>6, TakeBatchProperties
  <2> QED
    BY <2>1, <2>2 DEF CmdInv, CmdsNumbered, BufferNumbered, SeqAtEnd, BatchInLog
<1>7. CASE FlushCmd
  <2>1. /\ pc' = "apply" /\ cmdBuf' = <<>> /\ UNCHANGED <<batch, seq>>
        /\ cmdBuf = batch /\ seq = Len(cmdFile.recs) + Len(batch)
        /\ \A k \in 1..Len(batch) : batch[k].seq = Len(cmdFile.recs) + k
    BY <1>7 DEF FlushCmd, CmdInv, SeqAtEnd, BufferNumbered
  <2>2. cmdFile'.recs = cmdFile.recs \o batch /\ cmdFile'.synced = Len(cmdFile'.recs)
    BY <1>0, <1>7, <2>1, FlushedProperties DEF FlushCmd
  <2>3. batch = Prefix(batch, Len(batch))
    BY <1>0, SubSeqFull DEF Prefix
  <2>4. /\ Len(cmdFile'.recs) = Len(cmdFile.recs) + Len(batch)
        /\ \A k \in 1..Len(batch) : cmdFile'.recs[Len(cmdFile.recs) + k] = batch[k]
    <3>1. /\ Len(cmdFile.recs \o batch) = Len(cmdFile.recs) + Len(batch)
          /\ \A k \in 1..Len(batch) :
               (cmdFile.recs \o batch)[Len(cmdFile.recs) + k] = batch[k]
      BY <1>0, ConcatWhole
    <3> QED
      BY <2>2, <3>1, Zenon
  <2>5. \A k \in 1..Len(cmdFile'.recs) : cmdFile'.recs[k].seq = k
    <3>1. Len(batch) \in 0..Len(batch) /\ \A k \in 1..Len(cmdFile.recs) : cmdFile.recs[k].seq = k
      BY <1>0 DEF CmdInv, CmdsNumbered
    <3>2. \A k \in 1..(Len(cmdFile.recs) + Len(batch)) :
            (cmdFile.recs \o Prefix(batch, Len(batch)))[k].seq = k
      BY <1>0, <2>1, <3>1, NumberedAppend
    <3>3. \A k \in 1..(Len(cmdFile.recs) + Len(batch)) : (cmdFile.recs \o batch)[k].seq = k
      BY <2>3, <3>2, Zenon
    <3> QED
      BY <2>2, <2>4, <3>3, Zenon
  <2>6. \A k \in 1..Len(batch) : /\ batch[k].seq \in 1..Len(cmdFile'.recs)
                                 /\ cmdFile'.recs[batch[k].seq] = batch[k]
    BY <1>0, <2>1, <2>4
  <2>7. CmdsNumbered' /\ BatchInLog'
    BY <2>1, <2>5, <2>6 DEF CmdsNumbered, BatchInLog
  <2>8. BufferNumbered'
    <3>1. Len(<<>>) = 0
      OBVIOUS
    <3> QED
      BY <2>1, <3>1 DEF BufferNumbered
  <2>9. SeqAtEnd'
    BY <2>1, <2>4 DEF SeqAtEnd
  <2> QED
    BY <2>7, <2>8, <2>9 DEF CmdInv
<1>8. CASE ApplyCmd
  <2>1. /\ pc = "apply" /\ batch # <<>> /\ batch' = Tail(batch)
        /\ UNCHANGED <<cmdFile, cmdBuf, pc, seq>>
    BY <1>8 DEF ApplyCmd
  <2>2. /\ Len(Tail(batch)) = Len(batch) - 1
        /\ \A k \in 1..Len(Tail(batch)) : Tail(batch)[k] = batch[k + 1]
    BY <1>0, <2>1, HeadTailProperties
  <2>3. \A k \in 1..Len(Tail(batch)) : k + 1 \in 1..Len(batch)
    BY <1>0, <2>2
  <2>4. BatchInLog'
    BY <2>1, <2>2, <2>3 DEF CmdInv, BatchInLog
  <2> QED
    BY <2>1, <2>4 DEF CmdInv, CmdsNumbered, BufferNumbered, SeqAtEnd
<1>9. CASE FlushEv
  BY <1>9 DEF FlushEv, CmdInv, CmdsNumbered, BufferNumbered, SeqAtEnd, BatchInLog
<1>10. CASE SpillEv \/ PubStart \/ PublishEvent \/ CommitCursor \/ ReaderStumbles \/ ReaderCloses \/ UNCHANGED vars
  BY <1>10, <1>a DEF SpillEv, PubStart, PublishEvent, CommitCursor, ReaderStumbles, ReaderCloses, vars
<1>11. CASE Stop
  BY <1>11, <1>b DEF Stop, Halt
<1>12. CASE Crash
  <2>1. CmdsNumbered'
    BY <1>12, PartialNumbered DEF Crash, CleanFaults, CmdsNumbered
  <2> QED
    BY <1>12, <2>1, AtRest DEF Crash, Halt
<1>13. CASE PowerLoss
  <2>1. CmdsNumbered'
    BY <1>13, PowerNumbered DEF PowerLoss, CmdsNumbered
  <2> QED
    BY <1>13, <2>1, AtRest DEF PowerLoss, Halt
<1>14. CASE WriteFails
  <2>1. CASE UNCHANGED cmdFile
    BY <1>14, <2>1, <1>b DEF WriteFails
  <2>2. CASE cmdFile' \in PartialWrites(cmdFile, cmdBuf, "torn" \in Faults)
    <3>1. CmdsNumbered'
      BY <1>14, <2>2, PartialNumbered DEF WriteFails, CleanFaults, CmdsNumbered
    <3> QED
      BY <1>14, <3>1, AtRest DEF WriteFails
  <2> QED
    BY <1>14, <2>1, <2>2 DEF WriteFails
<1>15. CASE FillFails
  BY <1>15, <1>b DEF FillFails, LogInv
<1> QED
  BY <1>1, <1>2, <1>3, <1>4, <1>5, <1>6, <1>7, <1>8, <1>9, <1>10, <1>11, <1>12,
     <1>13, <1>14, <1>15 DEF Next

-----------------------------------------------------------------------------
(* Write-ahead *)

\* No way of writing the outbox, whole, interrupted or cut, invents an event.
LEMMA FlushedEvents ==
  ASSUME TypeInv
  PROVE  EventsIn(Flushed(evFile, evBuf).recs) = EventsIn(evFile.recs) \cup EventsIn(evBuf)
<1>1. IsFile(evFile, EvRec) /\ evFile.recs \in Seq(EvRec) /\ evBuf \in Seq(EvRec)
  BY FileFields DEF TypeInv, TypeOK
<1>2. Flushed(evFile, evBuf).recs = evFile.recs \o evBuf
  BY <1>1, FlushedProperties
<1> QED
  BY <1>1, <1>2, EventsInConcat

LEMMA PartialEvents ==
  ASSUME TypeInv, NEW torn, NEW g \in PartialWrites(evFile, evBuf, torn)
  PROVE  /\ IsFile(g, EvRec)
         /\ EventsIn(g.recs) \subseteq EventsIn(evFile.recs) \cup EventsIn(evBuf)
<1>1. IsFile(evFile, EvRec) /\ evFile.recs \in Seq(EvRec) /\ evBuf \in Seq(EvRec)
  BY FileFields DEF TypeInv, TypeOK
<1>2. PICK n \in 0..Len(evBuf) : g.recs = evFile.recs \o Prefix(evBuf, n)
  BY <1>1, PartialWritesProperties
<1>3. Prefix(evBuf, n) \in Seq(EvRec) /\ EventsIn(Prefix(evBuf, n)) \subseteq EventsIn(evBuf)
  BY <1>1, PrefixProperties, EventsInPrefix
<1> QED
  BY <1>1, <1>2, <1>3, EventsInConcat, PartialWritesProperties

LEMMA PowerEvents ==
  ASSUME TypeInv, NEW torn, NEW f \in PartialWrites(evFile, evBuf, FALSE),
         NEW g \in PowerCuts(f, torn)
  PROVE  EventsIn(g.recs) \subseteq EventsIn(evFile.recs) \cup EventsIn(evBuf)
<1>1. IsFile(f, EvRec) /\ EventsIn(f.recs) \subseteq EventsIn(evFile.recs) \cup EventsIn(evBuf)
  BY PartialEvents
<1>2. PICK m \in 0..Len(f.recs) : g.recs = Prefix(f.recs, m)
  BY <1>1, PowerCutsProperties
<1> QED
  BY <1>1, <1>2, FileFields, EventsInPrefix

LEMMA RepairedEvents ==
  ASSUME TypeInv
  PROVE  EventsIn(Repaired(evFile).recs) \subseteq EventsIn(evFile.recs)
<1>1. IsFile(evFile, EvRec) /\ evFile.recs \in Seq(EvRec) /\ Len(evFile.recs) \in Nat
  BY FileFields DEF TypeInv, TypeOK
<1>2. CASE Repaired(evFile) = evFile
  BY <1>2
<1>3. CASE /\ LastEnd(evFile) \in Ends(evFile)
           /\ Repaired(evFile).recs = Prefix(evFile.recs, LastEnd(evFile))
  <2>1. LastEnd(evFile) \in 0..Len(evFile.recs)
    BY <1>1, <1>3 DEF Ends
  <2> QED
    BY <1>1, <1>3, <2>1, EventsInPrefix
<1> QED
  BY <1>1, <1>2, <1>3, RepairedProperties

LEMMA SpilledEvents ==
  ASSUME NEW s \in Seq(EvRec), NEW b \in Seq(EvRec), NEW k \in 1..Len(b)
  PROVE  EventsIn(s \o Prefix(b, k)) \cup EventsIn(SubSeq(b, k + 1, Len(b)))
           = EventsIn(s) \cup EventsIn(b)
<1>1. Len(b) \in Nat
  BY LenProperties
<1>2. Prefix(b, k) \in Seq(EvRec)
  BY <1>1, PrefixProperties
<1>3. \A i \in (k + 1)..Len(b) : b[i] \in EvRec
  BY <1>1, ElementOfSeq
<1>4. SubSeq(b, k + 1, Len(b)) \in Seq(EvRec)
  BY <1>1, <1>3, SubSeqProperties
<1>5. Prefix(b, k) \o SubSeq(b, k + 1, Len(b)) = SubSeq(b, 1, Len(b))
  BY <1>1, ConcatAdjacentSubSeq DEF Prefix
<1>6. SubSeq(b, 1, Len(b)) = b
  BY SubSeqFull
<1>7. EventsIn(b) = EventsIn(Prefix(b, k)) \cup EventsIn(SubSeq(b, k + 1, Len(b)))
  <2>1. EventsIn(b) = EventsIn(Prefix(b, k) \o SubSeq(b, k + 1, Len(b)))
    BY <1>5, <1>6
  <2> QED
    BY <1>2, <1>4, <2>1, EventsInConcat
<1> QED
  BY <1>2, <1>7, EventsInConcat

LEMMA InitEvents == Init => EventsHaveCommands
BY EmptyIsFile, EventsInEmpty DEF Init, EventsHaveCommands, AllEvents

\* Two steps make events: the replay of a record and the actor's phase 2.
LEMMA OldEvents ==
  ASSUME TypeInv, [Next]_vars, ~ReplayRecord, ~ApplyCmd
  PROVE  AllEvents' \subseteq AllEvents
<1> USE DEF disk, actor, recov, pubv, hist
<1>0. evFile.recs \in Seq(EvRec) /\ evBuf \in Seq(EvRec)
  BY FileFields DEF TypeInv, TypeOK
<1>1. CASE Open
  BY <1>1, RepairedEvents DEF Open, AllEvents
<1>2. CASE ReplayFails \/ Start \/ FlushEv
  BY <1>2, FlushedEvents, EventsInEmpty DEF ReplayFails, Start, FlushEv, AllEvents
<1>3. CASE (\E c \in Commands : TryEnqueue(c)) \/ TakeBatch \/ FlushCmd
  BY <1>3 DEF TryEnqueue, TakeBatch, FlushCmd, AllEvents
<1>4. CASE SpillEv
  <2>1. PICK k \in 1..Len(evBuf) :
          /\ evFile' = Write(evFile, Prefix(evBuf, k), "clean")
          /\ evBuf' = SubSeq(evBuf, k + 1, Len(evBuf))
    BY <1>4 DEF SpillEv
  <2>2. evFile'.recs = evFile.recs \o Prefix(evBuf, k)
    BY <2>1 DEF Write
  <2>3. EventsIn(evFile'.recs) \cup EventsIn(evBuf') = EventsIn(evFile.recs) \cup EventsIn(evBuf)
    <3>1. EventsIn(evFile.recs \o Prefix(evBuf, k)) \cup EventsIn(SubSeq(evBuf, k + 1, Len(evBuf)))
            = EventsIn(evFile.recs) \cup EventsIn(evBuf)
      BY <1>0, SpilledEvents
    <3> QED
      BY <2>1, <2>2, <3>1, Zenon
  <2>4. out' = out
    BY <1>4 DEF SpillEv
  <2> QED
    BY <2>3, <2>4, Zenon DEF AllEvents
<1>5. CASE PublishEvent
  <2>1. evFile.recs[rd + 1] \in EventsIn(evFile.recs)
    BY <1>5, NextEvTyped DEF PublishEvent, EventsIn
  <2> QED
    BY <1>5, <2>1 DEF PublishEvent, AllEvents
<1>6. CASE PubStart \/ CommitCursor \/ ReaderStumbles \/ ReaderCloses \/ UNCHANGED vars
  BY <1>6 DEF PubStart, CommitCursor, ReaderStumbles, ReaderCloses, vars, AllEvents
<1>7. CASE Stop
  BY <1>7, EventsInEmpty DEF Stop, Halt, AllEvents
<1>8. CASE Crash
  BY <1>8, PartialEvents, EventsInEmpty DEF Crash, Halt, AllEvents
<1>9. CASE PowerLoss
  BY <1>9, PowerEvents, EventsInEmpty DEF PowerLoss, Halt, AllEvents
<1>10. CASE WriteFails
  BY <1>10, PartialEvents, EventsInEmpty DEF WriteFails, AllEvents
<1>11. CASE FillFails
  BY <1>11, PartialEvents, EventsInEmpty DEF FillFails, AllEvents
<1> QED
  BY <1>1, <1>2, <1>3, <1>4, <1>5, <1>6, <1>7, <1>8, <1>9, <1>10, <1>11 DEF Next

\* The write-ahead property is kept by every step: a step that makes no events
\* keeps cmd.wal or lengthens it; the two that make events take the command from
\* cmd.wal.
LEMMA NextEvents ==
  ASSUME TypeInv, LogInv, CleanFaults, EventsHaveCommands, [Next]_vars
  PROVE  EventsHaveCommands'
<1>0. /\ cmdFile.recs \in Seq(CmdRec) /\ Len(cmdFile.recs) \in Nat
      /\ evBuf \in Seq(EvRec) /\ batch \in Seq(CmdRec) /\ book \in Books
  BY FileFields DEF TypeInv, TypeOK
<1>1. ASSUME AllEvents' \subseteq AllEvents PROVE EventsHaveCommands'
  <2>1. /\ Len(cmdFile'.recs) \in Nat /\ Len(cmdFile.recs) <= Len(cmdFile'.recs)
        /\ \A k \in 1..Len(cmdFile.recs) : cmdFile'.recs[k] = cmdFile.recs[k]
    BY CmdsGrow DEF Grown
  <2> SUFFICES ASSUME NEW e \in AllEvents'
               PROVE  \E k \in 1..Len(cmdFile'.recs) :
                        cmdFile'.recs[k].seq = e.seq /\ cmdFile'.recs[k].cmd = e.req
    BY DEF EventsHaveCommands
  <2>2. PICK k \in 1..Len(cmdFile.recs) : cmdFile.recs[k].seq = e.seq /\ cmdFile.recs[k].cmd = e.req
    BY <1>1 DEF EventsHaveCommands
  <2>3. k \in 1..Len(cmdFile'.recs) /\ cmdFile'.recs[k] = cmdFile.recs[k]
    BY <1>0, <2>1
  <2> QED
    BY <2>2, <2>3
<1>2. ASSUME NEW j \in 1..Len(cmdFile.recs), NEW r, cmdFile.recs[j] = r,
             AllEvents' \subseteq AllEvents \cup EventsOf(r.seq, r.cmd), UNCHANGED cmdFile
      PROVE  EventsHaveCommands'
  BY <1>2 DEF EventsHaveCommands, EventsOf
<1>3. CASE ReplayRecord
  <2> DEFINE r == cmdFile.recs[ri + 1]
  <2>1. ri + 1 \in 1..Len(cmdFile.recs) /\ r \in CmdRec
    BY <1>3, NextCmdTyped DEF ReplayRecord
  <2>2. evBuf' = evBuf \/ evBuf' = evBuf \o ReplayEvents(r)
    BY <1>3 DEF ReplayRecord
  <2>3. EventsIn(evBuf') \subseteq EventsIn(evBuf) \cup EventsOf(r.seq, r.cmd)
    BY <1>0, <2>1, <2>2, ReplayEventsProperties, EventsInConcat
  <2>4. AllEvents' \subseteq AllEvents \cup EventsOf(r.seq, r.cmd)
    BY <1>3, <2>3 DEF ReplayRecord, AllEvents, hist
  <2> QED
    BY <1>2, <1>3, <2>1, <2>4 DEF ReplayRecord
<1>4. CASE ApplyCmd
  <2> DEFINE r == Head(batch)
  <2>1. pc = "apply" /\ batch # <<>> /\ UNCHANGED <<cmdFile, evFile, out>>
    BY <1>4 DEF ApplyCmd, hist
  <2>2. r \in CmdRec /\ r = batch[1] /\ 1 \in 1..Len(batch)
    BY <1>0, <2>1, HeadTailProperties, EmptySeq
  <2>3. PICK j \in 1..Len(cmdFile.recs) : cmdFile.recs[j] = r
    BY <2>1, <2>2 DEF LogInv
  <2>4. EventsIn(evBuf') \subseteq EventsIn(evBuf) \cup EventsOf(r.seq, r.cmd)
    BY <1>0, <1>4, <2>2, LiveEventsProperties, EventsInConcat DEF ApplyCmd
  <2>5. AllEvents' \subseteq AllEvents \cup EventsOf(r.seq, r.cmd)
    BY <2>1, <2>4 DEF AllEvents
  <2> QED
    BY <1>2, <2>1, <2>3, <2>5
<1> QED
  BY <1>1, <1>3, <1>4, OldEvents

\* Where record k of the log has number k, the command of an event stands at the
\* event's number.
LEMMA EventsInPlace ==
  ASSUME CmdsNumbered, EventsHaveCommands, NEW e \in AllEvents
  PROVE  e.seq \in 1..Len(cmdFile.recs) /\ cmdFile.recs[e.seq].cmd = e.req
BY DEF CmdsNumbered, EventsHaveCommands

\* Every event in the outbox, in its buffer or published is about a command cmd.wal
\* holds under its number, for every book, every batch size and any number of kills,
\* torn records, write errors and restarts - or of power failures, but not of both.
\* It holds also where a buried tear hides commands and numbers are used again.
THEOREM WriteAhead ==
  ASSUME CleanFaults
  PROVE  Spec => []EventsHaveCommands
<1> DEFINE IInv == TypeInv /\ LogInv /\ EventsHaveCommands
<1>1. Init => IInv
  BY InitTypeInv, InitLogInv, InitEvents
<1>2. IInv /\ [Next]_vars => IInv'
  BY NextTypeInv, NextLogInv, NextEvents
<1>3. IInv => EventsHaveCommands
  OBVIOUS
<1> QED
  BY <1>1, <1>2, <1>3, PTL DEF Spec

-----------------------------------------------------------------------------
(* The publisher *)

\* The cursor was stored in front of a CmdEnd, which protects the records before
\* it from ScanAndRepairOutbox.
CursorProtected == cursor = 0 \/ \E k \in Ends(evFile) : cursor < k

\* A running publisher has published what its reader has passed.
ReadPublished ==
  pub = "on" =>
    /\ off <= rd /\ rd <= Len(evFile.recs)
    /\ \A k \in 1..rd : IsEnd(evFile.recs[k]) \/ evFile.recs[k] \in out

\* A publisher goes blind over a gap.
BlindAtGap == pub = "blind" => evFile.gap # NoGap

GapFree == evFile.gap = NoGap
PubInv  == CursorProtected /\ ReadPublished /\ NothingSkipped

\* Without power failures a gap in the outbox stays: the repair runs on files
\* without one.
LEMMA GapStays ==
  ASSUME TypeInv, "power" \notin Faults, [Next]_vars, GapFree'
  PROVE  GapFree
<1> USE DEF disk, actor, recov, pubv, hist
<1>1. IsFile(evFile, EvRec) /\ evBuf \in Seq(EvRec) /\ evFile.recs \in Seq(EvRec)
  BY FileFields DEF TypeInv, TypeOK
<1>2. ASSUME KeepsGap(evFile, evFile') PROVE GapFree
  BY <1>2 DEF KeepsGap, GapFree
<1>3. ASSUME NEW torn, NEW g \in PartialWrites(evFile, evBuf, torn) PROVE KeepsGap(evFile, g)
  BY <1>1, PartialWritesProperties
<1>4. ASSUME UNCHANGED evFile PROVE GapFree
  BY <1>4 DEF GapFree
<1>5. CASE Open
  BY <1>5 DEF Open, ReaderOk, GapFree
<1>6. CASE ReplayFails \/ Start \/ FlushEv
  <2>1. KeepsGap(evFile, Flushed(evFile, evBuf))
    BY <1>1, FlushedProperties
  <2> QED
    BY <1>2, <1>6, <2>1 DEF ReplayFails, Start, FlushEv
<1>7. CASE SpillEv
  <2>1. PICK k \in 1..Len(evBuf) : evFile' = Write(evFile, Prefix(evBuf, k), "clean")
    BY <1>7 DEF SpillEv
  <2> QED
    BY <1>2, <2>1 DEF Write, KeepsGap
<1>8. CASE Crash \/ WriteFails \/ FillFails
  BY <1>2, <1>3, <1>4, <1>8 DEF Crash, WriteFails, FillFails
<1>9. CASE PowerLoss
  BY <1>9 DEF PowerLoss
<1>10. CASE ReplayRecord \/ (\E c \in Commands : TryEnqueue(c)) \/ TakeBatch \/ FlushCmd \/ ApplyCmd
  BY <1>4, <1>10 DEF ReplayRecord, TryEnqueue, TakeBatch, FlushCmd, ApplyCmd
<1>11. CASE PubStart \/ PublishEvent \/ CommitCursor \/ ReaderStumbles \/ ReaderCloses \/ Stop \/ UNCHANGED vars
  BY <1>4, <1>11 DEF PubStart, PublishEvent, CommitCursor, ReaderStumbles, ReaderCloses, Stop, vars
<1> QED
  BY <1>5, <1>6, <1>7, <1>8, <1>9, <1>10, <1>11 DEF Next

LEMMA NextBlind ==
  ASSUME TypeInv, BlindAtGap, "power" \notin Faults, [Next]_vars
  PROVE  BlindAtGap'
<1> USE DEF disk, actor, recov, pubv, hist
<1>1. SUFFICES ASSUME pub' = "blind", evFile'.gap = NoGap PROVE FALSE
  BY DEF BlindAtGap
<1>2. evFile.gap = NoGap
  BY <1>1, GapStays DEF GapFree
<1>3. ASSUME UNCHANGED pub PROVE FALSE
  BY <1>1, <1>2, <1>3 DEF BlindAtGap
<1>4. CASE ReaderStumbles
  BY <1>2, <1>4 DEF ReaderStumbles, Readable, TypeInv, TypeOK
<1>5. CASE Start \/ PubStart \/ ReaderCloses \/ Stop \/ Crash \/ PowerLoss
  BY <1>1, <1>5 DEF Start, PubStart, ReaderCloses, Stop, Crash, PowerLoss, Halt
<1>6. CASE Open \/ ReplayRecord \/ ReplayFails \/ (\E c \in Commands : TryEnqueue(c)) \/ TakeBatch
  BY <1>3, <1>6 DEF Open, ReplayRecord, ReplayFails, TryEnqueue, TakeBatch
<1>7. CASE FlushCmd \/ ApplyCmd \/ FlushEv \/ SpillEv \/ PublishEvent \/ CommitCursor
  BY <1>3, <1>7 DEF FlushCmd, ApplyCmd, FlushEv, SpillEv, PublishEvent, CommitCursor
<1>8. CASE WriteFails \/ FillFails \/ UNCHANGED vars
  BY <1>3, <1>8 DEF WriteFails, FillFails, vars
<1> QED
  BY <1>4, <1>5, <1>6, <1>7, <1>8 DEF Next

\* A longer outbox keeps what the publisher relies on.
LEMMA GrownKeeps ==
  ASSUME TypeInv, GapFree, PubInv, Grown(evFile.recs, evFile'.recs), UNCHANGED <<cursor, out>>
  PROVE  /\ CursorProtected' /\ NothingSkipped'
         /\ UNCHANGED <<pub, rd, off>> => ReadPublished'
<1>1. Len(evFile.recs) \in Nat /\ cursor \in Nat /\ rd \in Nat
  BY FileFields DEF TypeInv, TypeOK
<1>2. Ends(evFile) \subseteq Ends(evFile)'
  BY <1>1 DEF Ends, Grown
<1>3. CursorProtected'
  BY <1>2 DEF PubInv, CursorProtected
<1>4. NothingSkipped'
  BY <1>1 DEF PubInv, NothingSkipped, Grown, GapFree
<1>5. ASSUME UNCHANGED <<pub, rd, off>> PROVE ReadPublished'
  BY <1>1, <1>5 DEF PubInv, ReadPublished, Grown
<1> QED
  BY <1>3, <1>4, <1>5

\* The repair cuts behind the last CmdEnd, which is behind the cursor.
LEMMA RepairKeeps ==
  ASSUME TypeInv, GapFree, PubInv, evFile' = Repaired(evFile), UNCHANGED <<cursor, out>>
  PROVE  CursorProtected' /\ NothingSkipped'
<1>1. /\ IsFile(evFile, EvRec) /\ evFile.recs \in Seq(EvRec)
      /\ Len(evFile.recs) \in Nat /\ cursor \in Nat
  BY FileFields DEF TypeInv, TypeOK
<1>2. CASE evFile' = evFile
  BY <1>2 DEF PubInv, CursorProtected, NothingSkipped, Ends
<1>3. CASE /\ LastEnd(evFile) \in Ends(evFile)
           /\ \A j \in Ends(evFile) : j <= LastEnd(evFile)
           /\ evFile'.recs = Prefix(evFile.recs, LastEnd(evFile))
  <2> DEFINE n == LastEnd(evFile)
  <2>1. n \in 1..Len(evFile.recs) /\ IsEnd(evFile.recs[n])
    BY <1>3 DEF Ends
  <2>2. Len(evFile'.recs) = n /\ \A k \in 1..n : evFile'.recs[k] = evFile.recs[k]
    <3>1. n \in 0..Len(evFile.recs)
      BY <1>1, <2>1
    <3>2. /\ Len(Prefix(evFile.recs, n)) = n
          /\ \A k \in 1..n : Prefix(evFile.recs, n)[k] = evFile.recs[k]
      BY <1>1, <3>1, PrefixProperties
    <3> QED
      BY <1>3, <3>2
  <2>3. cursor < n
    <3>1. CASE cursor = 0
      BY <2>1, <3>1
    <3>2. CASE cursor # 0
      <4>1. PICK k \in Ends(evFile) : cursor < k
        BY <3>2 DEF PubInv, CursorProtected
      <4>2. k \in Nat /\ k <= n
        BY <1>1, <1>3, <4>1 DEF Ends
      <4> QED
        BY <1>1, <2>1, <4>1, <4>2
    <3> QED
      BY <3>1, <3>2
  <2> HIDE DEF n
  <2>4. n \in Ends(evFile)'
    BY <1>1, <2>1, <2>2 DEF Ends
  <2>5. CursorProtected'
    BY <2>3, <2>4 DEF CursorProtected
  <2>6. NothingSkipped'
    BY <1>1, <2>1, <2>2, <2>3 DEF PubInv, NothingSkipped, GapFree
  <2> QED
    BY <2>5, <2>6
<1> QED
  BY <1>1, <1>2, <1>3, RepairedProperties

LEMMA InitPubInv == Init => PubInv /\ BlindAtGap
BY EmptyIsFile DEF Init, PubInv, BlindAtGap, CursorProtected, ReadPublished, NothingSkipped, EmptyFile

LEMMA NextPubInv ==
  ASSUME TypeInv, GapFree, BlindAtGap, PubInv, "power" \notin Faults, [Next]_vars
  PROVE  PubInv'
<1> USE DEF disk, actor, recov, pubv, hist
<1>0. /\ Len(evFile.recs) \in Nat /\ cursor \in Nat /\ rd \in Nat /\ off \in Nat
      /\ evFile.recs \in Seq(EvRec) /\ pub # "blind"
  BY FileFields DEF TypeInv, TypeOK, BlindAtGap, GapFree
<1>a. ASSUME UNCHANGED <<evFile, cursor, out>>, UNCHANGED <<pub, rd, off>> \/ pub' # "on"
      PROVE  PubInv'
  BY <1>a DEF PubInv, CursorProtected, ReadPublished, NothingSkipped, Ends
<1>b. ASSUME Grown(evFile.recs, evFile'.recs), UNCHANGED <<cursor, out>>,
             UNCHANGED <<pub, rd, off>> \/ pub' # "on"
      PROVE  PubInv'
  <2>1. CursorProtected' /\ NothingSkipped'
    BY <1>b, GrownKeeps
  <2>2. ReadPublished'
    BY <1>b, GrownKeeps DEF ReadPublished
  <2> QED
    BY <1>b, <2>1, <2>2 DEF PubInv
<1>1. CASE Open
  <2>1. CursorProtected' /\ NothingSkipped'
    BY <1>1, RepairKeeps DEF Open
  <2>2. ReadPublished'
    BY <1>1 DEF Open, TypeInv, PubNeedsActor, ReadPublished
  <2> QED
    BY <2>1, <2>2 DEF PubInv
<1>2. CASE ReplayRecord
  BY <1>2, <1>a DEF ReplayRecord
<1>3. CASE ReplayFails \/ Start \/ FlushEv
  <2>1. Grown(evFile.recs, evFile'.recs)
    BY <1>3, FlushedGrown DEF ReplayFails, Start, FlushEv
  <2>2. UNCHANGED <<cursor, out>> /\ (UNCHANGED <<pub, rd, off>> \/ pub' # "on")
    BY <1>3 DEF ReplayFails, Start, FlushEv
  <2> QED
    BY <1>b, <2>1, <2>2
<1>4. ASSUME NEW c \in Commands, TryEnqueue(c) PROVE PubInv'
  BY <1>4, <1>a DEF TryEnqueue
<1>5. CASE TakeBatch \/ FlushCmd \/ ApplyCmd
  BY <1>5, <1>a DEF TakeBatch, FlushCmd, ApplyCmd
<1>6. CASE SpillEv
  <2>1. PICK k \in 1..Len(evBuf) : evFile' = Write(evFile, Prefix(evBuf, k), "clean")
    BY <1>6 DEF SpillEv
  <2>2. Len(evBuf) \in Nat
    BY LenProperties DEF TypeInv, TypeOK
  <2>3. k \in 0..Len(evBuf) /\ evFile'.recs = evFile.recs \o Prefix(evBuf, k)
    BY <2>1, <2>2 DEF Write
  <2>4. Grown(evFile.recs, evFile'.recs)
    BY <2>3, EvGrown
  <2> QED
    BY <1>6, <1>b, <2>4 DEF SpillEv
<1>7. CASE PubStart
  <2>1. cursor' = cursor /\ rd' = cursor /\ off' = cursor /\ UNCHANGED <<evFile, out>>
    BY <1>0, <1>7 DEF PubStart, PubInv, NothingSkipped, GapFree
  <2> QED
    BY <1>0, <2>1 DEF PubInv, CursorProtected, ReadPublished, NothingSkipped, GapFree, Ends
<1>8. CASE PublishEvent
  <2>1. /\ rd + 1 \in 1..Len(evFile.recs)
        /\ pub = "on" /\ rd' = rd + 1 /\ off' = rd + 1
        /\ out' = out \cup {evFile.recs[rd + 1]}
        /\ UNCHANGED <<evFile, cursor, pub>>
    BY <1>0, <1>8, NextEvTyped DEF PublishEvent, Reading
  <2>2. \A k \in 1..rd : IsEnd(evFile.recs[k]) \/ evFile.recs[k] \in out
    BY <2>1 DEF PubInv, ReadPublished
  <2>3. ReadPublished'
    BY <1>0, <2>1, <2>2 DEF ReadPublished
  <2> QED
    BY <2>1, <2>3 DEF PubInv, CursorProtected, NothingSkipped, Ends
<1>9. CASE CommitCursor
  <2>1. /\ rd + 1 \in 1..Len(evFile.recs) /\ IsEnd(evFile.recs[rd + 1])
        /\ pub = "on" /\ rd' = rd + 1 /\ cursor' = off
        /\ UNCHANGED <<evFile, off, out, pub>>
    BY <1>0, <1>9, NextEvTyped DEF CommitCursor, Reading
  <2>2. off <= rd /\ \A k \in 1..rd : IsEnd(evFile.recs[k]) \/ evFile.recs[k] \in out
    BY <2>1 DEF PubInv, ReadPublished
  <2>3. rd + 1 \in Ends(evFile)' /\ cursor' < rd + 1
    BY <1>0, <2>1, <2>2 DEF Ends
  <2>4. CursorProtected'
    BY <2>3 DEF CursorProtected
  <2>5. NothingSkipped' /\ ReadPublished'
    BY <1>0, <2>1, <2>2 DEF NothingSkipped, ReadPublished
  <2> QED
    BY <2>1, <2>4, <2>5 DEF PubInv
<1>10. CASE ReaderCloses \/ UNCHANGED vars
  BY <1>10, <1>a DEF ReaderCloses, vars
<1>16. CASE ReaderStumbles
  BY <1>16 DEF ReaderStumbles, Readable, GapFree
<1>11. CASE Stop
  BY <1>11, <1>a DEF Stop, Halt
<1>12. CASE Crash
  BY <1>12, <1>b, PartialGrown DEF Crash, Halt
<1>13. CASE PowerLoss
  BY <1>13 DEF PowerLoss
<1>14. CASE WriteFails
  <2>1. UNCHANGED evFile \/ Grown(evFile.recs, evFile'.recs)
    BY <1>14, PartialGrown DEF WriteFails
  <2>2. UNCHANGED <<cursor, out, pub, rd, off>> 
    BY <1>14 DEF WriteFails
  <2> QED
    BY <1>a, <1>b, <2>1, <2>2
<1>15. CASE FillFails
  <2>1. Grown(evFile.recs, evFile'.recs)
    BY <1>15, PartialGrown DEF FillFails
  <2>2. UNCHANGED <<cursor, out, pub, rd, off>> 
    BY <1>15 DEF FillFails
  <2> QED
    BY <1>b, <2>1, <2>2
<1> QED
  BY <1>1, <1>2, <1>3, <1>4, <1>5, <1>6, <1>7, <1>8, <1>9, <1>10, <1>11, <1>12,
     <1>13, <1>14, <1>15, <1>16 DEF Next

\* Without power failures, and in front of a tear that appends have buried, the
\* publisher skips nothing: what lies in front of the stored cursor has been
\* published, and no repair of the outbox cuts it off.
THEOREM PublisherSkipsNothing ==
  ASSUME "power" \notin Faults
  PROVE  Spec => []NothingSkipped
<1> DEFINE IInv == TypeInv /\ BlindAtGap /\ (GapFree => PubInv)
<1>1. Init => IInv
  BY InitTypeInv, InitPubInv
<1>2. IInv /\ [Next]_vars => IInv'
  BY NextTypeInv, NextBlind, GapStays, NextPubInv
<1>3. IInv => NothingSkipped
  BY DEF PubInv, GapFree, NothingSkipped
<1> QED
  BY <1>1, <1>2, <1>3, PTL DEF Spec

-----------------------------------------------------------------------------
(* The refinement of the event feed.  Completeness and order look at the outbox
   file and its writer's buffer as one sequence: a step appends the answer to one
   command to it, moves records from the buffer to the file, or cuts it. *)

\* Only the publisher sends, and it leaves cmd.wal alone.
LEMMA Sends ==
  ASSUME TypeInv, [Next]_vars
  PROVE  \/ out' = out
         \/ PublishEvent /\ UNCHANGED cmdFile
<1> USE DEF disk, actor, recov, pubv, hist
<1>1. CASE Open \/ ReplayRecord \/ ReplayFails \/ Start \/ (\E c \in Commands : TryEnqueue(c)) \/ TakeBatch
  BY <1>1 DEF Open, ReplayRecord, ReplayFails, Start, TryEnqueue, TakeBatch
<1>2. CASE FlushCmd \/ ApplyCmd \/ FlushEv \/ SpillEv \/ PubStart \/ CommitCursor \/ ReaderStumbles \/ ReaderCloses
  BY <1>2 DEF FlushCmd, ApplyCmd, FlushEv, SpillEv, PubStart, CommitCursor, ReaderStumbles, ReaderCloses
<1>3. CASE Stop \/ Crash \/ PowerLoss \/ WriteFails \/ FillFails \/ UNCHANGED vars
  BY <1>3 DEF Stop, Crash, PowerLoss, WriteFails, FillFails, Halt, vars
<1>4. CASE PublishEvent
  BY <1>4 DEF PublishEvent
<1> QED
  BY <1>1, <1>2, <1>3, <1>4 DEF Next

LEMMA FeedInit == Init => Feed!Init
<1> SUFFICES ASSUME Init PROVE Feed!Init
  OBVIOUS
<1>1. out = {} /\ cmdFile.recs = <<>> /\ Hides(cmdFile) = FALSE
  BY EmptyIsFile DEF Init, Hides, EmptyFile
<1> QED
  BY <1>1 DEF Feed!Init

\* A step that sends nothing leaves a log of the feed, and one that publishes sends
\* an event about a command of the log.
LEMMA FeedStep ==
  ASSUME TypeInv, LogInv, CleanFaults, EventsHaveCommands, NoneHidden' => CmdsNumbered', [Next]_vars
  PROVE  [Feed!Next]_(Feed!vars)
<1>1. /\ cmdFile'.recs \in Seq(CmdRec) /\ Grown(cmdFile.recs, cmdFile'.recs)
      /\ KeepsGap(cmdFile, cmdFile')
  BY CmdsMove
<1>2. CASE out' = out
  <2>1. cmdFile'.recs \in Seq(Feed!Entry)
    BY <1>1 DEF CmdRec, Feed!Entry
  <2>2. /\ Len(cmdFile'.recs) >= Len(cmdFile.recs)
        /\ \A k \in 1..Len(cmdFile.recs) : cmdFile'.recs[k] = cmdFile.recs[k]
    <3>1. Len(cmdFile.recs) \in Nat
      BY FileFields DEF TypeInv, TypeOK
    <3> QED
      BY <1>1, <3>1 DEF Grown
  <2>3. Hides(cmdFile) => Hides(cmdFile)'
    BY <1>1 DEF Hides, KeepsGap
  <2>4. ~Hides(cmdFile)' => \A k \in 1..Len(cmdFile'.recs) : cmdFile'.recs[k].seq = k
    BY DEF NoneHidden, CmdsNumbered
  <2>5. Feed!Commit
    BY <1>2, <2>1, <2>2, <2>3, <2>4 DEF Feed!Commit
  <2> QED
    BY <2>5 DEF Feed!Next
<1>3. CASE PublishEvent /\ UNCHANGED cmdFile
  <2> DEFINE e == evFile.recs[rd + 1]
  <2>1. e \in EventsIn(evFile.recs) /\ out' = out \cup {e}
    BY <1>3, NextEvTyped DEF PublishEvent, EventsIn
  <2> HIDE DEF e
  <2>2. \E k \in 1..Len(cmdFile.recs) : cmdFile.recs[k].seq = e.seq /\ cmdFile.recs[k].cmd = e.req
    BY <2>1 DEF EventsHaveCommands, AllEvents
  <2>3. Feed!Send
    BY <1>3, <2>1, <2>2 DEF Feed!Send
  <2> QED
    BY <2>3 DEF Feed!Next
<1> QED
  BY <1>2, <1>3, Sends

\* As long as no command is hidden the log is numbered: the step that hides one
\* needs no numbers behind it.
LEMMA NextNumbered ==
  ASSUME TypeInv, LogInv, CleanFaults, NoneHidden => CmdInv, [Next]_vars
  PROVE  NoneHidden' => CmdInv'
BY NoneHiddenBefore, NextCmdInv

\* The engine implements the event feed: for a user, kills, restarts, replays and
\* write errors of actor, recovery and publisher are steps of a log that only grows
\* and of events that speak about it, its numbers unique until a buried tear hides
\* commands.
THEOREM EngineIsFeed ==
  ASSUME CleanFaults
  PROVE  Spec => ImplementsFeed
<1> DEFINE IInv == TypeInv /\ LogInv /\ EventsHaveCommands /\ (NoneHidden => CmdInv)
<1>1. Init => IInv
  BY InitTypeInv, InitLogInv, InitCmdInv, InitEvents
<1>2. IInv /\ [Next]_vars => IInv'
  BY NextTypeInv, NextLogInv, NextNumbered, NextEvents
<1>3. IInv /\ [Next]_vars => [Feed!Next]_(Feed!vars)
  <2>1. IInv /\ [Next]_vars => (NoneHidden' => CmdsNumbered')
    BY <1>2 DEF CmdInv
  <2> QED
    BY <2>1, FeedStep
<1> QED
  BY <1>1, <1>2, <1>3, FeedInit, PTL DEF Spec, ImplementsFeed, Feed!Spec

-----------------------------------------------------------------------------
(* The outbox as one sequence *)

\* The records of the outbox and those its writer still holds.
Outbox == evFile.recs \o evBuf

\* Commands 1..n have an event in u.
Answered(u, n) == \A s \in 1..n : \E k \in 1..Len(u) : ~IsEnd(u[k]) /\ u[k].seq = s

\* In front of a CmdEnd every command up to its number has an event.
EndsComplete(u) ==
  \A p \in 1..Len(u) : IsEnd(u[p]) =>
    \A s \in 1..u[p].seq : \E k \in 1..p : ~IsEnd(u[k]) /\ u[k].seq = s

\* w is u and behind it the answer to command s: events, then perhaps its CmdEnd.
ExtendedBy(u, w, s) ==
  /\ Grown(u, w) /\ Len(u) < Len(w)
  /\ \A k \in (Len(u) + 1)..Len(w) : w[k].seq = s /\ (IsEnd(w[k]) => k = Len(w))
  /\ ~IsEnd(w[Len(u) + 1])

LEMMA ConcatThree ==
  ASSUME NEW s \in Seq(EvRec), NEW t \in Seq(EvRec), NEW v \in Seq(EvRec)
  PROVE  (s \o t) \o v = s \o (t \o v)
BY ConcatAssociative

LEMMA PrefixOfConcat ==
  ASSUME NEW s \in Seq(EvRec), NEW t \in Seq(EvRec), NEW n \in 0..Len(t)
  PROVE  Grown(s \o Prefix(t, n), s \o t)
<1>1. Len(s) \in Nat /\ Len(t) \in Nat
  BY LenProperties
<1>2. /\ Len(s \o Prefix(t, n)) = Len(s) + n
      /\ \A k \in 1..Len(s) : (s \o Prefix(t, n))[k] = s[k]
      /\ \A k \in 1..n : (s \o Prefix(t, n))[Len(s) + k] = t[k]
  BY ConcatPrefix
<1>3. /\ Len(s \o t) = Len(s) + Len(t)
      /\ \A k \in 1..Len(s) : (s \o t)[k] = s[k]
      /\ \A k \in 1..Len(t) : (s \o t)[Len(s) + k] = t[k]
  <2>1. t = Prefix(t, Len(t)) /\ Len(t) \in 0..Len(t)
    BY <1>1, SubSeqFull DEF Prefix
  <2>2. /\ Len(s \o Prefix(t, Len(t))) = Len(s) + Len(t)
        /\ \A k \in 1..Len(s) : (s \o Prefix(t, Len(t)))[k] = s[k]
        /\ \A k \in 1..Len(t) : (s \o Prefix(t, Len(t)))[Len(s) + k] = t[k]
    BY <2>1, ConcatPrefix
  <2> QED
    BY <2>1, <2>2
<1>4. ASSUME NEW k \in 1..(Len(s) + n) PROVE (s \o t)[k] = (s \o Prefix(t, n))[k]
  <2>1. CASE k <= Len(s)
    BY <1>1, <1>2, <1>3, <2>1
  <2>2. CASE ~(k <= Len(s))
    <3>1. k - Len(s) \in 1..n /\ k - Len(s) \in 1..Len(t) /\ k = Len(s) + (k - Len(s))
      BY <1>1, <2>2
    <3> QED
      BY <1>2, <1>3, <3>1
  <2> QED
    BY <2>1, <2>2
<1> QED
  BY <1>1, <1>2, <1>3, <1>4 DEF Grown

LEMMA SeqsAreNat ==
  ASSUME NEW u \in Seq(EvRec)
  PROVE  Len(u) \in Nat /\ \A k \in 1..Len(u) : u[k] \in EvRec /\ u[k].seq \in Nat
<1>1. \A k \in 1..Len(u) : u[k] \in EvRec
  BY ElementOfSeq
<1>2. \A r \in EvRec : r.seq \in Nat
  BY DEF EvRec, Event, EndRec
<1> QED
  BY <1>1, <1>2, LenProperties

LEMMA OutboxFields ==
  ASSUME TypeInv
  PROVE  /\ IsFile(evFile, EvRec) /\ evFile.recs \in Seq(EvRec) /\ evBuf \in Seq(EvRec)
         /\ Outbox \in Seq(EvRec) /\ Len(Outbox) \in Nat /\ Len(evFile.recs) \in Nat
         /\ Grown(evFile.recs, Outbox)
         /\ evBuf = <<>> => Outbox = evFile.recs
<1>1. IsFile(evFile, EvRec) /\ evFile.recs \in Seq(EvRec) /\ evBuf \in Seq(EvRec)
  BY FileFields DEF TypeInv, TypeOK
<1>2. Len(evFile.recs) \in Nat /\ Len(evBuf) \in Nat
  BY <1>1, LenProperties
<1>3. /\ Outbox \in Seq(EvRec) /\ Len(Outbox) = Len(evFile.recs) + Len(evBuf)
      /\ \A i \in 1..(Len(evFile.recs) + Len(evBuf)) :
           Outbox[i] = IF i <= Len(evFile.recs) THEN evFile.recs[i] ELSE evBuf[i - Len(evFile.recs)]
  BY <1>1, ConcatProperties DEF Outbox
<1>4. Grown(evFile.recs, Outbox)
  BY <1>2, <1>3, SMTT(30) DEF Grown
<1>5. evBuf = <<>> => Outbox = evFile.recs
  BY <1>1, ConcatEmptySeq DEF Outbox
<1> QED
  BY <1>1, <1>2, <1>3, <1>4, <1>5

LEMMA OutboxNext ==
  ASSUME TypeInv'
  PROVE  /\ Outbox' \in Seq(EvRec) /\ Len(Outbox') \in Nat
         /\ evBuf' = <<>> => Outbox' = evFile'.recs
<1>1. IsFile(evFile', EvRec) /\ evBuf' \in Seq(EvRec)
  BY DEF TypeInv, TypeOK
<1>2. evFile'.recs \in Seq(EvRec)
  BY <1>1, FileFields
<1>3. Outbox' \in Seq(EvRec)
  BY <1>1, <1>2, ConcatProperties DEF Outbox
<1>4. evBuf' = <<>> => Outbox' = evFile'.recs
  BY <1>2, ConcatEmptySeq DEF Outbox
<1> QED
  BY <1>3, <1>4, LenProperties

\* Flushing and spilling move records from the buffer to the file.
LEMMA OutboxMoves ==
  ASSUME TypeInv
  PROVE  /\ evFile' = Flushed(evFile, evBuf) /\ evBuf' = <<>> => Outbox' = Outbox
         /\ SpillEv => Outbox' = Outbox
<1>1. IsFile(evFile, EvRec) /\ evFile.recs \in Seq(EvRec) /\ evBuf \in Seq(EvRec) /\ Len(evBuf) \in Nat
  BY OutboxFields, LenProperties
<1>2. ASSUME evFile' = Flushed(evFile, evBuf), evBuf' = <<>> PROVE Outbox' = Outbox
  <2>1. evFile'.recs = evFile.recs \o evBuf
    BY <1>1, <1>2, FlushedProperties
  <2>2. evFile.recs \o evBuf \in Seq(EvRec)
    BY <1>1, ConcatProperties
  <2> QED
    BY <1>2, <2>1, <2>2, ConcatEmptySeq DEF Outbox
<1>3. ASSUME SpillEv PROVE Outbox' = Outbox
  <2>1. PICK k \in 1..Len(evBuf) :
          /\ evFile' = Write(evFile, Prefix(evBuf, k), "clean")
          /\ evBuf' = SubSeq(evBuf, k + 1, Len(evBuf))
    BY <1>3 DEF SpillEv
  <2>2. evFile'.recs = evFile.recs \o Prefix(evBuf, k)
    BY <2>1 DEF Write
  <2>3. Prefix(evBuf, k) \in Seq(EvRec)
    BY <1>1, PrefixProperties
  <2>4. SubSeq(evBuf, k + 1, Len(evBuf)) \in Seq(EvRec)
    <3>1. \A i \in (k + 1)..Len(evBuf) : evBuf[i] \in EvRec
      BY <1>1, ElementOfSeq
    <3> QED
      BY <1>1, <3>1, SubSeqProperties
  <2>5. Prefix(evBuf, k) \o SubSeq(evBuf, k + 1, Len(evBuf)) = evBuf
    <3>1. Prefix(evBuf, k) \o SubSeq(evBuf, k + 1, Len(evBuf)) = SubSeq(evBuf, 1, Len(evBuf))
      BY <1>1, ConcatAdjacentSubSeq DEF Prefix
    <3> QED
      BY <1>1, <3>1, SubSeqFull
  <2>6. (evFile.recs \o Prefix(evBuf, k)) \o SubSeq(evBuf, k + 1, Len(evBuf))
          = evFile.recs \o (Prefix(evBuf, k) \o SubSeq(evBuf, k + 1, Len(evBuf)))
    BY <1>1, <2>3, <2>4, ConcatThree
  <2> QED
    BY <2>1, <2>2, <2>5, <2>6, Zenon DEF Outbox
<1> QED
  BY <1>2, <1>3

\* Whatever a fault or the repair leaves in the file is a prefix of the outbox.
LEMMA OutboxCuts ==
  ASSUME TypeInv
  PROVE  /\ \A torn : \A g \in PartialWrites(evFile, evBuf, torn) : Grown(g.recs, Outbox)
         /\ \A torn : \A f \in PartialWrites(evFile, evBuf, FALSE) : \A g \in PowerCuts(f, torn) :
              Grown(g.recs, Outbox)
         /\ Grown(Repaired(evFile).recs, Outbox)
<1>1. /\ IsFile(evFile, EvRec) /\ evFile.recs \in Seq(EvRec) /\ evBuf \in Seq(EvRec)
      /\ Len(evBuf) \in Nat /\ Len(evFile.recs) \in Nat
  BY OutboxFields, LenProperties
<1>2. \A n \in 0..Len(evBuf) : Grown(evFile.recs \o Prefix(evBuf, n), Outbox)
  BY <1>1, PrefixOfConcat DEF Outbox
<1>4. ASSUME NEW torn, NEW g \in PartialWrites(evFile, evBuf, torn)
      PROVE  Grown(g.recs, Outbox) /\ IsFile(g, EvRec)
  <2>1. IsFile(g, EvRec) /\ \E n \in 0..Len(evBuf) : g.recs = evFile.recs \o Prefix(evBuf, n)
    BY <1>1, PartialWritesProperties
  <2> QED
    BY <1>2, <2>1
<1>5. ASSUME NEW v \in Seq(EvRec), NEW n \in 0..Len(v), Grown(v, Outbox)
      PROVE  Grown(Prefix(v, n), Outbox)
  <2>1. Len(Prefix(v, n)) = n /\ (\A k \in 1..n : Prefix(v, n)[k] = v[k]) /\ Len(v) \in Nat
    BY PrefixProperties, LenProperties
  <2> QED
    BY <1>5, <2>1 DEF Grown
<1>6. ASSUME NEW torn, NEW f \in PartialWrites(evFile, evBuf, FALSE), NEW g \in PowerCuts(f, torn)
      PROVE  Grown(g.recs, Outbox)
  <2>1. IsFile(f, EvRec) /\ f.recs \in Seq(EvRec) /\ Grown(f.recs, Outbox)
    BY <1>4, FileFields
  <2>2. PICK m \in 0..Len(f.recs) : g.recs = Prefix(f.recs, m)
    BY <2>1, PowerCutsProperties
  <2> QED
    BY <1>5, <2>1, <2>2
<1>7. Grown(Repaired(evFile).recs, Outbox)
  <2>1. Grown(evFile.recs, Outbox)
    BY OutboxFields
  <2>2. CASE Ends(evFile) = {} /\ Repaired(evFile) = evFile
    BY <2>1, <2>2
  <2>3. CASE /\ LastEnd(evFile) \in Ends(evFile)
             /\ Repaired(evFile).recs = Prefix(evFile.recs, LastEnd(evFile))
    <3>1. LastEnd(evFile) \in 0..Len(evFile.recs)
      BY <1>1, <2>3 DEF Ends
    <3> QED
      BY <1>1, <1>5, <2>1, <2>3, <3>1
  <2> QED
    BY <1>1, <2>2, <2>3, RepairedProperties
<1> QED
  BY <1>4, <1>6, <1>7

\* What the recovery and the actor append answers one command.
LEMMA StampedExtends ==
  ASSUME NEW u \in Seq(EvRec), NEW s \in Nat, NEW c \in Commands, NEW evs \in Seq(Evs), evs # <<>>
  PROVE  /\ ExtendedBy(u, u \o Stamped(s, c, evs), s)
         /\ LET w == u \o (Stamped(s, c, evs) \o <<CmdEnd(s)>>)
            IN  ExtendedBy(u, w, s) /\ IsEnd(w[Len(w)])
<1> DEFINE t == Stamped(s, c, evs)
<1>1. /\ t \in Seq(EvRec) /\ Len(t) = Len(evs)
      /\ \A k \in 1..Len(t) : t[k].seq = s /\ ~IsEnd(t[k])
  BY StampedProperties, EndsAndEvents
<1>2. Len(t) \in Nat /\ Len(t) > 0 /\ Len(u) \in Nat
  <2>1. Len(evs) \in Nat /\ Len(evs) # 0
    BY EmptySeq, LenProperties
  <2> QED
    BY <1>1, <2>1, LenProperties
<1> HIDE DEF t
<1>3. ExtendedBy(u, u \o t, s)
  <2>1. /\ Len(u \o t) = Len(u) + Len(t)
        /\ \A i \in 1..(Len(u) + Len(t)) : (u \o t)[i] = IF i <= Len(u) THEN u[i] ELSE t[i - Len(u)]
    BY <1>1, ConcatProperties, ZenonT(60)
  <2>2. Grown(u, u \o t)
    BY <1>2, <2>1 DEF Grown
  <2>3. ASSUME NEW k \in (Len(u) + 1)..Len(u \o t)
        PROVE  (u \o t)[k].seq = s /\ ~IsEnd((u \o t)[k])
    <3>1. k - Len(u) \in 1..Len(t) /\ (u \o t)[k] = t[k - Len(u)]
      BY <1>2, <2>1
    <3> QED
      BY <1>1, <3>1
  <2>4. Len(u) + 1 \in (Len(u) + 1)..Len(u \o t)
    BY <1>2, <2>1
  <2> QED
    BY <1>2, <2>1, <2>2, <2>3, <2>4 DEF ExtendedBy
<1>4. /\ <<CmdEnd(s)>> \in Seq(EvRec) /\ Len(<<CmdEnd(s)>>) = 1 /\ <<CmdEnd(s)>>[1] = CmdEnd(s)
      /\ CmdEnd(s).seq = s /\ IsEnd(CmdEnd(s))
  BY EndsAndEvents
<1> DEFINE x == t \o <<CmdEnd(s)>>
<1>5. /\ x \in Seq(EvRec) /\ Len(x) = Len(t) + 1
      /\ \A i \in 1..Len(t) : x[i] = t[i]
      /\ x[Len(t) + 1] = CmdEnd(s)
  <2>1. /\ x \in Seq(EvRec) /\ Len(x) = Len(t) + 1
        /\ \A i \in 1..(Len(t) + 1) : x[i] = IF i <= Len(t) THEN t[i] ELSE <<CmdEnd(s)>>[i - Len(t)]
    BY <1>1, <1>4, ConcatProperties
  <2>2. Len(t) + 1 \in 1..(Len(t) + 1) /\ ~(Len(t) + 1 <= Len(t)) /\ Len(t) + 1 - Len(t) = 1
    BY <1>2
  <2>3. x[Len(t) + 1] = CmdEnd(s)
    BY <1>4, <2>1, <2>2
  <2> QED
    BY <1>2, <2>1, <2>3
<1> HIDE DEF x
<1>6. ExtendedBy(u, u \o x, s) /\ IsEnd((u \o x)[Len(u \o x)])
  <2>1. /\ Len(u \o x) = Len(u) + Len(x)
        /\ \A i \in 1..(Len(u) + Len(x)) : (u \o x)[i] = IF i <= Len(u) THEN u[i] ELSE x[i - Len(u)]
    BY <1>5, ConcatProperties
  <2>2. Grown(u, u \o x)
    BY <1>2, <1>5, <2>1 DEF Grown
  <2>3. ASSUME NEW k \in (Len(u) + 1)..Len(u \o x)
        PROVE  /\ (u \o x)[k].seq = s
               /\ IsEnd((u \o x)[k]) <=> k = Len(u \o x)
    <3>1. k - Len(u) \in 1..(Len(t) + 1) /\ (u \o x)[k] = x[k - Len(u)]
      BY <1>2, <1>5, <2>1
    <3>2. CASE k = Len(u \o x)
      <4>1. k - Len(u) = Len(t) + 1
        BY <1>2, <1>5, <2>1, <3>2
      <4> QED
        BY <1>4, <1>5, <3>1, <3>2, <4>1
    <3>3. CASE k # Len(u \o x)
      <4>1. k - Len(u) \in 1..Len(t)
        <5>1. k # Len(u) + (Len(t) + 1)
          BY <1>5, <2>1, <3>3
        <5> QED
          BY <1>2, <3>1, <5>1
      <4> QED
        BY <1>1, <1>5, <3>1, <3>3, <4>1
    <3> QED
      BY <3>2, <3>3
  <2>4. Len(u) + 1 \in (Len(u) + 1)..Len(u \o x) /\ Len(u) + 1 # Len(u \o x)
        /\ Len(u \o x) \in (Len(u) + 1)..Len(u \o x)
    BY <1>2, <1>5, <2>1
  <2> QED
    BY <1>2, <2>1, <2>2, <2>3, <2>4 DEF ExtendedBy
<1> QED
  BY <1>3, <1>6 DEF t, x

\* The two steps that make events append the answer to one command.
LEMMA ReplayExtends ==
  ASSUME TypeInv, NEW r \in CmdRec, evBuf' = evBuf \o ReplayEvents(r), UNCHANGED evFile
  PROVE  ExtendedBy(Outbox, Outbox', r.seq) /\ IsEnd(Outbox'[Len(Outbox')])
<1>1. r.seq \in Nat /\ r.cmd \in Commands
  BY DEF CmdRec
<1>2. Apply(book, r.cmd).evs \in Seq(Evs) /\ Apply(book, r.cmd).evs # <<>>
  BY <1>1, BookAssumption DEF TypeInv
<1>3. ReplayEvents(r) \in Seq(EvRec) /\ evFile.recs \in Seq(EvRec) /\ evBuf \in Seq(EvRec)
  BY ReplayEventsProperties, OutboxFields DEF TypeInv
<1>4. Outbox' = Outbox \o ReplayEvents(r)
  <2>1. Outbox' = evFile.recs \o (evBuf \o ReplayEvents(r))
    BY DEF Outbox
  <2>2. (evFile.recs \o evBuf) \o ReplayEvents(r) = evFile.recs \o (evBuf \o ReplayEvents(r))
    BY <1>3, ConcatThree
  <2> QED
    BY <2>1, <2>2 DEF Outbox
<1> QED
  BY <1>1, <1>2, <1>4, OutboxFields, StampedExtends DEF ReplayEvents

LEMMA LiveExtends ==
  ASSUME TypeInv, NEW r \in CmdRec, evBuf' = evBuf \o LiveEvents(r), UNCHANGED evFile
  PROVE  /\ ExtendedBy(Outbox, Outbox', r.seq)
         /\ Valid(r.cmd) => IsEnd(Outbox'[Len(Outbox')])
<1> DEFINE a == Apply(book, r.cmd)
           evs == IF a.found THEN a.evs ELSE a.evs \o <<Rejected>>
<1>1. r.seq \in Nat /\ r.cmd \in Commands
  BY DEF CmdRec
<1>2. LiveEvents(r) \in Seq(EvRec) /\ evFile.recs \in Seq(EvRec) /\ evBuf \in Seq(EvRec)
  BY LiveEventsProperties, OutboxFields DEF TypeInv
<1>3. Outbox' = Outbox \o LiveEvents(r) /\ Outbox \in Seq(EvRec)
  <2>1. Outbox' = evFile.recs \o (evBuf \o LiveEvents(r))
    BY DEF Outbox
  <2>2. (evFile.recs \o evBuf) \o LiveEvents(r) = evFile.recs \o (evBuf \o LiveEvents(r))
    BY <1>2, ConcatThree
  <2> QED
    BY <2>1, <2>2, OutboxFields DEF Outbox
<1>4. CASE ~Valid(r.cmd)
  <2>1. <<Rejected>> \in Seq(Evs) /\ <<Rejected>> # <<>>
    BY EventsAssumption
  <2> QED
    BY <1>1, <1>3, <1>4, <2>1, StampedExtends DEF LiveEvents
<1>5. CASE Valid(r.cmd)
  <2>1. a.evs \in Seq(Evs) /\ a.evs # <<>> /\ Rejected \in Evs
    BY <1>1, BookAssumption, EventsAssumption DEF TypeInv
  <2>2. evs \in Seq(Evs) /\ evs # <<>>
    BY <2>1
  <2>3. LiveEvents(r) = Stamped(r.seq, r.cmd, evs) \o <<CmdEnd(r.seq)>>
    BY <1>5 DEF LiveEvents
  <2> HIDE DEF evs
  <2> QED
    BY <1>1, <1>3, <2>2, <2>3, StampedExtends
<1> QED
  BY <1>4, <1>5

\* A fault keeps a prefix of the outbox and drops what the writer held.
LEMMA FaultCuts ==
  ASSUME TypeInv, TypeInv', Stop \/ Crash \/ PowerLoss \/ WriteFails \/ FillFails
  PROVE  Grown(Outbox', Outbox) /\ evBuf' = <<>> /\ pc' \in {"down", "dead"}
<1>1. evBuf' = <<>> /\ pc' \in {"down", "dead"}
  BY DEF Stop, Crash, PowerLoss, WriteFails, FillFails, Halt
<1>2. Outbox' = evFile'.recs
  BY <1>1, OutboxNext
<1>3. ASSUME UNCHANGED evFile PROVE Grown(evFile'.recs, Outbox)
  BY <1>3, OutboxFields
<1>4. Grown(evFile'.recs, Outbox)
  <2>1. CASE Stop
    BY <1>3, <2>1 DEF Stop
  <2>2. CASE Crash
    BY <2>2, OutboxCuts DEF Crash
  <2>3. CASE PowerLoss
    BY <2>3, OutboxCuts DEF PowerLoss
  <2>4. CASE WriteFails
    BY <1>3, <2>4, OutboxCuts DEF WriteFails
  <2>5. CASE FillFails
    BY <2>5, OutboxCuts DEF FillFails
  <2> QED
    BY <2>1, <2>2, <2>3, <2>4, <2>5
<1> QED
  BY <1>1, <1>2, <1>4

-----------------------------------------------------------------------------
(* Every logged command is answered *)

\* The commands of a batch are numbered up to the actor's counter.
BatchNumbered ==
  pc \in {"log", "apply"} => \A k \in 1..Len(batch) : batch[k].seq = seq - Len(batch) + k

LEMMA InitBatchNumbered == Init => BatchNumbered
BY DEF Init, BatchNumbered

LEMMA NextBatchNumbered ==
  ASSUME TypeInv, BatchNumbered, [Next]_vars
  PROVE  BatchNumbered'
<1> USE DEF disk, actor, recov, pubv, hist
<1>0. batch \in Seq(CmdRec) /\ Len(batch) \in Nat /\ seq \in Nat
  BY LenProperties DEF TypeInv, TypeOK
<1>1. CASE TakeBatch
  <2>1. /\ Len(batch') \in Nat /\ seq' = seq + Len(batch')
        /\ \A k \in 1..Len(batch') : batch'[k].seq = seq + k
    BY <1>1, TakeBatchProperties
  <2> QED
    BY <1>0, <2>1 DEF BatchNumbered
<1>2. CASE ApplyCmd
  <2>1. pc = "apply" /\ batch # <<>> /\ batch' = Tail(batch) /\ UNCHANGED seq
    BY <1>2 DEF ApplyCmd
  <2>2. /\ Len(Tail(batch)) = Len(batch) - 1
        /\ \A k \in 1..Len(Tail(batch)) : Tail(batch)[k] = batch[k + 1]
    BY <1>0, <2>1, HeadTailProperties
  <2>3. \A k \in 1..Len(Tail(batch)) : k + 1 \in 1..Len(batch)
    BY <1>0, <2>2
  <2> QED
    BY <1>0, <2>1, <2>2, <2>3 DEF BatchNumbered
<1>3. CASE FlushCmd
  BY <1>3 DEF FlushCmd, BatchNumbered
<1>4. ASSUME UNCHANGED <<pc, batch, seq>> PROVE BatchNumbered'
  BY <1>4 DEF BatchNumbered
<1>5. CASE (\E c \in Commands : TryEnqueue(c)) \/ SpillEv \/ UNCHANGED vars
  BY <1>4, <1>5 DEF TryEnqueue, SpillEv, vars
<1>6. CASE PubStart \/ PublishEvent \/ CommitCursor \/ ReaderStumbles \/ ReaderCloses
  BY <1>4, <1>6 DEF PubStart, PublishEvent, CommitCursor, ReaderStumbles, ReaderCloses
<1>7. ASSUME pc' \notin {"log", "apply"} PROVE BatchNumbered'
  BY <1>7 DEF BatchNumbered
<1>8. CASE Open \/ ReplayRecord \/ ReplayFails \/ Start \/ FlushEv
  BY <1>7, <1>8 DEF Open, ReplayRecord, ReplayFails, Start, FlushEv
<1>9. CASE Stop \/ Crash \/ PowerLoss \/ WriteFails \/ FillFails
  BY <1>7, <1>9 DEF Stop, Crash, PowerLoss, WriteFails, FillFails, Halt
<1> QED
  BY <1>1, <1>2, <1>3, <1>5, <1>6, <1>8, <1>9 DEF Next

\* The next command of the batch is the one behind those answered.
LEMMA HeadNumbered ==
  ASSUME TypeInv, BatchNumbered, pc = "apply", batch # <<>>
  PROVE  /\ Head(batch) \in CmdRec /\ Len(batch) \in Nat
         /\ Head(batch).seq = (seq - Len(batch)) + 1
         /\ Len(Tail(batch)) = Len(batch) - 1
<1>0. batch \in Seq(CmdRec) /\ Len(batch) \in Nat /\ Len(batch) # 0 /\ seq \in Nat
  BY LenProperties, EmptySeq DEF TypeInv, TypeOK
<1>1. /\ Head(batch) = batch[1] /\ 1 \in 1..Len(batch)
      /\ Len(Tail(batch)) = Len(batch) - 1
  BY <1>0, HeadTailProperties
<1>2. batch[1] \in CmdRec
  BY <1>0, <1>1, ElementOfSeq
<1>3. batch[1].seq = seq - Len(batch) + 1
  BY <1>1 DEF BatchNumbered
<1> QED
  BY <1>0, <1>1, <1>2, <1>3

\* Answers stay when the outbox grows, and complete answers when it is cut.
LEMMA AnsweredGrows ==
  ASSUME NEW u, NEW w, Len(u) \in Nat, NEW n, Answered(u, n), Grown(u, w)
  PROVE  Answered(w, n)
BY DEF Answered, Grown

LEMMA CompleteCuts ==
  ASSUME NEW u, NEW v, Len(v) \in Nat, EndsComplete(u), Grown(v, u)
  PROVE  EndsComplete(v)
<1>1. \A p \in 1..Len(v) : p \in 1..Len(u) /\ v[p] = u[p] /\ \A k \in 1..p : v[k] = u[k]
  BY DEF Grown
<1>2. ASSUME NEW p \in 1..Len(v), IsEnd(v[p]), NEW s \in 1..v[p].seq
      PROVE  \E k \in 1..p : ~IsEnd(v[k]) /\ v[k].seq = s
  <2>1. p \in 1..Len(u) /\ IsEnd(u[p]) /\ s \in 1..u[p].seq /\ \A k \in 1..p : v[k] = u[k]
    BY <1>1, <1>2
  <2>2. \E k \in 1..p : ~IsEnd(u[k]) /\ u[k].seq = s
    BY <2>1 DEF EndsComplete
  <2> QED
    BY <2>1, <2>2
<1> QED
  BY <1>2 DEF EndsComplete

\* One more answered command.
LEMMA AnswerExtends ==
  ASSUME NEW u \in Seq(EvRec), NEW w \in Seq(EvRec), NEW n \in Nat,
         Answered(u, n), EndsComplete(u), ExtendedBy(u, w, n + 1)
  PROVE  Answered(w, n + 1) /\ EndsComplete(w)
<1>0. /\ Len(u) \in Nat /\ Len(w) \in Nat /\ Len(u) < Len(w)
      /\ \A k \in 1..Len(u) : w[k] = u[k]
  BY LenProperties DEF ExtendedBy, Grown
<1>1. Len(u) + 1 \in 1..Len(w) /\ Len(u) + 1 \in (Len(u) + 1)..Len(w)
  BY <1>0
<1>2. ~IsEnd(w[Len(u) + 1]) /\ w[Len(u) + 1].seq = n + 1
  BY <1>1 DEF ExtendedBy
<1>3. ASSUME NEW s \in 1..(n + 1)
      PROVE  \E k \in 1..(Len(u) + 1) : ~IsEnd(w[k]) /\ w[k].seq = s
  <2>1. CASE s = n + 1
    BY <1>0, <1>1, <1>2, <2>1
  <2>2. CASE s \in 1..n
    <3>1. PICK k \in 1..Len(u) : ~IsEnd(u[k]) /\ u[k].seq = s
      BY <2>2 DEF Answered
    <3> QED
      BY <1>0, <3>1
  <2> QED
    BY <2>1, <2>2
<1>4. Answered(w, n + 1)
  <2>1. \A k \in 1..(Len(u) + 1) : k \in 1..Len(w)
    BY <1>0
  <2> QED
    BY <1>3, <2>1 DEF Answered
<1>5. ASSUME NEW p \in 1..Len(w), IsEnd(w[p]), NEW s \in 1..w[p].seq
      PROVE  \E k \in 1..p : ~IsEnd(w[k]) /\ w[k].seq = s
  <2>1. CASE p <= Len(u)
    <3>1. p \in 1..Len(u) /\ w[p] = u[p]
      BY <1>0, <2>1
    <3>2. PICK k \in 1..p : ~IsEnd(u[k]) /\ u[k].seq = s
      BY <1>5, <3>1 DEF EndsComplete
    <3> QED
      BY <1>0, <3>1, <3>2
  <2>2. CASE p > Len(u)
    <3>1. p \in (Len(u) + 1)..Len(w)
      BY <1>0, <2>2
    <3>2. w[p].seq = n + 1
      BY <3>1 DEF ExtendedBy
    <3>3. PICK k \in 1..(Len(u) + 1) : ~IsEnd(w[k]) /\ w[k].seq = s
      BY <1>3, <3>2
    <3> QED
      BY <1>0, <3>1, <3>3
  <2> QED
    BY <1>0, <2>1, <2>2
<1> QED
  BY <1>4, <1>5 DEF EndsComplete

\* How far the outbox has got with the commands, at each place of the recovery
\* and of the actor.
AnswerInv ==
  /\ EndsComplete(Outbox)
  /\ pc \notin {"replay", "apply"} => evBuf = <<>>
  /\ pc = "replay" => Answered(Outbox, complete) /\ Answered(Outbox, ri)
  /\ pc \in {"idle", "log"} => Answered(Outbox, Len(cmdFile.recs))
  /\ pc = "apply" => Answered(Outbox, seq - Len(batch))

LEMMA InitAnswerInv == Init => AnswerInv
<1> SUFFICES ASSUME Init PROVE AnswerInv
  OBVIOUS
<1>1. Outbox = <<>>
  BY EmptyIsFile DEF Init, Outbox
<1>2. Len(Outbox) = 0
  BY <1>1
<1> QED
  BY <1>2 DEF Init, AnswerInv, EndsComplete

\* ScanAndRepairOutbox: what it calls complete is answered in what it keeps.
LEMMA RepairIsAnswered ==
  ASSUME TypeInv, EndsComplete(evFile.recs)
  PROVE  Answered(Repaired(evFile).recs, CompleteSeq(evFile))
<1>1. evFile.recs \in Seq(EvRec) /\ Len(evFile.recs) \in Nat /\ IsFile(evFile, EvRec)
  BY OutboxFields
<1>2. CASE Ends(evFile) = {}
  BY <1>2 DEF CompleteSeq, Answered
<1>3. CASE /\ LastEnd(evFile) \in Ends(evFile)
           /\ Repaired(evFile).recs = Prefix(evFile.recs, LastEnd(evFile))
  <2> DEFINE p == LastEnd(evFile)
             v == Prefix(evFile.recs, p)
  <2>1. p \in 1..Len(evFile.recs) /\ p \in 0..Len(evFile.recs) /\ IsEnd(evFile.recs[p])
    BY <1>1, <1>3 DEF Ends
  <2>2. CompleteSeq(evFile) = evFile.recs[p].seq
    BY <1>3 DEF CompleteSeq
  <2> HIDE DEF p
  <2>3. Len(v) = p /\ \A k \in 1..p : v[k] = evFile.recs[k]
    BY <1>1, <2>1, PrefixProperties
  <2>4. \A s \in 1..evFile.recs[p].seq : \E k \in 1..p : ~IsEnd(evFile.recs[k]) /\ evFile.recs[k].seq = s
    BY <2>1 DEF EndsComplete
  <2> HIDE DEF v
  <2>5. Answered(v, CompleteSeq(evFile))
    BY <2>2, <2>3, <2>4 DEF Answered
  <2> QED
    BY <1>3, <2>5 DEF v, p
<1> QED
  BY <1>1, <1>2, <1>3, RepairedProperties

\* The two steps that answer a command.
LEMMA ReplayStep ==
  ASSUME TypeInv, CmdInv, ReplayRecord
  PROVE  /\ pc = "replay" /\ pc' = "replay" /\ ri' = ri + 1 /\ UNCHANGED <<complete, cmdFile>>
         /\ ri + 1 \in 1..Len(cmdFile.recs)
         /\ \/ ri + 1 <= complete /\ Outbox' = Outbox
            \/ /\ ~(ri + 1 <= complete)
               /\ ExtendedBy(Outbox, Outbox', ri + 1) /\ IsEnd(Outbox'[Len(Outbox')])
<1> DEFINE r == cmdFile.recs[ri + 1]
<1>1. /\ pc = "replay" /\ pc' = "replay" /\ ri' = ri + 1 /\ UNCHANGED <<complete, cmdFile, evFile>>
      /\ evBuf' = IF r.seq <= complete THEN evBuf ELSE evBuf \o ReplayEvents(r)
  BY DEF ReplayRecord
<1>2. r \in CmdRec /\ r.seq = ri + 1 /\ ri + 1 \in 1..Len(cmdFile.recs)
  BY NextCmdTyped DEF ReplayRecord, CmdInv, CmdsNumbered
<1> HIDE DEF r
<1>3. CASE r.seq <= complete
  BY <1>1, <1>2, <1>3 DEF Outbox
<1>4. CASE ~(r.seq <= complete)
  BY <1>1, <1>2, <1>4, ReplayExtends
<1> QED
  BY <1>1, <1>2, <1>3, <1>4

LEMMA ApplyStep ==
  ASSUME TypeInv, CmdInv, BatchNumbered, ApplyCmd
  PROVE  LET n == seq - Len(batch)
         IN  /\ pc = "apply" /\ pc' = "apply" /\ UNCHANGED cmdFile
             /\ n \in Nat /\ seq' - Len(batch') = n + 1 /\ n + 1 \in 1..Len(cmdFile.recs)
             /\ ExtendedBy(Outbox, Outbox', n + 1)
             /\ LoggedValid => IsEnd(Outbox'[Len(Outbox')])
<1> DEFINE r == Head(batch)
           n == seq - Len(batch)
<1>1. /\ pc = "apply" /\ batch # <<>> /\ pc' = "apply" /\ batch' = Tail(batch)
      /\ UNCHANGED <<evFile, seq, cmdFile>> /\ evBuf' = evBuf \o LiveEvents(r)
  BY DEF ApplyCmd
<1>2. r \in CmdRec /\ Len(batch) \in Nat /\ r.seq = n + 1 /\ Len(batch') = Len(batch) - 1
  BY <1>1, HeadNumbered
<1>3. r.seq \in 1..Len(cmdFile.recs) /\ cmdFile.recs[r.seq] = r
  <2>1. 1 \in 1..Len(batch) /\ r = batch[1]
    BY <1>1, HeadTailProperties, EmptySeq, LenProperties DEF TypeInv, TypeOK
  <2> QED
    BY <1>1, <2>1 DEF CmdInv, BatchInLog
<1>4. n \in Nat /\ seq' - Len(batch') = n + 1 /\ n + 1 \in 1..Len(cmdFile.recs)
  <2>1. seq \in Nat /\ Len(cmdFile.recs) \in Nat
    BY FileFields DEF TypeInv, TypeOK
  <2> QED
    BY <1>1, <1>2, <1>3, <2>1
<1> HIDE DEF r, n
<1>5. /\ ExtendedBy(Outbox, Outbox', n + 1)
      /\ Valid(r.cmd) => IsEnd(Outbox'[Len(Outbox')])
  BY <1>1, <1>2, LiveExtends
<1>6. LoggedValid => Valid(r.cmd)
  BY <1>3 DEF LoggedValid
<1> QED
  BY <1>1, <1>4, <1>5, <1>6 DEF n

LEMMA NextAnswerInv ==
  ASSUME TypeInv, TypeInv', CmdInv, NoneHidden, BatchNumbered, AnswerInv, [Next]_vars
  PROVE  AnswerInv'
<1> USE DEF disk, actor, recov, pubv, hist
<1>0. /\ Outbox \in Seq(EvRec) /\ Len(Outbox) \in Nat /\ evFile.recs \in Seq(EvRec)
      /\ Outbox' \in Seq(EvRec) /\ Len(Outbox') \in Nat
      /\ ri \in Nat /\ seq \in Nat /\ complete \in Nat
      /\ Len(cmdFile.recs) \in Nat
  BY OutboxFields, OutboxNext, FileFields DEF TypeInv, TypeOK
<1>a. ASSUME UNCHANGED <<evFile, evBuf, pc, cmdFile, complete, ri, seq, batch>> PROVE AnswerInv'
  BY <1>a DEF AnswerInv, Outbox
<1>b. ASSUME Outbox' = Outbox, UNCHANGED <<cmdFile, complete, ri, seq, batch>>, UNCHANGED pc,
             evBuf' = <<>> \/ pc \in {"replay", "apply"}
      PROVE  AnswerInv'
  BY <1>b DEF AnswerInv
<1>1. CASE Open
  <2>1. /\ evBuf = <<>> /\ evBuf' = <<>> /\ evFile' = Repaired(evFile) /\ pc' = "replay"
        /\ complete' = CompleteSeq(evFile) /\ ri' = 0
    BY <1>1 DEF Open, AnswerInv
  <2>2. Outbox' = Repaired(evFile).recs /\ Outbox = evFile.recs
    BY <2>1, OutboxFields, OutboxNext
  <2>3. Answered(Outbox', complete')
    BY <2>1, <2>2, RepairIsAnswered DEF AnswerInv
  <2>4. EndsComplete(Outbox')
    BY <1>0, <2>2, OutboxCuts, CompleteCuts DEF AnswerInv
  <2>5. Answered(Outbox', ri')
    BY <2>1 DEF Answered
  <2> QED
    BY <2>1, <2>3, <2>4, <2>5 DEF AnswerInv
<1>2. CASE ReplayRecord
  <2>1. /\ pc = "replay" /\ pc' = "replay" /\ ri' = ri + 1 /\ complete' = complete
        /\ \/ ri + 1 <= complete /\ Outbox' = Outbox
           \/ ExtendedBy(Outbox, Outbox', ri + 1)
    BY <1>2, ReplayStep
  <2>2. EndsComplete(Outbox) /\ Answered(Outbox, complete) /\ Answered(Outbox, ri)
    BY <2>1 DEF AnswerInv
  <2>3. CASE ri + 1 <= complete /\ Outbox' = Outbox
    <3>1. \A s \in 1..(ri + 1) : s \in 1..complete
      BY <1>0, <2>3
    <3>2. Answered(Outbox, ri + 1)
      BY <2>2, <3>1 DEF Answered
    <3> QED
      BY <2>1, <2>2, <2>3, <3>2 DEF AnswerInv
  <2>4. CASE ExtendedBy(Outbox, Outbox', ri + 1)
    <3>1. Answered(Outbox', ri + 1) /\ EndsComplete(Outbox')
      BY <1>0, <2>2, <2>4, AnswerExtends
    <3>2. Answered(Outbox', complete)
      BY <1>0, <2>2, <2>4, AnsweredGrows DEF ExtendedBy
    <3> QED
      BY <2>1, <3>1, <3>2 DEF AnswerInv
  <2> QED
    BY <2>1, <2>3, <2>4
<1>3. CASE ReplayFails
  <2>1. Outbox' = Outbox /\ evBuf' = <<>> /\ pc' = "down"
    BY <1>3, OutboxMoves DEF ReplayFails
  <2> QED
    BY <2>1 DEF AnswerInv
<1>4. CASE Start
  <2>1. Outbox' = Outbox /\ evBuf' = <<>> /\ pc' = "idle" /\ UNCHANGED cmdFile /\ pc = "replay"
    BY <1>4, OutboxMoves DEF Start
  <2>2. ri = Len(cmdFile.recs)
    BY <1>4, StartReads
  <2> QED
    BY <2>1, <2>2 DEF AnswerInv
<1>5. CASE TakeBatch
  <2>1. Outbox' = Outbox /\ pc = "idle" /\ pc' = "log" /\ UNCHANGED <<evBuf, cmdFile>>
    BY <1>5 DEF TakeBatch, Outbox
  <2> QED
    BY <2>1 DEF AnswerInv
<1>6. CASE FlushCmd
  <2>1. Outbox' = Outbox /\ pc = "log" /\ pc' = "apply" /\ UNCHANGED <<evBuf, seq, batch>>
    BY <1>6 DEF FlushCmd, Outbox
  <2>2. seq - Len(batch) = Len(cmdFile.recs)
    <3>1. Len(batch) \in Nat /\ seq = Len(cmdFile.recs) + Len(batch)
      BY <2>1, LenProperties DEF TypeInv, TypeOK, CmdInv, SeqAtEnd
    <3> QED
      BY <1>0, <3>1
  <2> QED
    BY <2>1, <2>2 DEF AnswerInv
<1>7. CASE ApplyCmd
  <2> DEFINE n == seq - Len(batch)
  <2>1. /\ pc = "apply" /\ pc' = "apply" /\ n \in Nat /\ seq' - Len(batch') = n + 1
        /\ ExtendedBy(Outbox, Outbox', n + 1)
    BY <1>7, ApplyStep
  <2>2. Answered(Outbox, n) /\ EndsComplete(Outbox)
    BY <2>1 DEF AnswerInv
  <2> HIDE DEF n
  <2>3. Answered(Outbox', n + 1) /\ EndsComplete(Outbox')
    BY <1>0, <2>1, <2>2, AnswerExtends
  <2> QED
    BY <2>1, <2>3 DEF AnswerInv
<1>8. CASE FlushEv
  <2>1. Outbox' = Outbox /\ evBuf' = <<>> /\ pc = "apply" /\ pc' = "idle" /\ UNCHANGED cmdFile
    BY <1>8, OutboxMoves DEF FlushEv
  <2>2. seq - Len(batch) = Len(cmdFile.recs)
    <3>1. Len(batch) = 0 /\ seq = Len(cmdFile.recs)
      BY <1>8 DEF FlushEv, CmdInv, SeqAtEnd
    <3> QED
      BY <1>0, <3>1
  <2> QED
    BY <2>1, <2>2 DEF AnswerInv
<1>9. CASE SpillEv
  <2>1. Outbox' = Outbox /\ UNCHANGED <<cmdFile, complete, ri, seq, batch>> /\ UNCHANGED pc /\ evBuf # <<>>
    BY <1>9, OutboxMoves DEF SpillEv
  <2> QED
    BY <1>b, <2>1 DEF AnswerInv
<1>10. CASE (\E c \in Commands : TryEnqueue(c)) \/ PubStart \/ PublishEvent \/ UNCHANGED vars
  BY <1>a, <1>10 DEF TryEnqueue, PubStart, PublishEvent, vars
<1>11. CASE CommitCursor \/ ReaderStumbles \/ ReaderCloses
  BY <1>a, <1>11 DEF CommitCursor, ReaderStumbles, ReaderCloses
<1>12. CASE Stop \/ Crash \/ PowerLoss \/ WriteFails \/ FillFails
  <2>1. Grown(Outbox', Outbox) /\ evBuf' = <<>> /\ pc' \in {"down", "dead"}
    BY <1>12, FaultCuts
  <2>2. EndsComplete(Outbox')
    BY <1>0, <2>1, CompleteCuts DEF AnswerInv
  <2> QED
    BY <2>1, <2>2 DEF AnswerInv
<1> QED
  BY <1>1, <1>2, <1>3, <1>4, <1>5, <1>6, <1>7, <1>8, <1>9, <1>10, <1>11, <1>12 DEF Next

\* What holds in every case, and what holds as long as no command is hidden.
AnyLog    == TypeInv /\ LogInv /\ BatchNumbered /\ EventsHaveCommands
NoneLost  == CmdInv /\ AnswerInv

LEMMA InitAnyLog == Init => AnyLog /\ NoneLost
BY InitTypeInv, InitLogInv, InitBatchNumbered, InitEvents, InitCmdInv, InitAnswerInv DEF AnyLog, NoneLost

LEMMA NextAnyLog ==
  ASSUME AnyLog, CleanFaults, [Next]_vars
  PROVE  AnyLog'
BY NextTypeInv, NextLogInv, NextBatchNumbered, NextEvents DEF AnyLog

LEMMA NextNoneLost ==
  ASSUME AnyLog, CleanFaults, NoneHidden, NoneLost, [Next]_vars
  PROVE  NoneLost'
BY NextTypeInv, NextCmdInv, NextAnswerInv DEF AnyLog, NoneLost

LEMMA NoneHiddenYet ==
  ASSUME AnyLog, CleanFaults, [Next]_vars, NoneHidden'
  PROVE  NoneHidden
BY NoneHiddenBefore DEF AnyLog

\* When the actor waits for work every command of cmd.wal has a result in the
\* outbox, unless a buried tear hides some: what a crash cut off, the replay has
\* filled in, and a batch is not finished before its answers are written.
THEOREM RestIsComplete ==
  ASSUME CleanFaults
  PROVE  Spec => []CompleteAtRest
<1> DEFINE IInv == AnyLog /\ (NoneHidden => NoneLost)
<1>1. Init => IInv
  BY InitAnyLog
<1>2. IInv /\ [Next]_vars => IInv'
  BY NextAnyLog, NextNoneLost, NoneHiddenYet
<1>3. IInv => CompleteAtRest
  <2> SUFFICES ASSUME IInv, pc = "idle", NoneHidden, NEW s \in 1..Len(cmdFile.recs)
               PROVE  \E e \in EventsIn(evFile.recs) : e.seq = s
    BY DEF CompleteAtRest
  <2>1. Outbox = evFile.recs /\ Answered(Outbox, Len(cmdFile.recs))
    BY OutboxFields DEF AnyLog, NoneLost, AnswerInv
  <2>2. PICK k \in 1..Len(evFile.recs) : ~IsEnd(evFile.recs[k]) /\ evFile.recs[k].seq = s
    BY <2>1 DEF Answered
  <2>3. evFile.recs[k] \in EventsIn(evFile.recs)
    BY <2>2 DEF EventsIn
  <2> QED
    BY <2>2, <2>3
<1> QED
  BY <1>1, <1>2, <1>3, PTL DEF Spec

-----------------------------------------------------------------------------
(* The order of the outbox *)

\* Numbers do not fall, a CmdEnd stands wherever they rise, and the first is 1.
Sorted(u)    == \A j, k \in 1..Len(u) : j <= k => u[j].seq <= u[k].seq
Separated(u) == \A j, k \in 1..Len(u) :
                  j <= k /\ u[j].seq < u[k].seq => \E i \in j..(k - 1) : IsEnd(u[i])
FromOne(u)   == Len(u) > 0 => u[1].seq = 1
InOrder(u)   == Sorted(u) /\ Separated(u) /\ FromOne(u)

UpTo(u, n)     == \A k \in 1..Len(u) : u[k].seq <= n
EndsWithEnd(u) == Len(u) > 0 => IsEnd(u[Len(u)])

LEMMA OrderCuts ==
  ASSUME NEW u, NEW v, Len(v) \in Nat, InOrder(u), Grown(v, u)
  PROVE  InOrder(v)
<1>1. \A k \in 1..Len(v) : k \in 1..Len(u) /\ u[k] = v[k]
  BY DEF Grown
<1>2. Sorted(v)
  BY <1>1 DEF InOrder, Sorted
<1>3. FromOne(v)
  BY <1>1 DEF InOrder, FromOne, Grown
<1>4. ASSUME NEW j \in 1..Len(v), NEW k \in 1..Len(v), j <= k, v[j].seq < v[k].seq
      PROVE  \E i \in j..(k - 1) : IsEnd(v[i])
  <2>1. PICK i \in j..(k - 1) : IsEnd(u[i])
    BY <1>1, <1>4 DEF InOrder, Separated
  <2>2. i \in 1..Len(v)
    BY <2>1
  <2> QED
    BY <1>1, <2>1, <2>2
<1> QED
  BY <1>2, <1>3, <1>4 DEF InOrder, Separated

LEMMA UpToCuts ==
  ASSUME NEW u, NEW v, Len(v) \in Nat, NEW n, UpTo(u, n), Grown(v, u)
  PROVE  UpTo(v, n)
BY DEF UpTo, Grown

LEMMA UpToMore ==
  ASSUME NEW u \in Seq(EvRec), NEW m \in Nat, NEW n \in Nat, m <= n, UpTo(u, m)
  PROVE  UpTo(u, n)
BY SeqsAreNat DEF UpTo

\* Numbers start at 1: a log in order up to 0 is empty, one up to 1 is all 1.
LEMMA OrderFromOne ==
  ASSUME NEW u \in Seq(EvRec), InOrder(u)
  PROVE  \A k \in 1..Len(u) : u[k].seq >= 1
<1>1. Len(u) \in Nat /\ \A k \in 1..Len(u) : u[k].seq \in Nat
  BY SeqsAreNat
<1> SUFFICES ASSUME NEW k \in 1..Len(u) PROVE u[k].seq >= 1
  OBVIOUS
<1>2. 1 \in 1..Len(u) /\ u[1].seq = 1 /\ 1 <= k
  BY <1>1 DEF InOrder, FromOne
<1>3. u[1].seq <= u[k].seq
  BY <1>2 DEF InOrder, Sorted
<1> QED
  BY <1>1, <1>2, <1>3

\* The answer to the command behind n keeps the order, when a CmdEnd stands in
\* front of it.
LEMMA OrderExtends ==
  ASSUME NEW u \in Seq(EvRec), NEW w \in Seq(EvRec), NEW n \in Nat,
         InOrder(u), UpTo(u, n), EndsWithEnd(u), Len(u) = 0 => n = 0,
         ExtendedBy(u, w, n + 1)
  PROVE  InOrder(w) /\ UpTo(w, n + 1)
<1>1. /\ Len(u) \in Nat /\ Len(w) \in Nat /\ Len(u) < Len(w)
      /\ \A k \in 1..Len(u) : w[k] = u[k] /\ u[k].seq \in Nat /\ u[k].seq <= n
  BY SeqsAreNat DEF ExtendedBy, Grown, UpTo
<1>2. \A k \in 1..Len(w) : ~(k <= Len(u)) => w[k].seq = n + 1
  BY <1>1 DEF ExtendedBy
<1>3. UpTo(w, n + 1)
  <2> SUFFICES ASSUME NEW k \in 1..Len(w) PROVE w[k].seq <= n + 1
    BY DEF UpTo
  <2>1. CASE k <= Len(u)
    BY <1>1, <2>1
  <2>2. CASE ~(k <= Len(u))
    BY <1>2, <2>2
  <2> QED
    BY <2>1, <2>2
<1>4. ASSUME NEW j \in 1..Len(w), NEW k \in 1..Len(w), j <= k
      PROVE  /\ w[j].seq <= w[k].seq
             /\ w[j].seq < w[k].seq => \E i \in j..(k - 1) : IsEnd(w[i])
  <2>1. CASE k <= Len(u)
    <3>1. j \in 1..Len(u) /\ k \in 1..Len(u)
      BY <1>1, <1>4, <2>1
    <3>2. w[j] = u[j] /\ w[k] = u[k]
      BY <1>1, <3>1
    <3>3. u[j].seq <= u[k].seq
      BY <1>4, <3>1 DEF InOrder, Sorted
    <3>4. ASSUME u[j].seq < u[k].seq PROVE \E i \in j..(k - 1) : IsEnd(w[i])
      <4>1. PICK i \in j..(k - 1) : IsEnd(u[i])
        BY <1>4, <3>1, <3>4 DEF InOrder, Separated
      <4>2. i \in 1..Len(u)
        BY <1>1, <3>1, <4>1
      <4> QED
        BY <1>1, <4>1, <4>2
    <3> QED
      BY <3>2, <3>3, <3>4
  <2>2. CASE j <= Len(u) /\ ~(k <= Len(u))
    <3>1. Len(u) \in j..(k - 1) /\ Len(u) \in 1..Len(u) /\ Len(u) > 0
      BY <1>1, <2>2
    <3>2. IsEnd(w[Len(u)])
      BY <1>1, <3>1 DEF EndsWithEnd
    <3>3. w[k].seq = n + 1 /\ w[j].seq \in Nat /\ w[j].seq <= n
      BY <1>1, <1>2, <2>2
    <3> QED
      BY <3>1, <3>2, <3>3
  <2>3. CASE ~(j <= Len(u))
    <3>1. w[j].seq = n + 1 /\ w[k].seq = n + 1
      BY <1>1, <1>2, <1>4, <2>3
    <3> QED
      BY <3>1
  <2> QED
    BY <2>1, <2>2, <2>3
<1>5. FromOne(w)
  <2>1. CASE Len(u) = 0
    BY <1>1, <1>2, <2>1 DEF FromOne
  <2>2. CASE Len(u) # 0
    BY <1>1, <2>2 DEF FromOne, InOrder
  <2> QED
    BY <2>1, <2>2
<1> QED
  BY <1>3, <1>4, <1>5 DEF InOrder, Sorted, Separated

\* Without a CmdEnd in front it keeps the order only for command 1: what a kill
\* has left of its first answer stays, and the replay answers it again.
LEMMA OrderRepeats ==
  ASSUME NEW u \in Seq(EvRec), NEW w \in Seq(EvRec), InOrder(u), UpTo(u, 1), ExtendedBy(u, w, 1)
  PROVE  InOrder(w) /\ UpTo(w, 1)
<1>1. /\ Len(u) \in Nat /\ Len(w) \in Nat /\ Len(u) < Len(w)
      /\ \A k \in 1..Len(u) : w[k] = u[k] /\ u[k].seq \in Nat /\ u[k].seq <= 1 /\ u[k].seq >= 1
  BY SeqsAreNat, OrderFromOne DEF ExtendedBy, Grown, UpTo
<1>2. ASSUME NEW k \in 1..Len(w) PROVE w[k].seq = 1
  <2>1. CASE k <= Len(u)
    BY <1>1, <2>1
  <2>2. CASE ~(k <= Len(u))
    BY <1>1, <2>2 DEF ExtendedBy
  <2> QED
    BY <2>1, <2>2
<1> QED
  BY <1>1, <1>2 DEF InOrder, Sorted, Separated, FromOne, UpTo

\* ScanAndRepairOutbox leaves a log that ends with the last complete command, or
\* one without a CmdEnd that is about command 1 at most.
LEMMA RepairOrder ==
  ASSUME TypeInv, InOrder(evFile.recs)
  PROVE  LET v == Repaired(evFile).recs
             c == CompleteSeq(evFile)
         IN  \/ c = 0 /\ UpTo(v, 1)
             \/ Len(v) > 0 /\ EndsWithEnd(v) /\ UpTo(v, c)
<1>1. evFile.recs \in Seq(EvRec) /\ Len(evFile.recs) \in Nat /\ IsFile(evFile, EvRec)
  BY OutboxFields
<1>2. \A k \in 1..Len(evFile.recs) : evFile.recs[k].seq \in Nat
  BY <1>1, SeqsAreNat
<1>3. CASE Ends(evFile) = {}
  <2>1. CompleteSeq(evFile) = 0 /\ Repaired(evFile).recs = evFile.recs
    BY <1>3 DEF CompleteSeq, Repaired
  <2>2. ASSUME NEW k \in 1..Len(evFile.recs) PROVE evFile.recs[k].seq <= 1
    <3>1. 1 \in 1..Len(evFile.recs) /\ evFile.recs[1].seq = 1 /\ 1 <= k
      BY <1>1 DEF InOrder, FromOne
    <3>2. \A i \in 1..(k - 1) : ~IsEnd(evFile.recs[i])
      BY <1>1, <1>3 DEF Ends
    <3>3. ~(evFile.recs[1].seq < evFile.recs[k].seq)
      BY <3>1, <3>2 DEF InOrder, Separated
    <3> QED
      BY <1>2, <3>1, <3>3
  <2> QED
    BY <2>1, <2>2 DEF UpTo
<1>4. CASE /\ LastEnd(evFile) \in Ends(evFile)
           /\ Repaired(evFile).recs = Prefix(evFile.recs, LastEnd(evFile))
  <2> DEFINE p == LastEnd(evFile)
             v == Prefix(evFile.recs, p)
  <2>1. p \in 1..Len(evFile.recs) /\ p \in 0..Len(evFile.recs) /\ IsEnd(evFile.recs[p])
    BY <1>1, <1>4 DEF Ends
  <2>2. CompleteSeq(evFile) = evFile.recs[p].seq
    BY <1>4 DEF CompleteSeq
  <2> HIDE DEF p
  <2>3. Len(v) = p /\ \A k \in 1..p : v[k] = evFile.recs[k]
    BY <1>1, <2>1, PrefixProperties
  <2> HIDE DEF v
  <2>4. Len(v) > 0 /\ EndsWithEnd(v)
    BY <1>1, <2>1, <2>3 DEF EndsWithEnd
  <2>5. UpTo(v, CompleteSeq(evFile))
    <3> SUFFICES ASSUME NEW k \in 1..p PROVE evFile.recs[k].seq <= evFile.recs[p].seq
      BY <2>2, <2>3 DEF UpTo
    <3>1. k \in 1..Len(evFile.recs) /\ k <= p
      BY <1>1, <2>1
    <3> QED
      BY <2>1, <3>1 DEF InOrder, Sorted
  <2> QED
    BY <1>4, <2>4, <2>5 DEF v, p
<1> QED
  BY <1>1, <1>3, <1>4, RepairedProperties

-----------------------------------------------------------------------------
(* The outbox is in order *)

\* Where the outbox may end, at each place of the recovery and of the actor.
ReplayEnds ==
  \/ ri = 0 /\ complete = 0 /\ UpTo(Outbox, 1)
  \/ Len(Outbox) > 0 /\ EndsWithEnd(Outbox) /\ (UpTo(Outbox, complete) \/ UpTo(Outbox, ri))
RestEnds  == EndsWithEnd(Outbox) /\ (Len(Outbox) = 0 => Len(cmdFile.recs) = 0)
ApplyEnds ==
  /\ EndsWithEnd(Outbox) /\ UpTo(Outbox, seq - Len(batch))
  /\ Len(Outbox) = 0 => seq - Len(batch) = 0

Numbers == UpTo(Outbox, Len(cmdFile.recs))

OrderInv ==
  LoggedValid =>
    /\ InOrder(Outbox)
    /\ pc = "replay" => ReplayEnds
    /\ pc \in {"idle", "log"} => RestEnds
    /\ pc = "apply" => ApplyEnds

\* The last event sent is one of those the reader has passed.
LastIsRead ==
  Reading =>
    lastPub = 0 \/ \E j \in 1..rd : j <= Len(evFile.recs) /\ lastPub = evFile.recs[j].seq

LEMMA InitOrder == Init => Numbers /\ OrderInv /\ LastIsRead
<1> SUFFICES ASSUME Init PROVE Numbers /\ OrderInv /\ LastIsRead
  OBVIOUS
<1>1. Outbox = <<>>
  BY EmptyIsFile DEF Init, Outbox
<1>2. Len(Outbox) = 0
  BY <1>1
<1>3. Numbers /\ InOrder(Outbox)
  BY <1>2 DEF Numbers, UpTo, InOrder, Sorted, Separated, FromOne
<1>4. pc = "down" /\ pub = "off"
  BY DEF Init
<1> QED
  BY <1>3, <1>4 DEF OrderInv, Reading, LastIsRead

\* Open, as the outbox sees it.
LEMMA OpenCuts ==
  ASSUME TypeInv, TypeInv', AnswerInv, Open
  PROVE  /\ Outbox = evFile.recs /\ Outbox' = Repaired(evFile).recs
         /\ Grown(Outbox', Outbox)
         /\ pc' = "replay" /\ ri' = 0 /\ complete' = CompleteSeq(evFile)
<1>1. /\ evBuf = <<>> /\ evBuf' = <<>> /\ evFile' = Repaired(evFile)
      /\ pc' = "replay" /\ ri' = 0 /\ complete' = CompleteSeq(evFile)
  BY DEF Open, AnswerInv
<1>2. Outbox = evFile.recs /\ Outbox' = Repaired(evFile).recs
  BY <1>1, OutboxFields, OutboxNext
<1> QED
  BY <1>1, <1>2, OutboxCuts

\* The steps that leave the outbox as it is, or cut it.
LEMMA OutboxKept ==
  ASSUME TypeInv, TypeInv', AnswerInv, [Next]_vars, ~ReplayRecord, ~ApplyCmd
  PROVE  Grown(Outbox', Outbox)
<1> USE DEF disk, actor, recov, pubv, hist
<1>0. Len(Outbox) \in Nat
  BY OutboxFields
<1>a. ASSUME Outbox' = Outbox PROVE Grown(Outbox', Outbox)
  BY <1>0, <1>a DEF Grown
<1>1. CASE Open
  BY <1>1, OpenCuts
<1>2. CASE ReplayFails \/ Start \/ FlushEv \/ SpillEv
  BY <1>a, <1>2, OutboxMoves DEF ReplayFails, Start, FlushEv
<1>3. CASE (\E c \in Commands : TryEnqueue(c)) \/ TakeBatch \/ FlushCmd \/ UNCHANGED vars
  BY <1>a, <1>3 DEF TryEnqueue, TakeBatch, FlushCmd, Outbox, vars
<1>4. CASE PubStart \/ PublishEvent \/ CommitCursor \/ ReaderStumbles \/ ReaderCloses
  BY <1>a, <1>4 DEF PubStart, PublishEvent, CommitCursor, ReaderStumbles, ReaderCloses, Outbox
<1>5. CASE Stop \/ Crash \/ PowerLoss \/ WriteFails \/ FillFails
  BY <1>5, FaultCuts
<1> QED
  BY <1>1, <1>2, <1>3, <1>4, <1>5 DEF Next

LEMMA NextNumbers ==
  ASSUME TypeInv, TypeInv', LogInv, CmdInv, CleanFaults, BatchNumbered, AnswerInv, Numbers, [Next]_vars
  PROVE  Numbers'
<1>0. /\ Outbox \in Seq(EvRec) /\ Outbox' \in Seq(EvRec)
      /\ Len(Outbox) \in Nat /\ Len(Outbox') \in Nat
      /\ Len(cmdFile.recs) \in Nat /\ Len(cmdFile'.recs) \in Nat
      /\ Len(cmdFile.recs) <= Len(cmdFile'.recs)
  BY OutboxFields, OutboxNext, CmdsGrow, FileFields DEF TypeInv, TypeOK, Grown
<1>1. ASSUME NEW n \in 1..Len(cmdFile.recs), ExtendedBy(Outbox, Outbox', n) PROVE Numbers'
  <2> SUFFICES ASSUME NEW k \in 1..Len(Outbox') PROVE Outbox'[k].seq <= Len(cmdFile'.recs)
    BY DEF Numbers, UpTo
  <2>1. CASE k <= Len(Outbox)
    <3>1. Outbox'[k] = Outbox[k] /\ k \in 1..Len(Outbox)
      BY <1>0, <1>1, <2>1 DEF ExtendedBy, Grown
    <3>2. Outbox[k].seq \in Nat /\ Outbox[k].seq <= Len(cmdFile.recs)
      BY <1>0, <3>1, SeqsAreNat DEF Numbers, UpTo
    <3> QED
      BY <1>0, <3>1, <3>2
  <2>2. CASE ~(k <= Len(Outbox))
    <3>1. k \in (Len(Outbox) + 1)..Len(Outbox')
      BY <1>0, <2>2
    <3>2. Outbox'[k].seq = n
      BY <1>1, <3>1 DEF ExtendedBy
    <3> QED
      BY <1>0, <3>2
  <2> QED
    BY <2>1, <2>2
<1>2. ASSUME Grown(Outbox', Outbox) PROVE Numbers'
  <2>1. UpTo(Outbox', Len(cmdFile.recs))
    BY <1>0, <1>2, UpToCuts DEF Numbers
  <2> QED
    BY <1>0, <2>1, UpToMore DEF Numbers
<1>3. CASE ReplayRecord
  BY <1>0, <1>1, <1>2, <1>3, ReplayStep DEF Grown
<1>4. CASE ApplyCmd
  BY <1>1, <1>4, ApplyStep
<1> QED
  BY <1>2, <1>3, <1>4, OutboxKept

\* A log without refused commands was without them before.
LEMMA ValidBefore ==
  ASSUME TypeInv, LogInv, CleanFaults, [Next]_vars, LoggedValid'
  PROVE  LoggedValid
<1>1. /\ Len(cmdFile.recs) <= Len(cmdFile'.recs) /\ Len(cmdFile'.recs) \in Nat
      /\ Len(cmdFile.recs) \in Nat
      /\ \A k \in 1..Len(cmdFile.recs) : cmdFile'.recs[k] = cmdFile.recs[k]
  BY CmdsGrow, FileFields DEF Grown, TypeInv, TypeOK
<1> SUFFICES ASSUME NEW k \in 1..Len(cmdFile.recs) PROVE Valid(cmdFile.recs[k].cmd)
  BY DEF LoggedValid
<1>2. k \in 1..Len(cmdFile'.recs) /\ cmdFile'.recs[k] = cmdFile.recs[k]
  BY <1>1
<1>3. Valid(cmdFile'.recs[k].cmd)
  BY <1>2 DEF LoggedValid
<1> QED
  BY <1>2, <1>3

LEMMA NextOrderInv ==
  ASSUME TypeInv, TypeInv', LogInv, CmdInv, CleanFaults, NoneHidden, BatchNumbered, AnswerInv,
         Numbers, OrderInv, [Next]_vars
  PROVE  OrderInv'
<1> USE DEF disk, actor, recov, pubv, hist
<1> SUFFICES ASSUME LoggedValid'
             PROVE  /\ InOrder(Outbox')
                    /\ pc' = "replay" => ReplayEnds'
                    /\ pc' \in {"idle", "log"} => RestEnds'
                    /\ pc' = "apply" => ApplyEnds'
  BY DEF OrderInv
<1>0. /\ Outbox \in Seq(EvRec) /\ Outbox' \in Seq(EvRec)
      /\ Len(Outbox) \in Nat /\ Len(Outbox') \in Nat
      /\ Len(cmdFile.recs) \in Nat /\ ri \in Nat /\ complete \in Nat /\ seq \in Nat
  BY OutboxFields, OutboxNext, FileFields DEF TypeInv, TypeOK
<1>1. LoggedValid
  BY ValidBefore
<1>2. /\ InOrder(Outbox)
      /\ pc = "replay" => ReplayEnds
      /\ pc \in {"idle", "log"} => RestEnds
      /\ pc = "apply" => ApplyEnds
  BY <1>1 DEF OrderInv
<1>3. ASSUME Grown(Outbox', Outbox) PROVE InOrder(Outbox')
  BY <1>0, <1>2, <1>3, OrderCuts
<1>4. CASE Open
  <2>1. /\ Outbox = evFile.recs /\ Outbox' = Repaired(evFile).recs /\ Grown(Outbox', Outbox)
        /\ pc' = "replay" /\ ri' = 0 /\ complete' = CompleteSeq(evFile)
    BY <1>4, OpenCuts
  <2>2. ReplayEnds'
    <3>1. \/ complete' = 0 /\ UpTo(Outbox', 1)
          \/ Len(Outbox') > 0 /\ EndsWithEnd(Outbox') /\ UpTo(Outbox', complete')
      BY <1>2, <2>1, RepairOrder
    <3> QED
      BY <2>1, <3>1 DEF ReplayEnds
  <2> QED
    BY <1>3, <2>1, <2>2
<1>5. CASE ReplayRecord
  <2>1. /\ pc = "replay" /\ pc' = "replay" /\ ri' = ri + 1 /\ complete' = complete
        /\ \/ ri + 1 <= complete /\ Outbox' = Outbox
           \/ /\ ~(ri + 1 <= complete)
              /\ ExtendedBy(Outbox, Outbox', ri + 1) /\ IsEnd(Outbox'[Len(Outbox')])
    BY <1>5, ReplayStep
  <2>2. CASE ri + 1 <= complete /\ Outbox' = Outbox
    <3>1. Len(Outbox) > 0 /\ EndsWithEnd(Outbox) /\ (UpTo(Outbox, complete) \/ UpTo(Outbox, ri))
      BY <1>0, <1>2, <2>1, <2>2 DEF ReplayEnds
    <3>2. UpTo(Outbox, ri) => UpTo(Outbox, ri + 1)
      BY <1>0, UpToMore
    <3> QED
      BY <1>2, <2>1, <2>2, <3>1, <3>2 DEF ReplayEnds
  <2>3. CASE /\ ~(ri + 1 <= complete)
             /\ ExtendedBy(Outbox, Outbox', ri + 1) /\ IsEnd(Outbox'[Len(Outbox')])
    <3>1. Len(Outbox') > 0 /\ EndsWithEnd(Outbox')
      BY <1>0, <2>3 DEF ExtendedBy, EndsWithEnd
    <3>2. InOrder(Outbox') /\ UpTo(Outbox', ri + 1)
      <4>1. CASE ri = 0 /\ UpTo(Outbox, 1)
        BY <1>0, <1>2, <2>3, <4>1, OrderRepeats
      <4>2. CASE Len(Outbox) > 0 /\ EndsWithEnd(Outbox) /\ (UpTo(Outbox, complete) \/ UpTo(Outbox, ri))
        <5>1. UpTo(Outbox, ri)
          BY <1>0, <2>3, <4>2, UpToMore
        <5> QED
          BY <1>0, <1>2, <2>3, <4>2, <5>1, OrderExtends
      <4> QED
        BY <1>2, <2>1, <4>1, <4>2 DEF ReplayEnds
    <3> QED
      BY <2>1, <3>1, <3>2 DEF ReplayEnds
  <2> QED
    BY <2>1, <2>2, <2>3
<1>6. CASE Start
  <2>1. /\ pc = "replay" /\ pc' = "idle" /\ Outbox' = Outbox /\ UNCHANGED cmdFile
        /\ ri = Len(cmdFile.recs)
    BY <1>6, OutboxMoves, StartReads DEF Start
  <2>2. RestEnds
    <3>1. CASE ri = 0 /\ UpTo(Outbox, 1)
      <4>1. \A k \in 1..Len(Outbox) : Outbox[k].seq \in Nat /\ Outbox[k].seq <= 0 /\ Outbox[k].seq >= 1
        BY <1>0, <1>2, <2>1, <3>1, OrderFromOne, SeqsAreNat DEF Numbers, UpTo
      <4>2. Len(Outbox) = 0
        BY <1>0, <4>1
      <4> QED
        BY <2>1, <3>1, <4>2 DEF RestEnds, EndsWithEnd
    <3>2. CASE Len(Outbox) > 0 /\ EndsWithEnd(Outbox)
      BY <3>2 DEF RestEnds
    <3> QED
      BY <1>2, <2>1, <3>1, <3>2 DEF ReplayEnds
  <2> QED
    BY <1>2, <2>1, <2>2 DEF RestEnds
<1>7. CASE TakeBatch
  <2>1. pc = "idle" /\ pc' = "log" /\ Outbox' = Outbox /\ UNCHANGED cmdFile
    BY <1>7 DEF TakeBatch, Outbox
  <2> QED
    BY <1>2, <2>1 DEF RestEnds
<1>8. CASE FlushCmd
  <2>1. pc = "log" /\ pc' = "apply" /\ Outbox' = Outbox /\ UNCHANGED <<seq, batch>>
    BY <1>8 DEF FlushCmd, Outbox
  <2>2. seq - Len(batch) = Len(cmdFile.recs)
    <3>1. Len(batch) \in Nat /\ seq = Len(cmdFile.recs) + Len(batch)
      BY <2>1, LenProperties DEF TypeInv, TypeOK, CmdInv, SeqAtEnd
    <3> QED
      BY <1>0, <3>1
  <2> QED
    BY <1>2, <2>1, <2>2 DEF RestEnds, ApplyEnds, Numbers
<1>9. CASE ApplyCmd
  <2> DEFINE n == seq - Len(batch)
  <2>1. /\ pc = "apply" /\ pc' = "apply" /\ n \in Nat /\ seq' - Len(batch') = n + 1
        /\ ExtendedBy(Outbox, Outbox', n + 1) /\ IsEnd(Outbox'[Len(Outbox')])
    BY <1>1, <1>9, ApplyStep
  <2>2. EndsWithEnd(Outbox) /\ UpTo(Outbox, n) /\ (Len(Outbox) = 0 => n = 0)
    BY <1>2, <2>1 DEF ApplyEnds
  <2> HIDE DEF n
  <2>3. InOrder(Outbox') /\ UpTo(Outbox', n + 1)
    BY <1>0, <1>2, <2>1, <2>2, OrderExtends
  <2>4. Len(Outbox') > 0 /\ EndsWithEnd(Outbox')
    BY <1>0, <2>1 DEF ExtendedBy, EndsWithEnd
  <2>5. ApplyEnds'
    BY <1>0, <2>1, <2>3, <2>4 DEF ApplyEnds
  <2> QED
    BY <2>1, <2>3, <2>5
<1>10. CASE FlushEv
  <2>1. pc = "apply" /\ pc' = "idle" /\ Outbox' = Outbox /\ UNCHANGED cmdFile
    BY <1>10, OutboxMoves DEF FlushEv
  <2>2. seq - Len(batch) = Len(cmdFile.recs)
    <3>1. Len(batch) = 0 /\ seq = Len(cmdFile.recs)
      BY <1>10 DEF FlushEv, CmdInv, SeqAtEnd
    <3> QED
      BY <1>0, <3>1
  <2> QED
    BY <1>2, <2>1, <2>2 DEF RestEnds, ApplyEnds
<1>11. ASSUME Outbox' = Outbox, UNCHANGED <<pc, cmdFile, ri, complete, seq, batch>>
       PROVE  /\ InOrder(Outbox')
              /\ pc' = "replay" => ReplayEnds'
              /\ pc' \in {"idle", "log"} => RestEnds'
              /\ pc' = "apply" => ApplyEnds'
  BY <1>2, <1>11 DEF ReplayEnds, RestEnds, ApplyEnds
<1>12. CASE SpillEv
  BY <1>11, <1>12, OutboxMoves DEF SpillEv
<1>13. CASE (\E c \in Commands : TryEnqueue(c)) \/ UNCHANGED vars
  BY <1>11, <1>13 DEF TryEnqueue, Outbox, vars
<1>14. CASE PubStart \/ PublishEvent \/ CommitCursor \/ ReaderStumbles \/ ReaderCloses
  BY <1>11, <1>14 DEF PubStart, PublishEvent, CommitCursor, ReaderStumbles, ReaderCloses, Outbox
<1>15. CASE ReplayFails
  <2>1. Outbox' = Outbox /\ pc' = "down"
    BY <1>15, OutboxMoves DEF ReplayFails
  <2> QED
    BY <1>2, <2>1
<1>16. CASE Stop \/ Crash \/ PowerLoss \/ WriteFails \/ FillFails
  <2>1. Grown(Outbox', Outbox) /\ pc' \in {"down", "dead"}
    BY <1>16, FaultCuts
  <2> QED
    BY <1>3, <2>1
<1> QED
  BY <1>4, <1>5, <1>6, <1>7, <1>8, <1>9, <1>10, <1>12, <1>13, <1>14, <1>15, <1>16 DEF Next

\* While a publisher runs, its outbox is not cut.
LEMMA NextLastIsRead ==
  ASSUME TypeInv, LastIsRead, [Next]_vars
  PROVE  LastIsRead'
<1> USE DEF disk, actor, recov, pubv, hist
<1>0. rd \in Nat /\ Len(evFile.recs) \in Nat
  BY OutboxFields DEF TypeInv, TypeOK
<1>1. ASSUME pub' \notin {"on", "blind"} PROVE LastIsRead'
  BY <1>1 DEF LastIsRead, Reading
<1>2. ASSUME Grown(evFile.recs, evFile'.recs), UNCHANGED <<pub, rd, lastPub>>
      PROVE  LastIsRead'
  BY <1>0, <1>2 DEF LastIsRead, Reading, Grown
<1>3. ASSUME UNCHANGED evFile PROVE Grown(evFile.recs, evFile'.recs)
  BY <1>0, <1>3 DEF Grown
<1>4. CASE Open \/ ReplayRecord \/ ReplayFails \/ FillFails
  <2>1. pub' = "off"
    BY <1>4 DEF TypeInv, PubNeedsActor, Open, ReplayRecord, ReplayFails, FillFails
  <2> QED
    BY <1>1, <2>1
<1>5. CASE Start \/ Stop \/ Crash \/ PowerLoss \/ ReaderCloses
  BY <1>1, <1>5 DEF Start, Stop, Crash, PowerLoss, Halt, ReaderCloses
<1>6. CASE (\E c \in Commands : TryEnqueue(c)) \/ TakeBatch \/ FlushCmd \/ ApplyCmd \/ UNCHANGED vars
  BY <1>2, <1>3, <1>6 DEF TryEnqueue, TakeBatch, FlushCmd, ApplyCmd, vars
<1>7. CASE FlushEv
  BY <1>2, <1>7, FlushedGrown DEF FlushEv
<1>8. CASE SpillEv
  <2>1. PICK k \in 1..Len(evBuf) : evFile' = Write(evFile, Prefix(evBuf, k), "clean")
    BY <1>8 DEF SpillEv
  <2>2. evFile'.recs = evFile.recs \o Prefix(evBuf, k) /\ k \in 0..Len(evBuf)
    BY <2>1, LenProperties DEF Write, TypeInv, TypeOK
  <2>3. Grown(evFile.recs, evFile'.recs)
    BY <2>2, EvGrown
  <2> QED
    BY <1>2, <1>8, <2>3 DEF SpillEv
<1>9. CASE WriteFails
  <2>1. UNCHANGED evFile \/ evFile' \in PartialWrites(evFile, evBuf, "torn" \in Faults)
    BY <1>9 DEF WriteFails
  <2>2. Grown(evFile.recs, evFile'.recs)
    BY <1>3, <2>1, PartialGrown
  <2> QED
    BY <1>2, <1>9, <2>2 DEF WriteFails
<1>10. CASE PubStart
  BY <1>10 DEF PubStart, LastIsRead
<1>11. CASE PublishEvent
  <2>1. rd + 1 \in 1..Len(evFile.recs)
    BY <1>11, NextEvTyped DEF PublishEvent
  <2>2. rd' = rd + 1 /\ lastPub' = evFile.recs[rd + 1].seq /\ UNCHANGED evFile
    BY <1>11 DEF PublishEvent
  <2>3. rd + 1 \in 1..rd'
    BY <1>0, <2>2
  <2> QED
    BY <1>0, <2>1, <2>2, <2>3 DEF LastIsRead
<1>12. CASE CommitCursor \/ ReaderStumbles
  <2>1. rd' = rd + 1 /\ UNCHANGED <<evFile, lastPub>> /\ Reading
    BY <1>12 DEF CommitCursor, ReaderStumbles, Reading
  <2> QED
    BY <1>0, <2>1 DEF LastIsRead
<1> QED
  BY <1>4, <1>5, <1>6, <1>7, <1>8, <1>9, <1>10, <1>11, <1>12 DEF Next

\* The publisher reads on in a log whose numbers do not fall.
LEMMA SentInOrder ==
  ASSUME TypeInv, OrderInv, LastIsRead, [Next]_vars, LoggedValid, Reading, Reading'
  PROVE  lastPub' >= lastPub
<1> USE DEF disk, actor, recov, pubv, hist
<1>0. /\ lastPub \in Nat /\ rd \in Nat /\ Len(evFile.recs) \in Nat
      /\ evFile.recs \in Seq(EvRec)
  BY OutboxFields DEF TypeInv, TypeOK
<1>1. ASSUME UNCHANGED lastPub PROVE lastPub' >= lastPub
  BY <1>0, <1>1
<1>2. CASE PublishEvent
  <2>1. rd + 1 \in 1..Len(evFile.recs) /\ lastPub' = evFile.recs[rd + 1].seq
    BY <1>2, NextEvTyped DEF PublishEvent
  <2>2. evFile.recs[rd + 1].seq \in Nat
    BY <1>0, <2>1, SeqsAreNat
  <2>3. CASE lastPub = 0
    BY <2>1, <2>2, <2>3
  <2>4. ASSUME NEW j \in 1..rd, j <= Len(evFile.recs), lastPub = evFile.recs[j].seq
        PROVE  lastPub' >= lastPub
    <3>1. Grown(evFile.recs, Outbox) /\ InOrder(Outbox)
      BY OutboxFields DEF OrderInv
    <3>2. InOrder(evFile.recs)
      BY <1>0, <3>1, OrderCuts
    <3>3. j \in 1..Len(evFile.recs) /\ j <= rd + 1
      BY <1>0, <2>4
    <3>4. evFile.recs[j].seq <= evFile.recs[rd + 1].seq
      BY <2>1, <3>2, <3>3 DEF InOrder, Sorted
    <3> QED
      BY <1>0, <2>1, <2>2, <2>4, <3>4
  <2> QED
    BY <2>3, <2>4 DEF LastIsRead
<1>3. CASE PubStart
  BY <1>3 DEF PubStart, Reading
<1>4. CASE Open \/ ReplayRecord \/ ReplayFails \/ Start \/ (\E c \in Commands : TryEnqueue(c)) \/ TakeBatch
  BY <1>1, <1>4 DEF Open, ReplayRecord, ReplayFails, Start, TryEnqueue, TakeBatch
<1>5. CASE FlushCmd \/ ApplyCmd \/ FlushEv \/ SpillEv \/ CommitCursor \/ ReaderStumbles \/ ReaderCloses
  BY <1>1, <1>5 DEF FlushCmd, ApplyCmd, FlushEv, SpillEv, CommitCursor, ReaderStumbles, ReaderCloses
<1>6. CASE Stop \/ Crash \/ PowerLoss \/ WriteFails \/ FillFails \/ UNCHANGED vars
  BY <1>1, <1>6 DEF Stop, Crash, PowerLoss, WriteFails, FillFails, Halt, vars
<1> QED
  BY <1>2, <1>3, <1>4, <1>5, <1>6 DEF Next

\* What the order of the outbox needs, as long as no command is hidden.
Ordered == NoneLost /\ Numbers /\ OrderInv

LEMMA NextOrdered ==
  ASSUME AnyLog, CleanFaults, NoneHidden, Ordered, [Next]_vars
  PROVE  Ordered'
<1>1. TypeInv /\ TypeInv' /\ LogInv /\ BatchNumbered /\ CmdInv /\ AnswerInv
  BY NextTypeInv DEF AnyLog, Ordered, NoneLost
<1> QED
  BY <1>1, NextNoneLost, NextNumbers, NextOrderInv DEF Ordered

\* One run of the publisher sends the events in the order of their commands, as
\* long as no command in cmd.wal was refused or is hidden, across what crashes cut
\* off the outbox and the replay writes to it again.
THEOREM EventsLeaveInOrder ==
  ASSUME CleanFaults
  PROVE  Spec => PublishedInOrder
<1> DEFINE IInv == AnyLog /\ LastIsRead /\ (NoneHidden => Ordered)
<1>1. Init => IInv
  BY InitAnyLog, InitOrder DEF Ordered
<1>2. IInv /\ [Next]_vars => IInv'
  <2>1. AnyLog => TypeInv
    BY DEF AnyLog
  <2> QED
    BY <2>1, NextAnyLog, NextLastIsRead, NextOrdered, NoneHiddenYet
<1>3. IInv /\ [Next]_vars => [LoggedValid /\ NoneHidden /\ Reading /\ Reading' => lastPub' >= lastPub]_vars
  BY SentInOrder DEF AnyLog, Ordered
<1> QED
  BY <1>1, <1>2, <1>3, PTL DEF Spec, PublishedInOrder

-----------------------------------------------------------------------------
(* The book as a function of the log *)

\* f is the recursive function Replayed, for the first n commands of log s.
IsReplay(s, n, f) ==
  f = [k \in 0..n |-> IF k = 0 THEN Book0 ELSE Apply(f[k - 1], s[k].cmd).book]

\* The book behind the first n commands of log s.
BookAt(s, n) == (CHOOSE f : IsReplay(s, Len(s), f))[n]

LEMMA ReplayedIsBookAt ==
  Replayed[Len(cmdFile.recs)] = BookAt(cmdFile.recs, Len(cmdFile.recs))
BY DEF Replayed, BookAt, IsReplay

LEMMA LeastNat ==
  ASSUME NEW T \in SUBSET Nat, T # {}
  PROVE  \E x \in T : \A y \in T : x <= y
<1>1. \E x \in T : \A y \in T : ~(<<y, x>> \in OpToRel(<, Nat))
  BY NatLessThanWellFounded, WFMin
<1>2. PICK x \in T : \A y \in T : ~(y < x)
  BY <1>1 DEF OpToRel
<1> QED
  BY <1>2

\* The recursion defines a function: were there a log length it fails for, the
\* least one would be one more than a length it works for.
LEMMA ReplayExists ==
  ASSUME NEW s, NEW m \in Nat
  PROVE  \E f : IsReplay(s, m, f)
<1> DEFINE T == {n \in Nat : ~\E f : IsReplay(s, n, f)}
<1>1. SUFFICES ASSUME T # {} PROVE FALSE
  OBVIOUS
<1>2. T \in SUBSET Nat
  OBVIOUS
<1>3. PICK n \in T : \A y \in T : n <= y
  BY <1>1, <1>2, LeastNat
<1>4. n # 0
  <2> DEFINE g == [k \in 0..0 |-> Book0]
  <2>1. \A k \in 0..0 : k = 0
    OBVIOUS
  <2>2. IsReplay(s, 0, g)
    BY <2>1 DEF IsReplay
  <2> HIDE DEF g
  <2> QED
    BY <2>2
<1>5. n - 1 \in Nat /\ n - 1 \notin T
  BY <1>3, <1>4
<1>6. PICK f : IsReplay(s, n - 1, f)
  BY <1>5
<1> DEFINE g == [k \in 0..n |-> IF k = n THEN Apply(f[n - 1], s[n].cmd).book ELSE f[k]]
<1>7. n \in Nat
  OBVIOUS
<1>8. \A k \in 0..n : g[k] = IF k = 0 THEN Book0 ELSE Apply(g[k - 1], s[k].cmd).book
  <2>1. \A k \in 0..(n - 1) : f[k] = IF k = 0 THEN Book0 ELSE Apply(f[k - 1], s[k].cmd).book
    BY <1>6, <1>7 DEF IsReplay
  <2>2. g[n] = Apply(f[n - 1], s[n].cmd).book /\ \A k \in 0..(n - 1) : g[k] = f[k]
    BY <1>7
  <2> HIDE DEF g
  <2>3. ASSUME NEW k \in 0..n PROVE g[k] = IF k = 0 THEN Book0 ELSE Apply(g[k - 1], s[k].cmd).book
    <3>1. CASE k = n
      <4>1. n - 1 \in 0..(n - 1)
        BY <1>5, <1>7
      <4> QED
        BY <1>4, <2>2, <3>1, <4>1
    <3>2. CASE k # n
      <4>1. k \in 0..(n - 1) /\ (k # 0 => k - 1 \in 0..(n - 1))
        BY <1>7, <3>2
      <4> QED
        BY <2>1, <2>2, <4>1
    <3> QED
      BY <3>1, <3>2
  <2> QED
    BY <2>3
<1>9. g = [k \in 0..n |-> g[k]]
  OBVIOUS
<1> HIDE DEF g
<1>10. IsReplay(s, n, g)
  BY <1>8, <1>9 DEF IsReplay
<1> QED
  BY <1>10

LEMMA BookAtSteps ==
  ASSUME NEW s, Len(s) \in Nat
  PROVE  /\ BookAt(s, 0) = Book0
         /\ \A k \in 1..Len(s) : BookAt(s, k) = Apply(BookAt(s, k - 1), s[k].cmd).book
<1> DEFINE f == CHOOSE f : IsReplay(s, Len(s), f)
<1>1. IsReplay(s, Len(s), f)
  BY ReplayExists
<1> HIDE DEF f
<1>2. \A k \in 0..Len(s) : f[k] = IF k = 0 THEN Book0 ELSE Apply(f[k - 1], s[k].cmd).book
  BY <1>1 DEF IsReplay
<1>3. f[0] = Book0 /\ \A k \in 1..Len(s) : f[k] = Apply(f[k - 1], s[k].cmd).book
  BY <1>2
<1> QED
  BY <1>3 DEF BookAt, f

\* A longer log leaves the earlier books alone.
LEMMA BookAtGrown ==
  ASSUME NEW s, NEW t, Len(s) \in Nat, Grown(s, t)
  PROVE  \A n \in 0..Len(s) : BookAt(t, n) = BookAt(s, n)
<1> DEFINE T == {n \in Nat : n <= Len(s) /\ BookAt(t, n) # BookAt(s, n)}
<1>0. SUFFICES ASSUME T # {} PROVE FALSE
  OBVIOUS
<1>1. T \in SUBSET Nat
  OBVIOUS
<1>2. PICK n \in T : \A y \in T : n <= y
  BY <1>0, <1>1, LeastNat
<1>3. BookAt(t, 0) = Book0 /\ BookAt(s, 0) = Book0
  BY BookAtSteps DEF Grown
<1>4. n # 0 /\ n \in Nat /\ n <= Len(s) /\ BookAt(t, n) # BookAt(s, n)
  BY <1>2, <1>3
<1>5. n \in 1..Len(s) /\ n \in 1..Len(t) /\ n - 1 \in Nat /\ n - 1 <= Len(s)
  BY <1>4 DEF Grown
<1>6. BookAt(t, n - 1) = BookAt(s, n - 1)
  <2>1. n - 1 \notin T
    BY <1>2, <1>5
  <2> QED
    BY <1>5, <2>1
<1>7. t[n] = s[n]
  BY <1>5 DEF Grown
<1>8. BookAt(t, n) = Apply(BookAt(t, n - 1), t[n].cmd).book
  BY <1>5, BookAtSteps DEF Grown
<1>9. BookAt(s, n) = Apply(BookAt(s, n - 1), s[n].cmd).book
  BY <1>5, BookAtSteps
<1> QED
  BY <1>4, <1>6, <1>7, <1>8, <1>9

\* How far the book has got in the log, at each place of recovery and actor.
BookInv ==
  /\ pc = "replay" => book = BookAt(cmdFile.recs, ri)
  /\ LoggedValid =>
       /\ pc \in {"idle", "log"} => book = BookAt(cmdFile.recs, Len(cmdFile.recs))
       /\ pc = "apply" => book = BookAt(cmdFile.recs, seq - Len(batch))

LEMMA NextBookInv ==
  ASSUME TypeInv, LogInv, CmdInv, CleanFaults, NoneHidden, BatchNumbered, BookInv, [Next]_vars
  PROVE  BookInv'
<1> USE DEF disk, actor, recov, pubv, hist
<1>0. /\ Len(cmdFile.recs) \in Nat /\ ri \in Nat /\ seq \in Nat
      /\ batch \in Seq(CmdRec) /\ Len(batch) \in Nat
  BY FileFields, LenProperties DEF TypeInv, TypeOK
<1>1. CASE Open
  BY <1>0, <1>1, BookAtSteps DEF Open, BookInv
<1>2. CASE ReplayRecord
  <2>1. /\ pc = "replay" /\ pc' = "replay" /\ ri' = ri + 1 /\ UNCHANGED cmdFile
        /\ book' = Apply(book, cmdFile.recs[ri + 1].cmd).book
    BY <1>2 DEF ReplayRecord
  <2>2. ri + 1 \in 1..Len(cmdFile.recs) /\ (ri + 1) - 1 = ri
    BY <1>0, <1>2, NextCmdTyped DEF ReplayRecord
  <2>3. BookAt(cmdFile.recs, ri + 1) = Apply(BookAt(cmdFile.recs, ri), cmdFile.recs[ri + 1].cmd).book
    BY <1>0, <2>2, BookAtSteps
  <2> QED
    BY <2>1, <2>3 DEF BookInv
<1>3. CASE Start
  <2>1. /\ pc = "replay" /\ pc' = "idle" /\ UNCHANGED <<book, cmdFile>> /\ ri = Len(cmdFile.recs)
    BY <1>3, StartReads DEF Start
  <2> QED
    BY <2>1 DEF BookInv
<1>4. CASE TakeBatch
  <2>1. pc = "idle" /\ pc' = "log" /\ UNCHANGED <<book, cmdFile>>
    BY <1>4 DEF TakeBatch
  <2> QED
    BY <2>1 DEF BookInv, LoggedValid
<1>5. CASE FlushCmd
  <2>1. pc = "log" /\ pc' = "apply" /\ UNCHANGED <<book, seq, batch>>
    BY <1>5 DEF FlushCmd
  <2>2. seq - Len(batch) = Len(cmdFile.recs)
    <3>1. seq = Len(cmdFile.recs) + Len(batch)
      BY <2>1 DEF CmdInv, SeqAtEnd
    <3> QED
      BY <1>0, <3>1
  <2>3. BookAt(cmdFile'.recs, Len(cmdFile.recs)) = BookAt(cmdFile.recs, Len(cmdFile.recs))
    BY <1>0, CmdsGrow, BookAtGrown
  <2> QED
    BY <2>1, <2>2, <2>3, ValidBefore DEF BookInv
<1>6. CASE ApplyCmd
  <2> DEFINE r == Head(batch)
             n == seq - Len(batch)
  <2>1. /\ pc = "apply" /\ pc' = "apply" /\ batch # <<>> /\ UNCHANGED cmdFile
        /\ book' = IF Valid(r.cmd) THEN Apply(book, r.cmd).book ELSE book
    BY <1>6 DEF ApplyCmd
  <2>2. n \in Nat /\ seq' - Len(batch') = n + 1 /\ n + 1 \in 1..Len(cmdFile.recs) /\ r.seq = n + 1
    BY <1>6, <2>1, ApplyStep, HeadNumbered
  <2>3. cmdFile.recs[n + 1] = r
    <3>1. 1 \in 1..Len(batch) /\ r = batch[1]
      BY <1>0, <2>1, HeadTailProperties, EmptySeq
    <3> QED
      BY <2>1, <2>2, <3>1 DEF CmdInv, BatchInLog
  <2> HIDE DEF r
  <2>4. BookAt(cmdFile.recs, n + 1) = Apply(BookAt(cmdFile.recs, n), r.cmd).book
    <3>1. (n + 1) - 1 = n
      BY <2>2
    <3> QED
      BY <1>0, <2>2, <2>3, <3>1, BookAtSteps
  <2>5. LoggedValid => Valid(r.cmd) /\ book = BookAt(cmdFile.recs, n)
    BY <2>1, <2>2, <2>3 DEF LoggedValid, BookInv
  <2>6. LoggedValid' => LoggedValid
    BY <2>1 DEF LoggedValid
  <2> HIDE DEF n
  <2> QED
    BY <2>1, <2>2, <2>4, <2>5, <2>6 DEF BookInv
<1>7. CASE FlushEv
  <2>1. pc = "apply" /\ pc' = "idle" /\ batch = <<>> /\ UNCHANGED <<book, cmdFile>>
    BY <1>7 DEF FlushEv
  <2>2. seq - Len(batch) = Len(cmdFile.recs)
    <3>1. Len(batch) = 0 /\ seq = Len(cmdFile.recs)
      BY <2>1 DEF CmdInv, SeqAtEnd
    <3> QED
      BY <1>0, <3>1
  <2> QED
    BY <2>1, <2>2 DEF BookInv, LoggedValid
<1>8. ASSUME UNCHANGED <<pc, cmdFile, ri, seq, batch, book>> PROVE BookInv'
  BY <1>8 DEF BookInv, LoggedValid
<1>9. CASE (\E c \in Commands : TryEnqueue(c)) \/ SpillEv \/ PubStart \/ PublishEvent
  BY <1>8, <1>9 DEF TryEnqueue, SpillEv, PubStart, PublishEvent
<1>10. CASE CommitCursor \/ ReaderStumbles \/ ReaderCloses \/ UNCHANGED vars
  BY <1>8, <1>10 DEF CommitCursor, ReaderStumbles, ReaderCloses, vars
<1>11. CASE ReplayFails \/ Stop \/ Crash \/ PowerLoss \/ WriteFails \/ FillFails
  <2>1. pc' \in {"down", "dead"}
    BY <1>11 DEF ReplayFails, Stop, Crash, PowerLoss, WriteFails, FillFails, Halt
  <2> QED
    BY <2>1 DEF BookInv
<1> QED
  BY <1>1, <1>2, <1>3, <1>4, <1>5, <1>6, <1>7, <1>9, <1>10, <1>11 DEF Next

\* The book follows the log, as long as no command is hidden.
Followed == NoneLost /\ BookInv

LEMMA InitFollowed == Init => AnyLog /\ Followed
<1>1. Init => BookInv
  BY DEF Init, BookInv
<1> QED
  BY <1>1, InitAnyLog DEF Followed

LEMMA NextFollowed ==
  ASSUME AnyLog, CleanFaults, NoneHidden, Followed, [Next]_vars
  PROVE  Followed'
BY NextNoneLost, NextBookInv DEF AnyLog, NoneLost, Followed

\* Replaying cmd.wal from an empty book rebuilds the book the actor works on, as
\* long as no command in it was refused or is hidden: what the actor applied command
\* by command, over any number of restarts, is what the next recovery computes.
THEOREM ReplayRebuildsTheBook ==
  ASSUME CleanFaults
  PROVE  Spec => []BookIsReplay
<1> DEFINE IInv == AnyLog /\ (NoneHidden => Followed)
<1>1. Init => IInv
  BY InitFollowed
<1>2. IInv /\ [Next]_vars => IInv'
  BY NextAnyLog, NextFollowed, NoneHiddenYet
<1>3. IInv => BookIsReplay
  BY ReplayedIsBookAt DEF BookIsReplay, Followed, BookInv
<1> QED
  BY <1>1, <1>2, <1>3, PTL DEF Spec

-----------------------------------------------------------------------------
(* The results of a command *)

\* What there is to say about command c on book b: its events, and the Rejected the
\* actor, but not the recovery, adds for a Cancel that found nothing.
Said(b, c) == Apply(b, c).evs \o <<Rejected>>

\* Event e says what its index says about its command in the log s.
SaysSo(e, s) == e.ev = Said(BookAt(s, e.seq - 1), s[e.seq].cmd)[e.idx + 1]

ResultInv == LoggedValid => \A e \in AllEvents : SaysSo(e, cmdFile.recs)

\* The stamped events of a list that starts what there is to say.
LEMMA StampedSays ==
  ASSUME NEW s \in Nat, NEW c \in Commands, NEW evs \in Seq(Evs), NEW said, Grown(evs, said),
         NEW e \in EventsIn(Stamped(s, c, evs) \o <<CmdEnd(s)>>)
  PROVE  e.seq = s /\ e.ev = said[e.idx + 1]
<1>1. e \in EventsIn(Stamped(s, c, evs))
  <2> DEFINE t == Stamped(s, c, evs)
             u == <<CmdEnd(s)>>
  <2>1. t \in Seq(EvRec)
    BY StampedEvents
  <2>2. u \in Seq(EvRec) /\ Len(u) = 1 /\ IsEnd(u[1])
    BY EndsAndEvents
  <2>3. e \in EventsIn(t \o u)
    OBVIOUS
  <2> HIDE DEF t, u
  <2>4. EventsIn(t \o u) = EventsIn(t) \cup EventsIn(u)
    BY <2>1, <2>2, EventsInConcat
  <2>5. EventsIn(u) = {}
    BY <2>2 DEF EventsIn
  <2> QED
    BY <2>3, <2>4, <2>5 DEF t
<1>2. Len(evs) \in Nat /\ Len(Stamped(s, c, evs)) = Len(evs)
  BY StampedProperties, LenProperties
<1>3. PICK k \in 1..Len(evs) : e = Stamped(s, c, evs)[k]
  BY <1>1, <1>2 DEF EventsIn
<1>4. e.seq = s /\ e.idx = k - 1 /\ e.ev = evs[k]
  BY <1>3 DEF Stamped
<1>5. said[k] = evs[k] /\ (k - 1) + 1 = k
  BY <1>2 DEF Grown
<1> QED
  BY <1>4, <1>5

\* What the recovery and the actor emit for an accepted command.
LEMMA EmittedSays ==
  ASSUME book \in Books, NEW r \in CmdRec
  PROVE  /\ \A e \in EventsIn(ReplayEvents(r)) : e.seq = r.seq /\ e.ev = Said(book, r.cmd)[e.idx + 1]
         /\ Valid(r.cmd) =>
              \A e \in EventsIn(LiveEvents(r)) : e.seq = r.seq /\ e.ev = Said(book, r.cmd)[e.idx + 1]
<1> DEFINE a == Apply(book, r.cmd)
           said == Said(book, r.cmd)
           evs == IF a.found THEN a.evs ELSE a.evs \o <<Rejected>>
<1>1. r.seq \in Nat /\ r.cmd \in Commands
  BY DEF CmdRec
<1>2. a.evs \in Seq(Evs) /\ <<Rejected>> \in Seq(Evs) /\ said = a.evs \o <<Rejected>>
  BY <1>1, BookAssumption, EventsAssumption DEF Said
<1>3. said \in Seq(Evs) /\ Len(said) \in Nat /\ Len(a.evs) \in Nat
      /\ Len(said) = Len(a.evs) + 1 /\ \A k \in 1..Len(a.evs) : said[k] = a.evs[k]
  <2>1. Len(a.evs) \in Nat /\ Len(<<Rejected>>) = 1
    BY <1>2, LenProperties
  <2>2. /\ said \in Seq(Evs) /\ Len(said) = Len(a.evs) + Len(<<Rejected>>)
        /\ \A i \in 1..(Len(a.evs) + Len(<<Rejected>>)) :
             said[i] = IF i <= Len(a.evs) THEN a.evs[i] ELSE <<Rejected>>[i - Len(a.evs)]
    BY <1>2, ConcatProperties
  <2> QED
    BY <2>1, <2>2
<1>4. Grown(a.evs, said) /\ Grown(said, said)
  BY <1>3 DEF Grown
<1>5. evs \in Seq(Evs) /\ Grown(evs, said)
  BY <1>2, <1>3, <1>4
<1>6. ReplayEvents(r) = Stamped(r.seq, r.cmd, a.evs) \o <<CmdEnd(r.seq)>>
  BY DEF ReplayEvents
<1>7. Valid(r.cmd) => LiveEvents(r) = Stamped(r.seq, r.cmd, evs) \o <<CmdEnd(r.seq)>>
  BY DEF LiveEvents
<1> DEFINE ev0 == a.evs
           n == r.seq
           c == r.cmd
<1>8. ev0 \in Seq(Evs) /\ Grown(ev0, said) /\ ReplayEvents(r) = Stamped(n, c, ev0) \o <<CmdEnd(n)>>
  BY <1>2, <1>4, <1>6
<1>9. Valid(c) => LiveEvents(r) = Stamped(n, c, evs) \o <<CmdEnd(n)>>
  BY <1>7
<1>10. n \in Nat /\ c \in Commands
  BY <1>1
<1> HIDE DEF a, ev0, evs, said, n, c
<1>11. ASSUME NEW e \in EventsIn(ReplayEvents(r)) PROVE e.seq = n /\ e.ev = said[e.idx + 1]
  <2>1. e \in EventsIn(Stamped(n, c, ev0) \o <<CmdEnd(n)>>)
    BY <1>8, <1>11
  <2> QED
    BY <1>8, <1>10, <2>1, StampedSays
<1>12. ASSUME Valid(c), NEW e \in EventsIn(LiveEvents(r)) PROVE e.seq = n /\ e.ev = said[e.idx + 1]
  <2>1. e \in EventsIn(Stamped(n, c, evs) \o <<CmdEnd(n)>>)
    BY <1>9, <1>12
  <2> QED
    BY <1>5, <1>10, <2>1, StampedSays
<1> QED
  BY <1>11, <1>12 DEF said, n, c

LEMMA NextResultInv ==
  ASSUME TypeInv, LogInv, CmdInv, CleanFaults, EventsHaveCommands, BatchNumbered, BookInv, ResultInv,
         [Next]_vars
  PROVE  ResultInv'
<1> SUFFICES ASSUME LoggedValid', NEW e \in AllEvents' PROVE SaysSo(e, cmdFile'.recs)
  BY DEF ResultInv
<1>0. /\ Len(cmdFile.recs) \in Nat /\ cmdFile.recs \in Seq(CmdRec) /\ book \in Books
      /\ evBuf \in Seq(EvRec) /\ batch \in Seq(CmdRec) /\ ri \in Nat
  BY FileFields DEF TypeInv, TypeOK
<1>1. LoggedValid
  BY ValidBefore
<1>2. CASE e \in AllEvents
  <2>1. e.seq \in 1..Len(cmdFile.recs) /\ e.seq - 1 \in 0..Len(cmdFile.recs)
    <3>1. e.seq \in 1..Len(cmdFile.recs)
      BY <1>2, EventsInPlace DEF CmdInv
    <3> QED
      BY <1>0, <3>1
  <2>2. cmdFile'.recs[e.seq] = cmdFile.recs[e.seq]
    BY <2>1, CmdsGrow DEF Grown
  <2>3. BookAt(cmdFile'.recs, e.seq - 1) = BookAt(cmdFile.recs, e.seq - 1)
    BY <1>0, <2>1, CmdsGrow, BookAtGrown
  <2>4. SaysSo(e, cmdFile.recs)
    BY <1>1, <1>2 DEF ResultInv
  <2> QED
    BY <2>2, <2>3, <2>4 DEF SaysSo
<1>3. ASSUME NEW r \in CmdRec, NEW n \in Nat, r.seq = n + 1, cmdFile.recs[n + 1] = r,
             book = BookAt(cmdFile.recs, n), UNCHANGED cmdFile,
             e.seq = r.seq, e.ev = Said(book, r.cmd)[e.idx + 1]
      PROVE  SaysSo(e, cmdFile'.recs)
  <2>1. e.seq - 1 = n /\ cmdFile'.recs[e.seq] = r
    BY <1>3
  <2> QED
    BY <1>3, <2>1 DEF SaysSo
<1>4. CASE ReplayRecord /\ e \notin AllEvents
  <2> DEFINE r == cmdFile.recs[ri + 1]
  <2>1. ri + 1 \in 1..Len(cmdFile.recs) /\ r \in CmdRec
    BY <1>4, NextCmdTyped DEF ReplayRecord
  <2>2. r.seq = ri + 1 /\ book = BookAt(cmdFile.recs, ri) /\ UNCHANGED cmdFile
    BY <1>4, <2>1 DEF CmdInv, CmdsNumbered, ReplayRecord, BookInv
  <2>3. evBuf' = evBuf \/ evBuf' = evBuf \o ReplayEvents(r)
    BY <1>4 DEF ReplayRecord
  <2>4. EventsIn(evBuf') \subseteq EventsIn(evBuf) \cup EventsIn(ReplayEvents(r))
    BY <1>0, <2>1, <2>3, ReplayEventsProperties, EventsInConcat
  <2>5. e \in EventsIn(ReplayEvents(r))
    BY <1>4, <2>4 DEF ReplayRecord, AllEvents, hist
  <2> HIDE DEF r
  <2>6. e.seq = r.seq /\ e.ev = Said(book, r.cmd)[e.idx + 1]
    BY <1>0, <2>1, <2>5, EmittedSays
  <2> QED
    BY <1>0, <1>3, <2>1, <2>2, <2>6 DEF r
<1>5. CASE ApplyCmd /\ e \notin AllEvents
  <2> DEFINE r == Head(batch)
             n == seq - Len(batch)
  <2>1. pc = "apply" /\ batch # <<>> /\ UNCHANGED <<cmdFile, evFile, out>> /\ evBuf' = evBuf \o LiveEvents(r)
    BY <1>5 DEF ApplyCmd, hist
  <2>2. n \in Nat /\ n + 1 \in 1..Len(cmdFile.recs) /\ r.seq = n + 1 /\ r \in CmdRec
    BY <1>5, <2>1, ApplyStep, HeadNumbered
  <2>3. cmdFile.recs[n + 1] = r
    <3>1. 1 \in 1..Len(batch) /\ r = batch[1]
      BY <1>0, <2>1, HeadTailProperties, EmptySeq
    <3> QED
      BY <2>1, <2>2, <3>1 DEF CmdInv, BatchInLog
  <2>4. book = BookAt(cmdFile.recs, n)
    BY <1>1, <2>1 DEF BookInv
  <2> HIDE DEF r, n
  <2>5. Valid(r.cmd)
    BY <1>1, <2>2, <2>3 DEF LoggedValid
  <2>6. EventsIn(evBuf') \subseteq EventsIn(evBuf) \cup EventsIn(LiveEvents(r))
    BY <1>0, <2>1, <2>2, LiveEventsProperties, EventsInConcat
  <2>7. e \in EventsIn(LiveEvents(r))
    BY <1>5, <2>1, <2>6 DEF AllEvents
  <2>8. e.seq = r.seq /\ e.ev = Said(book, r.cmd)[e.idx + 1]
    BY <1>0, <2>2, <2>5, <2>7, EmittedSays
  <2> QED
    BY <1>3, <2>1, <2>2, <2>3, <2>4, <2>8
<1> QED
  BY <1>2, <1>4, <1>5, OldEvents

\* Event k of a command is the same event however often it is sent, as long as no
\* command in cmd.wal was refused or is hidden: the recovery computes again what the
\* actor had computed, from the same book.
THEOREM ResultsAreStable ==
  ASSUME CleanFaults
  PROVE  Spec => []ResultsAgree
<1> DEFINE IInv == AnyLog /\ (NoneHidden => Followed /\ ResultInv)
<1>1. Init => IInv
  <2>1. Init => AllEvents = {}
    BY EmptyIsFile, EventsInEmpty DEF Init, AllEvents
  <2>2. Init => ResultInv
    BY <2>1 DEF ResultInv
  <2> QED
    BY <2>2, InitFollowed
<1>2. IInv /\ [Next]_vars => IInv'
  <2>1. AnyLog /\ NoneHidden /\ Followed /\ ResultInv /\ [Next]_vars => ResultInv'
    BY NextResultInv DEF AnyLog, NoneLost, Followed
  <2> QED
    BY <2>1, NextAnyLog, NextFollowed, NoneHiddenYet
<1>3. IInv => ResultsAgree
  <2> SUFFICES ASSUME IInv, LoggedValid, NoneHidden, NEW e \in out, NEW f \in out,
                      e.seq = f.seq, e.idx = f.idx
               PROVE  e = f
    BY DEF ResultsAgree
  <2>1. e \in AllEvents /\ f \in AllEvents
    BY DEF AllEvents
  <2>2. e.ev = f.ev
    <3>1. SaysSo(e, cmdFile.recs) /\ SaysSo(f, cmdFile.recs)
      BY <2>1 DEF ResultInv
    <3> QED
      BY <3>1 DEF SaysSo
  <2>3. e.req = f.req
    <3>1. CmdsNumbered /\ EventsHaveCommands
      BY DEF AnyLog, Followed, NoneLost, CmdInv
    <3> QED
      BY <2>1, <3>1, EventsInPlace
  <2>4. e \in Event /\ f \in Event
    BY DEF AnyLog, TypeInv, TypeOK
  <2> QED
    BY <2>2, <2>3, <2>4 DEF Event
<1> QED
  BY <1>1, <1>2, <1>3, PTL DEF Spec
=============================================================================
