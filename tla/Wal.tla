-------------------------------- MODULE Wal --------------------------------
(***************************************************************************)
(* One append-only log file of pkg/wal, as a value.                        *)
(*                                                                         *)
(*   recs    the complete records in the file, oldest first                *)
(*   synced  how many of them an fsync has covered                         *)
(*   tail    what follows the last complete record: nothing ("clean"), the *)
(*           first byte of a header ("stub"), another cut header or        *)
(*           payload ("partial"), or exactly one header with no payload    *)
(*           byte ("header"); the readers tell these apart                 *)
(*   gap     NoGap, or the number of records in front of a torn record     *)
(*           that later appends have buried inside the file                *)
(*   stub    whether the buried one was a stub                             *)
(*                                                                         *)
(* A header begins with the payload's length, low byte first.  The byte of *)
(* a stub and the header written behind it read as a length of that byte   *)
(* twice: 17219 for the 67 bytes of a command.  That is below the limit of *)
(* 4 MB and, in a file with fewer than StubSpan + 1 records behind the     *)
(* stub, more than the file holds.  Two bytes or more give a length beyond *)
(* the limit, or the right one with a wrong checksum.                      *)
(*                                                                         *)
(* A Writer buffers in memory (bufio.Writer) and may hand any prefix of    *)
(* its buffer to the file at any time, cutting a record in two.            *)
(***************************************************************************)
EXTENDS Integers, Sequences

CONSTANT StubSpan  \* how many records a buried stub's length can span: 229

ASSUME SpanAssumption == StubSpan \in Nat

NoGap == -1
Tails == {"clean", "stub", "partial", "header"}
Torn  == {"stub", "partial", "header"}

EmptyFile == [recs |-> <<>>, synced |-> 0, tail |-> "clean", gap |-> NoGap, stub |-> FALSE]

IsFile(f, Rec) ==
  /\ f \in [recs : Seq(Rec), synced : Nat, tail : Tails, gap : Nat \cup {NoGap}, stub : BOOLEAN]
  /\ f.synced <= Len(f.recs)
  /\ f.gap <= Len(f.recs)

Prefix(s, n) == SubSeq(s, 1, n)

(***************************************************************************)
(* Writer: OpenWrite uses O_APPEND and never looks at the tail, so bytes   *)
(* written behind a torn record bury it.                                   *)
(***************************************************************************)
Write(f, rs, t) ==
  LET buries == f.tail # "clean" /\ f.gap = NoGap
  IN  [ recs   |-> f.recs \o rs,
        synced |-> f.synced,
        tail   |-> t,
        gap    |-> IF buries THEN Len(f.recs) ELSE f.gap,
        stub   |-> IF buries THEN f.tail = "stub" ELSE f.stub ]

\* Mutants of Flushed: the file is opened with O_TRUNC; the fsync is missing.
FlushedTrunc(f, buf) ==
  IF buf = <<>> THEN f
  ELSE [EmptyFile EXCEPT !.recs = buf, !.synced = Len(buf)]
FlushedNoSync(f, buf) == IF buf = <<>> THEN f ELSE Write(f, buf, "clean")

\* bufio.Flush of a whole buffer, then fsync.  An empty buffer writes nothing.
Flushed(f, buf) ==
  LET g == IF buf = <<>> THEN f ELSE Write(f, buf, "clean")
  IN  [g EXCEPT !.synced = Len(g.recs)]

\* Two cut writes with nothing between them read as one cut record, of more bytes
\* than the first.
CutAgain(f) ==
  IF f.tail = "clean" \/ f.gap # NoGap THEN {}
  ELSE IF f.tail = "stub" THEN Torn ELSE Torn \ {"stub"}

\* The files that may exist when only part of a buffer has been written: the
\* process was killed, the buffer overflowed, or the write failed.  `torn`
\* says whether the cut may fall inside a record.
PartialWrites(f, buf, torn) ==
  {f}
  \cup {Write(f, Prefix(buf, k), "clean") : k \in 1..Len(buf)}
  \cup {Write(f, Prefix(buf, k), t) : k \in {j \in 0..(Len(buf) - 1) : torn}, t \in Torn}
  \cup {[f EXCEPT !.tail = t] : t \in {u \in CutAgain(f) : torn /\ buf # <<>>}}

\* The files that may exist after the machine loses power: whatever no fsync
\* covered may be gone, and the cut may fall inside a record that it did not cover.
PowerCuts(f, torn) ==
  { [ recs   |-> Prefix(f.recs, m),
      synced |-> m,
      tail   |-> IF m = Len(f.recs) /\ f.tail = "clean" THEN "clean" ELSE t,
      gap    |-> IF f.gap >= m THEN NoGap ELSE f.gap,
      stub   |-> f.stub /\ f.gap < m ] :
      m \in f.synced..Len(f.recs),
      t \in IF torn THEN Tails ELSE {"clean"} }

\* TruncateTo at the end of record n; n = Len(recs) cuts only a torn tail.
TruncatedTo(f, n) ==
  [ recs   |-> Prefix(f.recs, n),
    synced |-> IF f.synced < n THEN f.synced ELSE n,
    tail   |-> "clean",
    gap    |-> IF f.gap >= n THEN NoGap ELSE f.gap,
    stub   |-> f.stub /\ f.gap < n ]

(***************************************************************************)
(* Readers.  Both deliver the records in front of a gap; what they make of *)
(* the gap and of the tail differs.                                        *)
(***************************************************************************)
Readable(f) == IF f.gap = NoGap THEN Len(f.recs) ELSE f.gap

\* The records behind a buried stub are read as its payload, which they are too
\* short for: they look like a cut record at the end of the file.
Hides(f) == f.stub /\ f.gap # NoGap

\* Replay with AllowTruncatedTail: a cut header or payload ends the replay, and so
\* does a buried stub until the file is as long as the length it reads; any other
\* gap is ErrChecksumMismatch or ErrPayloadTooLarge, and a bare header makes
\* ReadFull return io.EOF, which Replay returns as an error.
ReplayOk(f) ==
  IF f.gap = NoGap THEN f.tail # "header"
  ELSE f.stub /\ Len(f.recs) - f.gap <= StubSpan

\* Reader.Next until it fails.  OpenReader hard-codes allowTail = false, so a cut
\* header or payload, and any gap, is an error; a bare header reads as io.EOF.
ReaderOk(f) == f.gap = NoGap /\ f.tail \in {"clean", "header"}
=============================================================================
