------------------------- MODULE ChainScannerProofs -------------------------
(***************************************************************************)
(* For any chain, scan step, batch size, channel capacities and number of  *)
(* workers and handlers: the scanner passes over no deposit, and no stream *)
(* entry is booked twice.                                                  *)
(***************************************************************************)
EXTENDS ChainScanner, FiniteSetTheorems, TLAPS

-----------------------------------------------------------------------------
(* Sequences as sets *)

NoRepeat(s) == \A i, j \in 1..Len(s) : s[i] = s[j] => i = j

LEMMA AppendedSet ==
  ASSUME NEW S, NEW s \in Seq(S), NEW x \in S
  PROVE  /\ Append(s, x) \in Seq(S)
         /\ ToSet(Append(s, x)) = ToSet(s) \cup {x}
         /\ NoRepeat(s) /\ x \notin ToSet(s) => NoRepeat(Append(s, x))
<1>1. /\ Append(s, x) \in Seq(S) /\ Len(Append(s, x)) = Len(s) + 1 /\ Len(s) \in Nat
      /\ \A i \in 1..Len(s) : Append(s, x)[i] = s[i]
      /\ Append(s, x)[Len(s) + 1] = x
  OBVIOUS
<1>2. ToSet(Append(s, x)) = ToSet(s) \cup {x}
  <2>1. DOMAIN Append(s, x) = 1..(Len(s) + 1) /\ DOMAIN s = 1..Len(s)
    BY <1>1
  <2>2. ASSUME NEW y \in ToSet(s) \cup {x} PROVE y \in ToSet(Append(s, x))
    BY <1>1, <2>1, <2>2 DEF ToSet
  <2>3. ASSUME NEW y \in ToSet(Append(s, x)) PROVE y \in ToSet(s) \cup {x}
    BY <1>1, <2>1, <2>3 DEF ToSet
  <2> QED
    BY <2>2, <2>3
<1>3. ASSUME NoRepeat(s), x \notin ToSet(s) PROVE NoRepeat(Append(s, x))
  BY <1>1, <1>3 DEF NoRepeat, ToSet
<1> QED
  BY <1>1, <1>2, <1>3

LEMMA HeadAndTail ==
  ASSUME NEW S, NEW s \in Seq(S), s # <<>>
  PROVE  /\ Tail(s) \in Seq(S) /\ Head(s) \in S
         /\ ToSet(s) = ToSet(Tail(s)) \cup {Head(s)}
         /\ NoRepeat(s) => NoRepeat(Tail(s)) /\ Head(s) \notin ToSet(Tail(s))
<1>1. /\ Tail(s) \in Seq(S) /\ Head(s) \in S /\ Head(s) = s[1]
      /\ Len(s) \in Nat \ {0} /\ Len(Tail(s)) = Len(s) - 1
      /\ \A i \in 1..(Len(s) - 1) : Tail(s)[i] = s[i + 1]
  OBVIOUS
<1>2. DOMAIN Tail(s) = 1..(Len(s) - 1) /\ DOMAIN s = 1..Len(s)
  BY <1>1
<1>3. ASSUME NEW y \in ToSet(Tail(s)) \cup {Head(s)} PROVE y \in ToSet(s)
  BY <1>1, <1>2, <1>3 DEF ToSet
<1>4. ASSUME NEW y \in ToSet(s) PROVE y \in ToSet(Tail(s)) \cup {Head(s)}
  <2>1. PICK i \in 1..Len(s) : y = s[i]
    BY <1>2, <1>4 DEF ToSet
  <2>2. CASE i = 1
    BY <1>1, <2>1, <2>2
  <2>3. CASE i # 1
    <3>1. i - 1 \in 1..(Len(s) - 1) /\ Tail(s)[i - 1] = s[i]
      BY <1>1, <2>3
    <3> QED
      BY <1>2, <2>1, <3>1 DEF ToSet
  <2> QED
    BY <2>2, <2>3
<1>5. ASSUME NoRepeat(s) PROVE NoRepeat(Tail(s)) /\ Head(s) \notin ToSet(Tail(s))
  <2>1. NoRepeat(Tail(s))
    <3> SUFFICES ASSUME NEW i \in 1..(Len(s) - 1), NEW j \in 1..(Len(s) - 1), Tail(s)[i] = Tail(s)[j]
                 PROVE  i = j
      BY <1>1 DEF NoRepeat
    <3>1. i + 1 \in 1..Len(s) /\ j + 1 \in 1..Len(s) /\ s[i + 1] = s[j + 1]
      BY <1>1
    <3>2. i + 1 = j + 1
      BY <1>5, <3>1 DEF NoRepeat
    <3> QED
      BY <3>2
  <2>2. ASSUME NEW i \in 1..(Len(s) - 1), Tail(s)[i] = Head(s) PROVE FALSE
    <3>1. i + 1 \in 1..Len(s) /\ 1 \in 1..Len(s) /\ s[i + 1] = s[1]
      BY <1>1, <2>2
    <3>2. i + 1 = 1
      BY <1>5, <3>1 DEF NoRepeat
    <3> QED
      BY <3>2
  <2> QED
    BY <1>2, <2>1, <2>2 DEF ToSet
<1> QED
  BY <1>1, <1>3, <1>4, <1>5

LEMMA JoinedSet ==
  ASSUME NEW S, NEW s \in Seq(S), NEW t \in Seq(S)
  PROVE  s \o t \in Seq(S) /\ ToSet(s) \subseteq ToSet(s \o t) /\ ToSet(t) \subseteq ToSet(s \o t)
<1>1. /\ s \o t \in Seq(S) /\ Len(s) \in Nat /\ Len(t) \in Nat
      /\ DOMAIN (s \o t) = 1..(Len(s) + Len(t)) /\ DOMAIN s = 1..Len(s) /\ DOMAIN t = 1..Len(t)
  OBVIOUS
<1>2. \A i \in 1..Len(s) : i \in 1..(Len(s) + Len(t)) /\ (s \o t)[i] = s[i]
  BY <1>1
<1>3. \A i \in 1..Len(t) : Len(s) + i \in 1..(Len(s) + Len(t)) /\ (s \o t)[Len(s) + i] = t[i]
  BY <1>1
<1>4. ToSet(t) \subseteq ToSet(s \o t)
  BY <1>1, <1>3 DEF ToSet
<1> QED
  BY <1>1, <1>2, <1>4 DEF ToSet

-----------------------------------------------------------------------------
(* The master *)

MasterType ==
  /\ tip \in Nat /\ cursor \in Nat /\ height \in Nat /\ scanned \in Nat /\ target \in Nat
  /\ master \in {"down", "tick", "scan", "save", "dead"}
  /\ stream \in Seq(DepositBlocks)

\* Every deposit up to block n has been pushed.
Covered(n) == \A d \in DepositBlocks : d <= n => d \in ToSet(stream)

\* The three heights are covered, a scan stays below the tip it has seen, and a
\* range that is about to be saved has been pushed.
HeightInv ==
  /\ Covered(cursor) /\ Covered(height) /\ Covered(scanned)
  /\ target <= tip
  /\ master = "save" => scanned + 1 < target /\ Covered(To(scanned + 1))

LEMMA Deposits == DepositBlocks \subseteq Nat \ {0} /\ IsFiniteSet(DepositBlocks)
<1>1. DepositBlocks \subseteq 1..MaxHeight /\ MaxHeight \in Nat
  BY ScannerAssumption
<1>2. IsFiniteSet(1..MaxHeight)
  BY <1>1, FS_Interval
<1>3. DepositBlocks \subseteq Nat \ {0}
  BY <1>1
<1>4. IsFiniteSet(DepositBlocks)
  BY <1>1, <1>2, FS_Subset
<1> QED
  BY <1>3, <1>4

LEMMA InitHeightInv == Init => MasterType /\ HeightInv
BY Deposits DEF Init, MasterType, HeightInv, Covered, ToSet

\* A fetch returns a list of the deposits of its range.
LEMMA FetchedLists ==
  ASSUME MasterType, scanned + 1 < target, target <= tip,
         NEW ds \in Fetched(scanned + 1, To(scanned + 1))
  PROVE  /\ ds \in Seq(DepositBlocks)
         /\ \A d \in DepositBlocks : scanned < d /\ d <= To(scanned + 1) => d \in ToSet(ds)
<1> DEFINE to == To(scanned + 1)
           found == IF Step = 1 THEN BlockStrage(scanned + 1, to) ELSE LogStrage(scanned + 1, to)
<1>1. to \in Nat /\ to <= tip /\ (Step = 1 => to = scanned + 1)
  BY ScannerAssumption DEF To, MasterType
<1>2. found \subseteq DepositBlocks
  BY DEF BlockStrage, LogStrage, FetchBlock, FetchLog
<1>3. ASSUME NEW d \in DepositBlocks, scanned < d, d <= to PROVE d \in found
  <2>1. d \in Nat \ {0} /\ d \in 1..tip /\ d \in (scanned + 1)..to
    BY <1>1, <1>3, Deposits DEF MasterType
  <2>2. Step = 1 => d \in {scanned + 1}
    BY <1>1, <2>1 DEF MasterType
  <2> QED
    BY <2>1, <2>2 DEF BlockStrage, LogStrage, FetchBlock, FetchLog
<1>4. ds \in [1..Cardinality(found) -> found] /\ ToSet(ds) = found
  BY DEF Fetched
<1> HIDE DEF to, found
<1>5. Cardinality(found) \in Nat
  BY <1>2, Deposits, FS_Subset, FS_CardinalityType
<1>6. ds \in Seq(DepositBlocks)
  BY <1>2, <1>4, <1>5
<1> QED
  BY <1>3, <1>4, <1>6 DEF to

LEMMA NextHeightInv ==
  ASSUME MasterType, HeightInv, [Next]_vars
  PROVE  MasterType' /\ HeightInv'
<1> USE DEF redis, mst, pipe, hist
<1>1. ASSUME UNCHANGED <<cursor, stream, height, scanned, target>>, tip' \in Nat, tip' >= tip,
             master' \in {"down", "tick", "scan", "save", "dead"}, master' = "save" => master = "save"
      PROVE  MasterType' /\ HeightInv'
  <2>1. MasterType'
    BY <1>1 DEF MasterType
  <2>2. target' <= tip'
    BY <1>1 DEF MasterType, HeightInv
  <2> QED
    BY <1>1, <2>1, <2>2 DEF HeightInv, Covered, To
<1>2. CASE NewBlock
  BY <1>1, <1>2 DEF NewBlock, MasterType
<1>3. CASE Start
  BY <1>3 DEF Start, MasterType, HeightInv, Covered, To
<1>4. CASE StartFails
  BY <1>1, <1>4 DEF StartFails, MasterType
<1>5. CASE Tick
  BY <1>5 DEF Tick, MasterType, HeightInv, Covered, To
<1>6. CASE ScanEnds
  BY <1>6 DEF ScanEnds, MasterType, HeightInv, Covered, To
<1>7. CASE Push
  <2>1. PICK ds \in Fetched(scanned + 1, To(scanned + 1)) : stream' = stream \o ds
    BY <1>7 DEF Push
  <2>2. /\ scanned + 1 < target /\ target <= tip /\ master' = "save"
        /\ UNCHANGED <<tip, cursor, height, scanned, target>>
    BY <1>7 DEF Push, HeightInv
  <2>3. /\ ds \in Seq(DepositBlocks)
        /\ \A d \in DepositBlocks : scanned < d /\ d <= To(scanned + 1) => d \in ToSet(ds)
    BY <2>2, FetchedLists
  <2>4. /\ stream' \in Seq(DepositBlocks)
        /\ ToSet(stream) \subseteq ToSet(stream') /\ ToSet(ds) \subseteq ToSet(stream')
    BY <2>1, <2>3, JoinedSet DEF MasterType
  <2>5. MasterType'
    BY <2>2, <2>4 DEF MasterType
  <2>6. To(scanned + 1)' = To(scanned + 1)
    BY <2>2 DEF To
  <2>7. \A d \in DepositBlocks : d <= To(scanned + 1) => d \in ToSet(stream')
    BY <2>3, <2>4, Deposits DEF HeightInv, Covered, MasterType
  <2> QED
    BY <2>2, <2>4, <2>5, <2>6, <2>7 DEF HeightInv, Covered
<1>8. CASE PushFails
  <2>1. PICK ds \in Fetched(scanned + 1, To(scanned + 1)) :
          \E k \in 0..Len(ds) : stream' = stream \o SubSeq(ds, 1, k)
    BY <1>8 DEF PushFails
  <2>2. /\ scanned + 1 < target /\ target <= tip /\ master' = "tick"
        /\ UNCHANGED <<tip, cursor, height, scanned, target>>
    BY <1>8 DEF PushFails, HeightInv
  <2>3. ds \in Seq(DepositBlocks)
    BY <2>2, FetchedLists
  <2>4. PICK k \in 0..Len(ds) : stream' = stream \o SubSeq(ds, 1, k)
    BY <2>1
  <2>5. stream' \in Seq(DepositBlocks) /\ ToSet(stream) \subseteq ToSet(stream')
    <3>1. SubSeq(ds, 1, k) \in Seq(DepositBlocks)
      BY <2>3
    <3> QED
      BY <2>4, <3>1, JoinedSet DEF MasterType
  <2>6. MasterType'
    BY <2>2, <2>5 DEF MasterType
  <2> QED
    BY <2>2, <2>5, <2>6 DEF HeightInv, Covered
<1>9. CASE Save \/ SaveFails
  <2>1. /\ UNCHANGED <<tip, stream, height, target>> /\ master' \in {"scan", "tick"}
        /\ cursor' \in {cursor, To(scanned + 1)} /\ scanned' \in {scanned, To(scanned + 1)}
        /\ Covered(To(scanned + 1))
    BY <1>9 DEF Save, SaveFails, HeightInv
  <2>2. To(scanned + 1) \in Nat
    BY ScannerAssumption DEF To, MasterType
  <2>3. MasterType'
    BY <2>1, <2>2 DEF MasterType
  <2> QED
    BY <2>1, <2>3 DEF HeightInv, Covered
<1>10. ASSUME UNCHANGED <<tip, cursor, stream, mst>> PROVE MasterType' /\ HeightInv'
  BY <1>1, <1>10 DEF MasterType
<1>11. ASSUME NEW w \in Workers, Read(w) \/ ReadFails(w) \/ Forward(w) \/ DropFull(w)
       PROVE  MasterType' /\ HeightInv'
  BY <1>10, <1>11 DEF Read, ReadFails, Forward, DropFull
<1>12. ASSUME NEW h \in Handlers, Book(h) \/ SendAck(h) PROVE MasterType' /\ HeightInv'
  BY <1>10, <1>12 DEF Book, SendAck
<1>13. CASE Ack \/ AckFails \/ UNCHANGED vars
  BY <1>10, <1>13 DEF Ack, AckFails, vars
<1>14. CASE Crash
  BY <1>1, <1>14 DEF Crash, MasterType
<1> QED
  BY <1>2, <1>3, <1>4, <1>5, <1>6, <1>7, <1>8, <1>9, <1>11, <1>12, <1>13, <1>14 DEF Next

\* Engine.master and scaner: whatever call fails, however much of a
\* pipeline ran and whenever the process ends, the stored height and the height a
\* scan goes on from never pass a deposit that is not in the stream.
THEOREM NothingIsPassedOver == Spec => []HeightIsCovered
<1>1. MasterType /\ HeightInv /\ [Next]_vars => MasterType' /\ HeightInv'
  BY NextHeightInv
<1>2. HeightInv => HeightIsCovered
  BY DEF HeightInv, Covered, HeightIsCovered
<1> QED
  BY InitHeightInv, <1>1, <1>2, PTL DEF Spec

-----------------------------------------------------------------------------
(* Workers, handlers and acknowledgements *)

PipeType ==
  /\ Len(stream) \in Nat /\ delivered \in 0..Len(stream)
  /\ hold \in [Workers -> Seq(Nat)] /\ rpc \in Seq(Nat)
  /\ task \in [Handlers -> Nat \cup {NoEntry}] /\ acks \in Seq(Nat)
  /\ credits \in Seq(Nat)

\* An entry the group has delivered is at one place: with one worker, in the
\* channel, booked or given up.
OnePlace ==
  /\ \A w \in Workers :
       /\ NoRepeat(hold[w])
       /\ ToSet(hold[w]) \subseteq 1..delivered
       /\ ToSet(hold[w]) \cap (ToSet(rpc) \cup ToSet(credits) \cup lost) = {}
       /\ \A v \in Workers \ {w} : ToSet(hold[w]) \cap ToSet(hold[v]) = {}
  /\ NoRepeat(rpc) /\ NoRepeat(credits)
  /\ ToSet(rpc) \cap (ToSet(credits) \cup lost) = {}
  /\ ToSet(credits) \cap lost = {}
  /\ ToSet(rpc) \cup ToSet(credits) \cup lost \subseteq 1..delivered

\* What is on its way to an acknowledgement is booked, and so is what has one.
AckedIsBooked ==
  /\ \A h \in Handlers : task[h] # NoEntry => task[h] \in ToSet(credits)
  /\ ToSet(acks) \subseteq ToSet(credits)
  /\ (1..delivered) \ pel \subseteq ToSet(credits)

BookInv == PipeType /\ OnePlace /\ AckedIsBooked

LEMMA InitBookInv == Init => BookInv
BY DEF Init, BookInv, PipeType, OnePlace, AckedIsBooked, NoRepeat, ToSet

\* Steps that leave the pipeline alone; the stream may grow.
LEMMA MasterBookInv ==
  ASSUME BookInv, UNCHANGED <<delivered, pel, pipe, hist>>, Len(stream') \in Nat,
         Len(stream') >= Len(stream)
  PROVE  BookInv'
<1>1. PipeType'
  BY DEF BookInv, PipeType, pipe, hist
<1> QED
  BY <1>1 DEF BookInv, OnePlace, AckedIsBooked, pipe, hist

\* XReadGroup: the entries from delivered + 1 to n are new to everybody.
LEMMA ReadBookInv ==
  ASSUME BookInv, NEW w \in Workers, Read(w) \/ ReadFails(w)
  PROVE  BookInv'
<1> DEFINE n == IF delivered + ReadCount < Len(stream) THEN delivered + ReadCount ELSE Len(stream)
           new == (delivered + 1)..n
<1>1. /\ hold[w] = <<>> /\ pel' = pel \cup new /\ delivered' = n
      /\ UNCHANGED <<stream, rpc, task, acks, credits>>
  BY DEF Read, ReadFails, pipe, hist
<1>2. /\ delivered \in Nat /\ n \in Nat /\ delivered < n /\ n <= Len(stream) /\ Len(stream) \in Nat
  BY ScannerAssumption DEF Read, ReadFails, BookInv, PipeType
<1>3. \/ lost' = lost /\ hold' = [hold EXCEPT ![w] = [k \in 1..(n - delivered) |-> delivered + k]]
      \/ lost' = lost \cup new /\ hold' = hold
  BY DEF Read, ReadFails, pipe, hist
<1> HIDE DEF n
<1> DEFINE batch == [k \in 1..(n - delivered) |-> delivered + k]
<1>4. batch \in Seq(Nat) /\ NoRepeat(batch) /\ ToSet(batch) = new
  <2>1. n - delivered \in Nat /\ DOMAIN batch = 1..(n - delivered)
    BY <1>2
  <2>2. batch \in [1..(n - delivered) -> Nat]
    BY <1>2
  <2>3. batch \in Seq(Nat) /\ Len(batch) = n - delivered
    BY <2>1, <2>2
  <2>4. NoRepeat(batch)
    BY <1>2, <2>3 DEF NoRepeat
  <2>5. ASSUME NEW e \in new PROVE e \in ToSet(batch)
    <3>1. e - delivered \in 1..(n - delivered) /\ e = delivered + (e - delivered)
      BY <1>2
    <3> QED
      BY <2>1, <3>1 DEF ToSet
  <2>6. ASSUME NEW e \in ToSet(batch) PROVE e \in new
    BY <1>2, <2>1, <2>6 DEF ToSet
  <2> QED
    BY <2>3, <2>4, <2>5, <2>6
<1>5. new \cap (1..delivered) = {} /\ 1..n = (1..delivered) \cup new
  BY <1>2
<1> HIDE DEF new, batch
<1>6. ToSet(hold[w]) = {}
  BY <1>1 DEF ToSet
<1>7. CASE lost' = lost /\ hold' = [hold EXCEPT ![w] = batch]
  <2>1. PipeType'
    BY <1>1, <1>2, <1>4, <1>7 DEF BookInv, PipeType
  <2>2. hold'[w] = batch /\ \A v \in Workers \ {w} : hold'[v] = hold[v]
    BY <1>7 DEF BookInv, PipeType
  <2>3. OnePlace'
    BY <1>1, <1>4, <1>5, <1>7, <2>2 DEF BookInv, OnePlace
  <2>4. AckedIsBooked'
    BY <1>1, <1>5, <1>7 DEF BookInv, AckedIsBooked
  <2> QED
    BY <2>1, <2>3, <2>4 DEF BookInv
<1>8. CASE lost' = lost \cup new /\ hold' = hold
  <2>1. PipeType'
    BY <1>1, <1>2, <1>8 DEF BookInv, PipeType
  <2>2. OnePlace'
    BY <1>1, <1>5, <1>8 DEF BookInv, OnePlace
  <2>3. AckedIsBooked'
    BY <1>1, <1>5, <1>8 DEF BookInv, AckedIsBooked
  <2> QED
    BY <2>1, <2>2, <2>3 DEF BookInv
<1> QED
  BY <1>3, <1>7, <1>8 DEF batch

\* processMessage: the first entry a worker holds goes to the channel, or is given up.
LEMMA HandOnBookInv ==
  ASSUME BookInv, NEW w \in Workers, Forward(w) \/ DropFull(w)
  PROVE  BookInv'
<1> DEFINE e == Head(hold[w])
           rest == Tail(hold[w])
<1>1. hold[w] \in Seq(Nat) /\ hold[w] # <<>> /\ NoRepeat(hold[w])
  BY DEF Forward, DropFull, BookInv, PipeType, OnePlace
<1>2. /\ rest \in Seq(Nat) /\ e \in Nat /\ NoRepeat(rest)
      /\ ToSet(hold[w]) = ToSet(rest) \cup {e} /\ e \notin ToSet(rest)
  BY <1>1, HeadAndTail
<1>3. /\ hold' = [hold EXCEPT ![w] = rest]
      /\ UNCHANGED <<stream, delivered, pel, task, acks, credits>>
  BY DEF Forward, DropFull, redis, hist
<1>4. \/ rpc' = Append(rpc, e) /\ lost' = lost
      \/ rpc' = rpc /\ lost' = lost \cup {e}
  BY DEF Forward, DropFull, hist
<1> HIDE DEF e, rest
<1>5. hold'[w] = rest /\ \A v \in Workers \ {w} : hold'[v] = hold[v]
  BY <1>3 DEF BookInv, PipeType
<1>6. e \in 1..delivered /\ e \notin ToSet(rpc) \cup ToSet(credits) \cup lost
  BY <1>2 DEF BookInv, OnePlace
<1>7. /\ rpc' \in Seq(Nat) /\ NoRepeat(rpc')
      /\ ToSet(rpc') \cup lost' = ToSet(rpc) \cup lost \cup {e} /\ ToSet(rpc') \cap lost' = {}
  <2>1. rpc \in Seq(Nat) /\ NoRepeat(rpc) /\ ToSet(rpc) \cap lost = {}
    BY DEF BookInv, PipeType, OnePlace
  <2>2. /\ Append(rpc, e) \in Seq(Nat) /\ NoRepeat(Append(rpc, e))
        /\ ToSet(Append(rpc, e)) = ToSet(rpc) \cup {e}
    BY <1>2, <1>6, <2>1, AppendedSet
  <2>3. CASE rpc' = Append(rpc, e) /\ lost' = lost
    BY <1>6, <2>1, <2>2, <2>3
  <2>4. CASE rpc' = rpc /\ lost' = lost \cup {e}
    BY <1>6, <2>1, <2>4
  <2> QED
    BY <1>4, <2>3, <2>4
<1>8. \A v \in Workers \ {w} : e \notin ToSet(hold[v])
  BY <1>2 DEF BookInv, OnePlace
<1>9. PipeType'
  BY <1>2, <1>3, <1>7 DEF BookInv, PipeType
<1>10. OnePlace'
  <2>1. \A v \in Workers : ToSet(hold'[v]) \subseteq ToSet(hold[v]) /\ e \notin ToSet(hold'[v])
    BY <1>2, <1>5, <1>8
  <2>2. \A v \in Workers :
          /\ NoRepeat(hold'[v]) /\ ToSet(hold'[v]) \subseteq 1..delivered
          /\ ToSet(hold'[v]) \cap (ToSet(rpc') \cup ToSet(credits) \cup lost') = {}
    <3>1. \A v \in Workers : /\ NoRepeat(hold[v]) /\ ToSet(hold[v]) \subseteq 1..delivered
                             /\ ToSet(hold[v]) \cap (ToSet(rpc) \cup ToSet(credits) \cup lost) = {}
      BY DEF BookInv, OnePlace
    <3>2. \A v \in Workers : NoRepeat(hold'[v])
      BY <1>2, <1>5, <3>1
    <3>3. \A v \in Workers : ToSet(hold'[v]) \subseteq 1..delivered
      BY <2>1, <3>1
    <3>4. ASSUME NEW v \in Workers, NEW x \in ToSet(hold'[v])
          PROVE  x \notin ToSet(rpc') \cup ToSet(credits) \cup lost'
      <4>1. x # e /\ x \notin ToSet(rpc) \cup ToSet(credits) \cup lost
        BY <2>1, <3>1
      <4> QED
        BY <1>7, <4>1
    <3> QED
      BY <3>2, <3>3, <3>4
  <2>3. \A v \in Workers : \A u \in Workers \ {v} : ToSet(hold'[v]) \cap ToSet(hold'[u]) = {}
    BY <2>1 DEF BookInv, OnePlace
  <2>4. (ToSet(rpc') \cup lost') \cap ToSet(credits) = {}
        /\ ToSet(rpc') \cup lost' \subseteq 1..delivered
    BY <1>6, <1>7 DEF BookInv, OnePlace
  <2> QED
    BY <1>3, <1>7, <2>2, <2>3, <2>4 DEF BookInv, OnePlace
<1>11. AckedIsBooked'
  BY <1>3 DEF BookInv, AckedIsBooked
<1> QED
  BY <1>9, <1>10, <1>11 DEF BookInv

\* rpcHandler books the entry it takes from the channel.
LEMMA BookBookInv ==
  ASSUME BookInv, NEW h \in Handlers, Book(h)
  PROVE  BookInv'
<1> DEFINE e == Head(rpc)
<1>1. rpc \in Seq(Nat) /\ rpc # <<>> /\ NoRepeat(rpc) /\ credits \in Seq(Nat)
  BY DEF Book, BookInv, PipeType, OnePlace
<1>2. /\ rpc' = Tail(rpc) /\ credits' = Append(credits, e) /\ task' = [task EXCEPT ![h] = e]
      /\ UNCHANGED <<stream, delivered, pel, hold, acks, lost>>
  BY DEF Book, redis
<1>3. /\ rpc' \in Seq(Nat) /\ e \in Nat /\ NoRepeat(rpc')
      /\ ToSet(rpc) = ToSet(rpc') \cup {e} /\ e \notin ToSet(rpc')
  BY <1>1, <1>2, HeadAndTail
<1> HIDE DEF e
<1>4. e \notin ToSet(credits) \cup lost /\ e \in 1..delivered
  BY <1>3 DEF BookInv, OnePlace
<1>5. credits' \in Seq(Nat) /\ ToSet(credits') = ToSet(credits) \cup {e} /\ NoRepeat(credits')
  BY <1>1, <1>2, <1>3, <1>4, AppendedSet DEF BookInv, OnePlace
<1>6. PipeType'
  BY <1>2, <1>3, <1>5 DEF BookInv, PipeType
<1>7. OnePlace'
  BY <1>2, <1>3, <1>4, <1>5 DEF BookInv, OnePlace
<1>8. \A g \in Handlers : task'[g] = task[g] \/ task'[g] = e
  BY <1>2 DEF BookInv, PipeType
<1>9. AckedIsBooked'
  BY <1>2, <1>5, <1>8 DEF BookInv, AckedIsBooked
<1> QED
  BY <1>6, <1>7, <1>9 DEF BookInv

LEMMA AckBookInv ==
  ASSUME BookInv, (\E h \in Handlers : SendAck(h)) \/ Ack \/ AckFails
  PROVE  BookInv'
<1>1. UNCHANGED <<stream, delivered, hold, rpc, credits, lost>>
  BY DEF SendAck, Ack, AckFails, redis, hist
<1>2. OnePlace'
  BY <1>1 DEF BookInv, OnePlace
<1>3. ASSUME NEW h \in Handlers, SendAck(h) PROVE BookInv'
  <2>1. task[h] \in Nat /\ task[h] \in ToSet(credits) /\ UNCHANGED pel
    BY <1>3 DEF SendAck, BookInv, PipeType, AckedIsBooked, redis
  <2>2. task' = [task EXCEPT ![h] = NoEntry] /\ acks' \in {acks, Append(acks, task[h])}
    BY <1>3 DEF SendAck
  <2>3. acks' \in Seq(Nat) /\ ToSet(acks') \subseteq ToSet(acks) \cup {task[h]}
    <3>1. acks \in Seq(Nat)
      BY DEF BookInv, PipeType
    <3>2. Append(acks, task[h]) \in Seq(Nat) /\ ToSet(Append(acks, task[h])) = ToSet(acks) \cup {task[h]}
      BY <2>1, <3>1, AppendedSet
    <3>3. acks' = acks \/ acks' = Append(acks, task[h])
      BY <2>2
    <3> QED
      BY <3>1, <3>2, <3>3
  <2>4. PipeType'
    BY <1>1, <2>2, <2>3 DEF BookInv, PipeType
  <2>5. \A g \in Handlers : task'[g] = task[g] \/ task'[g] = NoEntry
    BY <2>2 DEF BookInv, PipeType
  <2>6. AckedIsBooked'
    BY <1>1, <2>1, <2>3, <2>5 DEF BookInv, AckedIsBooked
  <2> QED
    BY <1>2, <2>4, <2>6 DEF BookInv
<1>4. CASE Ack \/ AckFails
  <2>1. acks \in Seq(Nat) /\ acks # <<>> /\ acks' = Tail(acks) /\ UNCHANGED task
    BY <1>4 DEF Ack, AckFails, BookInv, PipeType
  <2>2. acks' \in Seq(Nat) /\ ToSet(acks) = ToSet(acks') \cup {Head(acks)}
    BY <2>1, HeadAndTail
  <2>3. Head(acks) \in ToSet(credits)
    BY <2>2 DEF BookInv, AckedIsBooked
  <2>4. pel' = pel \/ pel' = pel \ {Head(acks)}
    BY <1>4 DEF Ack, AckFails, redis
  <2>5. PipeType'
    BY <1>1, <2>1, <2>2 DEF BookInv, PipeType
  <2>6. AckedIsBooked'
    BY <1>1, <2>1, <2>2, <2>3, <2>4 DEF BookInv, AckedIsBooked
  <2> QED
    BY <1>2, <2>5, <2>6 DEF BookInv
<1> QED
  BY <1>3, <1>4

\* The process ends: what workers and channel held is given up.
LEMMA CrashBookInv ==
  ASSUME BookInv, Crash
  PROVE  BookInv'
<1>1. /\ lost' = lost \cup ToSet(rpc) \cup UNION {ToSet(hold[w]) : w \in Workers}
      /\ hold' = [w \in Workers |-> <<>>] /\ rpc' = <<>>
      /\ task' = [h \in Handlers |-> NoEntry] /\ acks' = <<>>
      /\ UNCHANGED <<stream, delivered, pel, credits>>
  BY DEF Crash, redis
<1>2. PipeType'
  BY <1>1 DEF BookInv, PipeType
<1>3. ToSet(<<>>) = {} /\ NoRepeat(<<>>)
  BY DEF ToSet, NoRepeat
<1>4. \A w \in Workers : hold'[w] = <<>>
  BY <1>1
<1>5. ToSet(credits) \cap lost' = {} /\ lost' \subseteq 1..delivered
  BY <1>1 DEF BookInv, OnePlace
<1>6. OnePlace'
  BY <1>1, <1>3, <1>4, <1>5 DEF BookInv, OnePlace
<1>7. AckedIsBooked'
  BY <1>1, <1>3 DEF BookInv, AckedIsBooked
<1> QED
  BY <1>2, <1>6, <1>7 DEF BookInv

LEMMA NextBookInv ==
  ASSUME MasterType, MasterType', BookInv, [Next]_vars
  PROVE  BookInv'
<1>1. Len(stream) \in Nat /\ Len(stream') \in Nat
  BY DEF MasterType
<1>2. ASSUME stream' = stream, UNCHANGED <<delivered, pel, pipe, hist>> PROVE BookInv'
  BY <1>1, <1>2, MasterBookInv
<1>3. CASE NewBlock \/ Start \/ StartFails \/ Tick \/ ScanEnds \/ Save \/ SaveFails \/ UNCHANGED vars
  BY <1>2, <1>3 DEF NewBlock, Start, StartFails, Tick, ScanEnds, Save, SaveFails, vars, redis
<1>4. CASE Push \/ PushFails
  <2>1. UNCHANGED <<delivered, pel, pipe, hist>>
    BY <1>4 DEF Push, PushFails
  <2>2. Len(stream') >= Len(stream)
    BY <1>4 DEF Push, PushFails
  <2> QED
    BY <1>1, <2>1, <2>2, MasterBookInv
<1> QED
  BY <1>3, <1>4, ReadBookInv, HandOnBookInv, BookBookInv, AckBookInv, CrashBookInv DEF Next

\* Engine.worker, processMessage, rpcHandler and rdbACK: any number of workers and
\* handlers and any series of crashes book an entry at most once, never one that was
\* given up, and acknowledge only what is booked.
THEOREM EntriesAreBookedOnce == Spec => []BookedOnce
<1>1. /\ MasterType /\ HeightInv /\ BookInv /\ [Next]_vars
      => MasterType' /\ HeightInv' /\ BookInv'
  BY NextHeightInv, NextBookInv
<1>2. BookInv => BookedOnce
  BY DEF BookInv, OnePlace, AckedIsBooked, NoRepeat, BookedOnce
<1> QED
  BY InitHeightInv, InitBookInv, <1>1, <1>2, PTL DEF Spec
=============================================================================
