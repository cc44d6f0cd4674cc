---------------------------- MODULE ChainScanner ----------------------------
(***************************************************************************)
(* The deposit scanner (internal/watcher/scanner): a master that walks the *)
(* chain, pushes deposits to a Redis stream and stores its height in       *)
(* MySQL; workers that read the stream through a consumer group; handlers  *)
(* that book the deposit; and a goroutine that acknowledges the entries.   *)
(* Stream, group and height survive a crash; channels and locals do not.   *)
(*                                                                         *)
(* A deposit is named by its block, a stream entry by its position.        *)
(***************************************************************************)
EXTENDS Integers, Sequences, SequencesExt, FiniteSets

CONSTANTS Workers,        \* the goroutines of Engine.worker
          Handlers,       \* the goroutines of Engine.rpcHandler
          Step,           \* GetSkip: blocks per fetch, 1 or 1000
          DepositBlocks,  \* the blocks that hold a deposit
          ReadCount,      \* entries per XReadGroup
          RpcSize,        \* capacity of chainTransferRpcChan
          AckSize,        \* capacity of rdsAckChan
          MaxHeight,      \* bound on the length of the chain
          MaxFaults,      \* bound on failed calls and crashes
          NoEntry

ASSUME ScannerAssumption ==
  /\ Step \in Nat \ {0} /\ ReadCount \in Nat \ {0}
  /\ RpcSize \in Nat \ {0} /\ AckSize \in Nat \ {0}
  /\ MaxHeight \in Nat /\ MaxFaults \in Nat
  /\ DepositBlocks \subseteq 1..MaxHeight /\ NoEntry \notin Nat

VARIABLES
  tip,        \* the height of the chain
  cursor,     \* scans.current_height in MySQL
  stream,     \* the Redis stream: the deposit of each entry
  delivered,  \* how many entries the group has delivered
  pel,        \* the group's pending entries
  master,     \* the master: "down", "tick", "scan", "save", "dead"
  height,     \* currentHeight
  scanned,    \* scaner: lastSuccessHeight, its from is one more
  target,     \* scaner: blockHeight
  hold,       \* per worker, the entries it has read and not handed on
  rpc,        \* chainTransferRpcChan
  task,       \* per handler, the entry it has booked and not handed on
  acks,       \* rdsAckChan
  credits,    \* history: the entries booked, in order
  lost,       \* history: entries dropped, or on their way at a crash
  nfault

redis == <<stream, delivered, pel>>
mst   == <<master, height, scanned, target>>
pipe  == <<hold, rpc, task, acks>>
hist  == <<credits, lost>>
vars  == <<tip, cursor, redis, mst, pipe, hist, nfault>>

Init ==
  /\ tip = 0 /\ cursor = 0
  /\ stream = <<>> /\ delivered = 0 /\ pel = {}
  /\ master = "down" /\ height = 0 /\ scanned = 0 /\ target = 0
  /\ hold = [w \in Workers |-> <<>>] /\ rpc = <<>>
  /\ task = [h \in Handlers |-> NoEntry] /\ acks = <<>>
  /\ credits = <<>> /\ lost = {} /\ nfault = 0

Fault == nfault < MaxFaults /\ nfault' = nfault + 1

-----------------------------------------------------------------------------
(* The master *)

NewBlock ==
  /\ tip < MaxHeight
  /\ tip' = tip + 1
  /\ UNCHANGED <<cursor, redis, mst, pipe, hist, nfault>>

Start ==
  /\ master = "down"
  /\ height' = cursor
  /\ master' = "tick"
  /\ UNCHANGED <<tip, cursor, redis, scanned, target, pipe, hist, nfault>>

\* GetLastCursor fails: the master panics, safe.GoCtx recovers, nobody scans.
StartFails ==
  /\ master = "down"
  /\ Fault
  /\ master' = "dead"
  /\ UNCHANGED <<tip, cursor, redis, height, scanned, target, pipe, hist>>

Tick ==
  /\ master = "tick"
  /\ target' = tip /\ scanned' = height
  /\ master' = "scan"
  /\ UNCHANGED <<tip, cursor, redis, height, pipe, hist, nfault>>

\* Mutant of To: the end of the chain is ignored.
ToBeyondTip(from) == from + Step - 1

To(from) == IF from + Step - 1 > target THEN target ELSE from + Step - 1

\* The chain adapter: the deposits of one block, or of a range of blocks by
\* their transfer logs.  What is not a deposit is filtered out.
FetchBlock(n) == DepositBlocks \cap {n} \cap 1..tip
FetchLog(from, to) == DepositBlocks \cap (from..to) \cap 1..tip

\* GetFetchAndPush of the two scan modes: BlockStrage, whose GetSkip is 1, looks
\* at the block `from` alone and still answers for the range; LogStrage takes all.
BlockStrage(from, to) == FetchBlock(from)
LogStrage(from, to)   == FetchLog(from, to)
\* What one of them finds, in the order of the blocks (a set of one list).
Fetched(from, to) ==
  LET found == IF Step = 1 THEN BlockStrage(from, to) ELSE LogStrage(from, to)
  IN  {ds \in [1..Cardinality(found) -> found] :
         ToSet(ds) = found /\ \A i, j \in DOMAIN ds : i < j => ds[i] < ds[j]}

\* Mutant of ScanEnds: the last two blocks wait for the next tick.
ScanEndsEarly ==
  /\ master = "scan"
  /\ scanned + 2 >= target
  /\ height' = scanned
  /\ master' = "tick"
  /\ UNCHANGED <<tip, cursor, redis, scanned, target, pipe, hist, nfault>>

ScanEnds ==
  /\ master = "scan"
  /\ scanned + 1 >= target
  /\ height' = scanned
  /\ master' = "tick"
  /\ UNCHANGED <<tip, cursor, redis, scanned, target, pipe, hist, nfault>>

Push ==
  /\ master = "scan"
  /\ scanned + 1 < target
  /\ \E ds \in Fetched(scanned + 1, To(scanned + 1)) : stream' = stream \o ds
  /\ master' = "save"
  /\ UNCHANGED <<tip, cursor, delivered, pel, height, scanned, target, pipe, hist, nfault>>

\* The fetch or the pipeline fails; a failed pipeline may have run in part.  The
\* master keeps the height it started the scan with.
PushFails ==
  /\ master = "scan"
  /\ scanned + 1 < target
  /\ Fault
  /\ \E ds \in Fetched(scanned + 1, To(scanned + 1)) :
       \E k \in 0..Len(ds) : stream' = stream \o SubSeq(ds, 1, k)
  /\ master' = "tick"
  /\ UNCHANGED <<tip, cursor, delivered, pel, height, scanned, target, pipe, hist>>

Save ==
  /\ master = "save"
  /\ cursor' = To(scanned + 1) /\ scanned' = To(scanned + 1)
  /\ master' = "scan"
  /\ UNCHANGED <<tip, redis, height, target, pipe, hist, nfault>>

\* UpdateCursor returns an error, whether or not the row was written.
SaveFails ==
  /\ master = "save"
  /\ Fault
  /\ cursor' \in {cursor, To(scanned + 1)}
  /\ master' = "tick"
  /\ UNCHANGED <<tip, redis, height, scanned, target, pipe, hist>>

-----------------------------------------------------------------------------
(* Workers, handlers, acknowledgements *)

Running == master # "down"

\* Mutants of Read: the first entry of a batch is skipped; pending entries are read again, as with the id "0".
ReadSkipsFirst(w) ==
  /\ Running /\ hold[w] = <<>>
  /\ delivered < Len(stream)
  /\ hold' = [hold EXCEPT ![w] = [k \in 1..(Len(stream) - delivered - 1) |-> delivered + 1 + k]]
  /\ pel' = pel \cup (delivered + 1)..Len(stream)
  /\ delivered' = Len(stream)
  /\ UNCHANGED <<tip, cursor, stream, mst, rpc, task, acks, hist, nfault>>
ReadPending(w) ==
  /\ Running /\ hold[w] = <<>>
  /\ delivered < Len(stream) \/ pel # {}
  /\ IF pel # {}
     THEN \E e \in pel : hold' = [hold EXCEPT ![w] = <<e>>] /\ UNCHANGED <<delivered, pel>>
     ELSE /\ hold' = [hold EXCEPT ![w] = <<delivered + 1>>]
          /\ delivered' = delivered + 1 /\ pel' = pel \cup {delivered + 1}
  /\ UNCHANGED <<tip, cursor, stream, mst, rpc, task, acks, hist, nfault>>

\* XReadGroup with ">": entries the group has not delivered to anyone.
Read(w) ==
  /\ Running /\ hold[w] = <<>>
  /\ delivered < Len(stream)
  /\ LET n == IF delivered + ReadCount < Len(stream) THEN delivered + ReadCount ELSE Len(stream)
     IN  /\ hold' = [hold EXCEPT ![w] = [k \in 1..(n - delivered) |-> delivered + k]]
         /\ pel' = pel \cup (delivered + 1)..n
         /\ delivered' = n
  /\ UNCHANGED <<tip, cursor, stream, mst, rpc, task, acks, hist, nfault>>

\* The reply of XReadGroup is lost: the entries count as delivered, and nobody has them.
ReadFails(w) ==
  /\ Running /\ hold[w] = <<>>
  /\ delivered < Len(stream)
  /\ Fault
  /\ LET n == IF delivered + ReadCount < Len(stream) THEN delivered + ReadCount ELSE Len(stream)
     IN  /\ pel' = pel \cup (delivered + 1)..n
         /\ lost' = lost \cup (delivered + 1)..n
         /\ delivered' = n
  /\ UNCHANGED <<tip, cursor, stream, mst, pipe, credits>>

Forward(w) ==
  /\ Running /\ hold[w] # <<>>
  /\ Len(rpc) < RpcSize
  /\ rpc' = Append(rpc, Head(hold[w]))
  /\ hold' = [hold EXCEPT ![w] = Tail(@)]
  /\ UNCHANGED <<tip, cursor, redis, mst, task, acks, hist, nfault>>

\* processMessage: the channel is full, the entry is skipped.
DropFull(w) ==
  /\ Running /\ hold[w] # <<>>
  /\ Len(rpc) = RpcSize
  /\ lost' = lost \cup {Head(hold[w])}
  /\ hold' = [hold EXCEPT ![w] = Tail(@)]
  /\ UNCHANGED <<tip, cursor, redis, mst, rpc, task, acks, credits, nfault>>

\* rpcHandler: take an entry and book it (insertRpc).
Book(h) ==
  /\ Running /\ task[h] = NoEntry
  /\ rpc # <<>>
  /\ credits' = Append(credits, Head(rpc))
  /\ task' = [task EXCEPT ![h] = Head(rpc)]
  /\ rpc' = Tail(rpc)
  /\ UNCHANGED <<tip, cursor, redis, mst, hold, acks, lost, nfault>>

\* Then hand it on for acknowledgement, unless that channel is full.
SendAck(h) ==
  /\ Running /\ task[h] # NoEntry
  /\ acks' = IF Len(acks) < AckSize THEN Append(acks, task[h]) ELSE acks
  /\ task' = [task EXCEPT ![h] = NoEntry]
  /\ UNCHANGED <<tip, cursor, redis, mst, hold, rpc, hist, nfault>>

\* rdbACK: XAck, which may fail; there is no second try.
Ack ==
  /\ Running /\ acks # <<>>
  /\ pel' = pel \ {Head(acks)}
  /\ acks' = Tail(acks)
  /\ UNCHANGED <<tip, cursor, stream, delivered, mst, hold, rpc, task, hist, nfault>>

AckFails ==
  /\ Running /\ acks # <<>>
  /\ Fault
  /\ acks' = Tail(acks)
  /\ UNCHANGED <<tip, cursor, redis, mst, hold, rpc, task, hist>>

\* The process ends, by a signal or by a crash.
Crash ==
  /\ Running /\ Fault
  /\ lost' = lost \cup ToSet(rpc) \cup UNION {ToSet(hold[w]) : w \in Workers}
  /\ hold' = [w \in Workers |-> <<>>] /\ rpc' = <<>>
  /\ task' = [h \in Handlers |-> NoEntry] /\ acks' = <<>>
  /\ master' = "down"
  /\ UNCHANGED <<tip, cursor, redis, height, scanned, target, credits>>

Master  == Start \/ Tick \/ ScanEnds \/ Push \/ Save

Next ==
  \/ NewBlock
  \/ Start \/ Tick \/ ScanEnds \/ Push \/ Save
  \/ StartFails \/ PushFails \/ SaveFails
  \/ \E w \in Workers : Read(w) \/ ReadFails(w) \/ Forward(w) \/ DropFull(w)
  \/ \E h \in Handlers : Book(h) \/ SendAck(h)
  \/ Ack \/ AckFails
  \/ Crash

Spec == Init /\ [][Next]_vars

\* The ticker fires, goroutines are scheduled, the process is started again.
FairSpec ==
  /\ Spec
  /\ WF_vars(Master)
  /\ \A w \in Workers : WF_vars(Read(w)) /\ WF_vars(Forward(w) \/ DropFull(w))
  /\ \A h \in Handlers : WF_vars(Book(h)) /\ WF_vars(SendAck(h))
  /\ WF_vars(Ack)

-----------------------------------------------------------------------------
TypeOK ==
  /\ tip \in 0..MaxHeight /\ cursor \in Nat
  /\ stream \in Seq(DepositBlocks) /\ delivered \in 0..Len(stream)
  /\ pel \subseteq 1..delivered
  /\ master \in {"down", "tick", "scan", "save", "dead"}
  /\ height \in Nat /\ scanned \in Nat /\ target \in Nat
  /\ hold \in [Workers -> Seq(1..delivered)] /\ rpc \in Seq(1..delivered)
  /\ Len(rpc) <= RpcSize
  /\ task \in [Handlers -> (1..delivered) \cup {NoEntry}] /\ acks \in Seq(1..delivered)
  /\ Len(acks) <= AckSize
  /\ credits \in Seq(1..delivered) /\ lost \subseteq 1..delivered
  /\ nfault \in 0..MaxFaults

\* The stored height, and every height a scan continues from, is covered by the
\* stream: no failed call, partly run pipeline or restart makes the scanner pass
\* over a deposit.
HeightIsCovered ==
  \A d \in DepositBlocks :
    \/ d <= cursor \/ (Running /\ d <= height) \/ (master \in {"scan", "save"} /\ d <= scanned)
    => d \in ToSet(stream)

\* An entry is booked at most once, whatever workers, handlers and restarts do, and
\* one that is given up is not booked later; only booked entries are acknowledged.
BookedOnce ==
  /\ \A i, j \in 1..Len(credits) : credits[i] = credits[j] => i = j
  /\ ToSet(credits) \cap lost = {}
  /\ (1..delivered) \ pel \subseteq ToSet(credits)

\* A deposit that another block covers reaches the stream, unless the master died
\* of the query for its first height.
DepositIsPushed ==
  \A d \in DepositBlocks : d < tip ~> (d \in ToSet(stream) \/ master = "dead")

\* Every entry is booked, or given up because a channel was full, a reply was
\* lost or the process ended.
EntryEnds ==
  \A e \in 1..MaxHeight : e <= Len(stream) ~> (e \in ToSet(credits) \cup lost)

-----------------------------------------------------------------------------
\* The comments in processMessage: an entry that found the channel full stays in the
\* stream and is handled at the next XReadGroup.
FullIsRetried ==
  \A e \in 1..MaxHeight : e <= Len(stream) ~> e \in ToSet(credits)
=============================================================================
