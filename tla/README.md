# gopherex: a TLA+ verification project

gopherex is a small exchange in Go: a matching engine that journals its commands and its
results, a market-data path (feeds, candles, websocket fan-out), a chain watcher that credits
deposits, an account/funds service, and shared infrastructure packages.  This project models
the parts that carry state and concurrency, model-checks them with TLC on small instances and
proves the most important facts with TLAPS for all values of the constants.

Contents: 1 inventory; 2 modules and their correspondence to the code; 3 runs, bounds,
fairness; 4 proofs; 5 what the code does differently from its documents; 6 abstractions and
what is not modelled; 7 plan.

## 1. Inventory

### Write-ahead log (`pkg/wal`)
*State*: a file of length/CRC-framed records, a `bufio.Writer` in front of it.
*Operations*: `OpenWrite`, `Append`, `Flush` (write + fsync), `Close`, `Replay` (tolerates a
truncated tail on request), `TruncateTo`, `OpenReader`/`Next`.
*Hard*: a write may stop anywhere, also inside a record; a later append goes behind the torn
bytes and buries them; the two readers treat a torn tail differently; what a reader makes of buried
bytes depends on how many there are; only `Flush` reaches the disk.
*Correct if*: what was flushed is read back, in order, and a reader never delivers more than
was written.

### Heap order book (`internal/matching/levell_book_heap.go`, `HeapBookAdapter`)
*State*: `byID`, a list per price level, two maps price -> level, two price heaps with lazy
deletion, a pool of nodes shared by all books.
*Operations*: `Add`, `Cancel`, `MatchLimitEmit` and its loops, `BestAsk`, `BestBid`.
*Hard*: four structures that must stay in step through long sequences of calls; pooled nodes
are reset when returned.
*Correct if*: index and lists agree, every resting order can be matched, price-time priority,
quantity is conserved, the book is not crossed at rest.

### Symbol engine (`internal/engine`)
*State*: per symbol a mailbox, an actor with a sequence number and a book, `cmd.wal`,
`ev.wal` (the outbox), a publisher with a cursor file; an event bus.
*Operations*: `TrySubmit`/`TryCancel`; `getOrCreateActor` (scan and repair the outbox, replay
`cmd.wal`, fill in missing results, start actor and publisher); `Run` of the actor (batch,
log, apply, emit, flush); `Run` of the publisher (read, publish, commit the cursor); `Stop`.
*Interaction*: clients -> channel -> actor -> book -> outbox file -> publisher -> bus.  Actor
and publisher share only the outbox file.
*Hard*: the publisher reads a file that is being written; the process can end between any two
steps, including during recovery; writes fail; power failures lose what was not synced.
*Correct if*: no event without its logged command (write-ahead), every logged command is
answered, events sent again are the same events, the publisher skips nothing, replay rebuilds
the live book.

### Other order books (`level_book.go`, `book_naive.go` + `match.go`)
*State*: the level book keeps the level lists and maps with a cached best price per side, and
`byID`; the naive book two sorted slices and an index `pos`.  Benchmarks and tests drive them
with the same calls as the heap book; the engine does not use them.
*Hard*: the cached best price and the index must follow every cancel and every trade.
*Correct if*: they are the same book as the heap book, command by command and trade by trade.

### Candles (`internal/quotes/kline`)
*State*: `TradeAgg` (bars under construction per symbol and second, watermark), `RollupAgg`
(current coarser bar), `ShardedAggregator` (one goroutine and inbox per shard).
*Hard*: late and out-of-order trades, gaps, flush at shutdown while the inbox is not empty.
*Interaction*: feed -> inbox -> `TradeAgg` -> `RollupAgg`s by callbacks -> channel `out` ->
the process that publishes the bars.
*Correct if*: each bucket is emitted at most once and in order, OHLCV are those of the trades
that were not dropped, coarse bars agree with the fine bars, `Close` returns.

### Websocket hub and connections (`internal/quotes/ws`)
*State*: topic -> connections, latest payload per topic; per connection the latest payload per
topic not written yet, a one-token channel, a read and a write pump.
*Interaction*: broker channel -> `Gateway.Run` -> `Hub.Publish` -> `Conn.Offer` -> `writePump`;
clients -> `readPump` -> `Subscribe`, `Unsubscribe`, `RemoveConn`.
*Hard*: subscribe against publish, removal while publishing, a slow client, shutdown.
*Correct if*: no wake-up is lost, a subscriber ends up with the newest payload, a dead
connection is forgotten and both its goroutines end.

### Brokers, gateway, sources, sink (`internal/quotes/{gateway,mdsource,datasource,storage}`)
*State*: in-memory and NATS topics; per source a goroutine (`runOne`) with a connection and a
backoff, two channels shared by all sources; a batching Influx writer.
*Operations*: `Runner.Run`, `runOne`, `Source.Run` of Coinbase and Binance with their parsers.
*Interaction*: exchange -> source -> `Out` -> consumer -> aggregator; nobody reads `Err`.
*Hard*: a source blocked on a full channel while the program stops; errors nobody reads;
reconnecting for ever; closing `Out` behind the last sender.
*Correct if*: every source ends after a cancel and `Out` is then closed; a source reconnects as
long as the exchange can be reached.

### Chain watcher (`internal/watcher`)
*State*: the scan height, a cursor row in MySQL, a Redis stream with consumer groups, an
in-process channel to rpc workers.
*Hard*: crash between push and cursor update, a full channel, redelivery, stale height after
an error.
*Interaction*: master -> chain RPC -> Redis stream -> workers -> channel -> handlers -> channel
-> acknowledgement; MySQL keeps the height.
*Correct if*: every block's deposits are handed on at least once, a stream entry is booked at
most once, only booked entries are acknowledged.

### Accounts (`internal/account`)
*State*: an idempotency table in the business transaction (`DoOnceTx`), balances with a
version, a Redis cache of balances with a delete after the update, a second one by a timer, and
a refresh by change events; `GetBalance` behind a singleflight.
*Hard*: concurrent requests with one key on InnoDB's locks, retries after a crash or a lost
reply, a stale refill of the cache, a process that dies before it deletes.
*Correct if*: an operation takes effect once per key, an answer is about an effect that is in the
database, the cache ends up with the newest version or nothing.

### Funds service (`cmd/funds-service`, `internal/funds`, `pkg/interceptor`, `pkg/ratelimit`)
*State*: the process's dependencies, its listener and requests in flight; one token bucket per
key; a circuit breaker per method at the client, a Sentinel breaker per resource at the server;
the query that concurrent `GetBalances` calls share.
*Operations*: start, serve, stop; a call through breaker, timeout, limiter, Sentinel, error
mapping, cache and query; the janitor of the limiter store.
*Hard*: the order of shutdown against running handlers; one caller's hang-up fails the shared
query of all; two breakers in series; errors of the cache must stay invisible; a forgotten
bucket comes back full.
*Correct if*: no handler works on a closed dependency, forgetting a bucket admits nothing extra,
the breakers close again after trouble.

### Service registry (`pkg/register/etcd`)
*State*: one key per service name and address, on the lease of the process that put it; the
resolver's address list.
*Operations*: `Register` (grant, put, keepalive), `UnRegister`, `Close`; `Build`, watch,
`refresh`, `ResolveNow` of the resolver.
*Hard*: two runs at one address share a key; leases expire late; two refreshes land out of order;
changes between the first read and the watch.
*Correct if*: a serving process is registered, a dead one leaves the clients' lists, the list is
the registry's when nothing is on its way.

### Infrastructure (`pkg`)
`bootstrap.Run` is the same wiring as funds-service's `main`, as a function that returns errors.
`xerr` and the error interceptors translate errors.  A Redis master lock (`xredis/lock.go`) that no
program uses, a goroutine runner (`safe`), logging, configuration, tracing, key derivation.

### API gateway (`internal/api-geteway`)
An HTTP server that dials the services through the resolver.  It has no state of its own, and
calls `rpcclient.Init`, which does not exist at this commit.

`PROJECT.json` lists each component with its status and each hazard at its source line.

## 2. Modules

| module | models | role |
|---|---|---|
| `Wal` | `pkg/wal/wal.go`, `reader.go` | a log file as a value |
| `BookOps` | `levell_book_heap.go`, `heap_price.go` | the operations on a heap book value |
| `HeapBook` | the book under `HeapBookAdapter` | state machine, one step per trade |
| `LevelBook`, `NaiveBook` | `level_book.go`; `book_naive.go`, `match.go` | the other books as values |
| `Books`, `MCBooks` | package `matching` | the three books under the same commands |
| `AdapterOps` | `HeapBookAdapter.go` | a whole submit or cancel with its events |
| `SymbolEngine`, `MCSymbolEngine` | `internal/engine` | actor, recovery, publisher, faults |
| `EventFeed` | what the engine promises | abstract specification |
| `Kline`, `MCKline` | `internal/quotes/kline` | one shard: trades to bars to coarser bars |
| `ChainScanner` | `internal/watcher/scanner`, its repo and strategies | deposits from the chain to the booking |
| `WsHub` | `internal/quotes/ws`, `gateway` | broker channel, hub, connections |
| `Feed`, `MCFeed` | `internal/quotes/mdsource`, `datasource` | sources, runner, consumer |
| `Idempotency`, `BalanceCache` | `internal/account/app/idempotency.go`, `deposit_creditor.go` | one component each |
| `Accounts` | | their composition by a caller that updates and invalidates |
| `Registry` | `pkg/register/etcd` | etcd, registration, resolver |
| `Services`, `MCServices` | `cmd/funds-service/main.go`, `pkg/bootstrap` | processes over the registry |
| `RateStore` | `pkg/ratelimit/store.go` | one bucket and the janitor |
| `Breakers` | `pkg/ratelimit` (client), `pkg/interceptor/sentinel.go` and Sentinel's rules | breakers as values |
| `ErrorCodes` | `pkg/xerr`, the error interceptors | how an error is seen on its way |
| `FundsCalls`, `MCFundsCalls` | `internal/funds`, the interceptors | calls through all of the above |
| `SymbolEngineProofs` | | theorems about the log and the engine |
| `HeapBookProofs`, `KlineProofs`, `AccountsProofs`, `ChainScannerProofs`, `WsHubProofs`, `ServicesProofs`, `FundsCallsProofs` | | theorems about the module each is named after; `HeapBookProofs` also about `AdapterOps` and `Books` |

`SymbolEngine` takes the book as a parameter (`Apply`, `Valid`, `Book0`); its MC module plugs
in `AdapterOps`, so run `engine` has the real book, and the theorems hold for any book.

**Wal.** A file is `[recs, synced, tail, gap, stub]`.  `Write` is the effect of bytes reaching the
file, `Flushed` that of `Writer.Flush`, `PartialWrites` the files an interrupted write can
leave, `PowerCuts` those a power failure can leave, `TruncatedTo` is `TruncateTo`.  `ReplayOk`
and `ReaderOk` say when `Replay` and `Reader.Next` reach the end without an error: they differ
because `OpenReader` never takes over `AllowTruncatedTail`, and because a header without a
payload byte reads as `io.EOF`.  A torn record is a `stub` (the first byte of a header), a bare
`header`, or `partial` (any other cut).  `gap` is where later appends have buried one, `stub`
whether it was a stub.  A record of `cmd.wal` has a payload of 67 bytes, so a stub is the byte
0x43, and with the next header behind it the reader finds the length 0x4343, 17219.  As long as the
file holds less behind it, which is 229 records (`StubSpan`), `Replay` gets `io.ErrUnexpectedEOF`
and takes it for a torn tail: it returns without an error and the records behind the stub are
hidden (`Hides`).  Every other buried cut reads as a length beyond 4 MB or as a wrong checksum,
which is an error.

**BookOps / HeapBook.** A heap book is `[node, q, lvl, heap]`: `byID`, the level lists, the two
maps and the two heaps (the set of prices in them).  `SubmitLimit`, then one `MatchStep` per
trade, then `Rest`; the split exists so that priority and conservation are stated per trade,
no other command interleaves (`taker = NoTaker` guards them).  `CancelOrder` deletes from the
map chosen by the side the code reads after `putNode` has reset it: 0, or a side another
actor has put there meanwhile (`ReusedSides`).  `older` is history, not state of the code: the
pairs of resting orders, the one that came first first.

**LevelBook / NaiveBook / Books.** The level book's value has the lists, the cached best prices
(`best`) and `byID`, in which a cancelled node stays (`in` says whether the map still has its
level); `Recompute` is `recomputeBestAsk/Bid`, `Healed` the repair of a best price without a level
inside the match loop.  The naive book's value has the two slices and `pos`, which only the
inserts and `Cancel2` write.  `Books` gives every command to all three: `Submit`, one `Match` per
iteration of the loops of all books that still match, `RestAll`, `CancelAll` (with the naive
book's `Cancel` or `Cancel2`), `BestAll`.  Each book has a defect of its own (section 5); `sound`
is the set of books it has not struck, `misplaced` says the same of the heap book.  A struck level
or naive book is not followed any further (what its pointers or indexes then hold is not modelled);
the heap book is.  `InsertAt0` is the index the naive book's binary search ends at, by what the
search establishes: in a slice that is not sorted there is none.  `BooksAgree` compares, for the
naive book, the stretch of the slice from the first to the last order of a price, so that an order
of another price in between counts as a difference.

**SymbolEngine.** Variables and the code they stand for:

| variables | code |
|---|---|
| `cmdFile, cmdBuf, evFile, evBuf` | the two logs and their writers |
| `cursor` | the `ev.cursor` file, in records |
| `pc` | `down` (no actor), `replay` (inside `getOrCreateActor`), `idle` (the actor's select), `log` and `apply` (its two phases), `dead` (`Run` has returned after a write error, the mailbox is still registered) |
| `mailbox, batch, seq, book` | fields and locals of `SymbolActor` |
| `ri, complete` | the replay's position and `lastCompleteSeq` |
| `pub, rd, held, off` | the publisher, its reader's position, how far the buffer of a closed reader (`blind`) reaches, and the offset it would commit |
| `lastPub, out, acked` | history, for the properties only |
| `ncmd, nfault` | bounded by `MaxCmds`, `MaxFaults` |

| actions | code |
|---|---|
| `Open`, `ReplayRecord`, `ReplayFails`, `Start` | `getOrCreateActor`, `ScanAndRepairOutbox`, `applyCommandToBook` |
| `TryEnqueue` | `TrySubmit`, `TryCancel` |
| `TakeBatch`, `FlushCmd`, `ApplyCmd`, `FlushEv` | `SymbolActor.Run` |
| `SpillEv` | the `bufio.Writer` of the outbox writing on its own |
| `PubStart`, `PublishEvent`, `CommitCursor`, `ReaderStumbles`, `ReaderCloses` | `OutboxPublisher.Run` |
| `Stop`, `Crash`, `PowerLoss`, `WriteFails`, `FillFails` | `Engine.Stop`, the environment, the error returns |

`ReaderCloses` is the end of reading: `Close` is called on the file and `Next` fails from then on.
`ReaderStumbles` is an error with records in the reader's buffer: `Close` leaves the buffer alone, so
`Next` goes on delivering from it.  The one error inside a file that an open symbol can have is a
bare header in an outbox without a `CmdEnd` (the scan takes it for the end of the file and cuts
nothing), which the replay's first event then follows.  The reader takes most of that event
for the missing payload and its last 8 bytes, a quantity of 0, for the header of an empty record: the
event is lost, the ones behind it are published, with an offset that is one record short, and the
next `CmdEnd` stores it.

**EventFeed** keeps a log of commands that only grows and a set of events sent, each about a
command that had its number.  The refinement maps the log to the records of `cmd.wal` and `hidden` to
`Hides(cmdFile)`.  Until commands are hidden, a command's number is its place in the log.

**Kline.** `bars, latest, last, has` are the `symState` of one symbol, `cur[k]` the current bar of
the k-th interval's `RollupAgg`.  Actions: `OfferTrade`, `OfferDropped` (the producer);
`TakeBad`, `TakeLate`, `TakeTrade` (the three ways through `TradeAgg.OfferTrade`, with
`emitReady` as `EmitReady`); `Emit` (one emit callback: send to `out`, then `OfferBar` of the
next interval with its gap filling); `FlushTrades`, `FlushRollup` (the shutdown);
`Read`, `Quit`, `Cancel`, `Close` (the consumer and `main`).  An aggregator's callback calls the
next aggregator, which may emit in turn; `todo` is that call stack, as the list of bars still to
be emitted, so that a full `out` can stop the goroutine between any two of them.  A trade
carries its parsed price and size; one that `ParseFixed` refuses is `BadTrade`.  The properties
about contents name trades and bars by their places in `taken` and `sent`: a bar's trades are those
of its bucket, the finer bars of a bar those of its bucket that were sent, and a volume is a sum
over places (`Volume`).

**ChainScanner.** Block mode (`Step = 1`, `BlockStrage`) and log mode (`LogStrage`) differ in
what they fetch: the block `from` alone, or the logs of the whole range.  `stream, delivered, pel` are the Redis stream with one consumer group (entries,
last delivered one, pending entries), `cursor` the row of `scans`, `master, height, scanned,
target` the master goroutine and its locals, `hold, rpc, task, acks` the entries in memory.
`Tick`, `ScanEnds`, `Push`, `Save` are the loop of `master` and `scaner`; `Read`, `Forward`,
`DropFull` that of `worker`; `Book`, `SendAck` that of `rpcHandler`; `Ack` that of `rdbACK`.
Faults: `StartFails` (the panic that `safe.GoCtx` swallows), `PushFails` (fetch or pipeline,
the latter after any part of it has run), `SaveFails` (with or without effect), `ReadFails` (the
reply is lost, the entries are delivered), `AckFails`, `Crash`.  `insertRpc` is a stub that
returns nil; it is taken as the booking.  `credits` and `lost` are history.

**WsHub.** A payload is its version.  `pub` is the state of `Hub.Publish`: it reads the
subscriber set (`PublishBegin`), stores the payload (`PublishLast`), and offers it to one
connection after another (`PublishOffer`, `PublishNotify`: `Offer` first stores, then puts the
token).  The set it iterates over is the hub's own map, read without the lock: `SeenByPublish`
says what a concurrent change does to the iteration (a removed entry is not visited, an added one
may be, an emptied map is dropped), and `MapFault` is the abort by which the Go runtime may
answer a concurrent write.  `Subscribe` takes its snapshots under the lock and offers them after
it (`OfferSnapshot`, `NotifySnapshot`).  `TakeToken`, `FlushLatest`, `Write`, `WriterEnds` are
`writePump`, `ReaderEnds` is the deferred end of `readPump`, `Disconnect` the client or a deadline.

**Feed.** `st[s]` is the place of a source's goroutine: `check`, `dial`, `loop`, `read`, `send`,
`report`, `sleep`, `returned`.  `Dialled`, `DialRefused`, `DialTimeout`, `DialCancelled` are the
ends of a dial; `Loop`, `ReadMessage`, `ReadFails`, `Send`, `SendCancelled` the read loop with the
exchange's parser (`ParseCoinbaseMarketTrades` yields the usable trades of a message, Binance's at
most one); `Check`, `Report`, `Wake`, `SleepCancelled`, `Close` are `Runner`.  `Report` drops the
error when `Err` is full.  The environment is `Take`, `ConsumerEnds`, `Signal`, `Network`.  Trades
are not told apart, so channels are counters.

**Idempotency.** `req[r]` is a caller's transaction: `BeginTx`, then `InsertRow` (takes the key),
`InsertWaits` and `InsertShared` (the key belongs to another transaction), `SelectForUpdate`
(`readIdem`, then an answer from the row), `RunFn`, `MarkCommitted` (stores the response),
`Commit`; `DeadlockVictim`, `LockWaitTimeout` and `Abort` roll back.  A commit may succeed without
its reply.  `row` and `ledger` are what is committed, `excl` and `shared` InnoDB's row locks: they
are external and modelled from the documented behaviour of a duplicate `INSERT` and of
`SELECT ... FOR UPDATE`.  `Unencodable` are the requests whose result `json.Marshal` refuses.

**BalanceCache.** A balance is its version.  `Lookup`, `Do`, `Check`, `ReadDB`, `SetEntry`, `Land`
are `GetBalance` with its singleflight; `UpdateBalance_DoubleDelete` and `SecondDelete` the two
deletes; `EventGet`, `EventSet` the two steps of `OnBalanceChangedEvent`; `Expire` is the ttl.
The timer of the second delete is in the memory of a process; `TimerDies` is its loss.
`fired`, `lost` and `late` are history.  **Accounts** lets a caller go on from `DoOnceTx` to the delete
(`Invalidate`) or die in between (`CallerDies`); the version is the number of committed effects.

**Registry.** `key[a]` is the process whose lease the key of address a hangs on; `Grant`, `Put`,
`DeleteAnyOwner` (by key, whoever put it), `EndLease` change it.  The resolver is `Build`, `WatchStarts`, `WatchEvent`,
`WatchGetFails`, `ResolveNow` (each a `Get` outside the lock) and `UpdateState` (the list is
stored and handed to gRPC).  Lists carry an age, in changes since they were read.

**Services.** `pc[p]` follows `main`: `Start` (database, redis and etcd client, lease),
`RegisterPut`, `RegisterDone`, `Listen`, then `Signal` or a server error, `StopServing`,
`Drained` (`GracefulStop`), `UnRegister`, `Revoke`, `CloseDeps`; `StartFails`, `PutRefused`,
`TracerFails`, `Abandon` are the failing starts, which end the process at once in `main`
(`log.Fatalf` runs no deferred call) and run the deferred calls in `bootstrap.Run`.  Faults:
`Crash`, `Partition` (the lease ends under a living process), `ResolverFails`.  `Redial` is gRPC
calling `ResolveNow` for an address nobody answers at.

**RateStore, Breakers, ErrorCodes, FundsCalls.** A call goes `Call` -> `Enter` (limiter and
Sentinel) -> `CacheHit`, `CacheMiss` or `CacheError` -> the shared query (`QueryOk`, `QueryFails`,
run with the context of the `leader`; `Stored`, its result is cached) -> `Exit` (Sentinel counts, the
error is mapped, the client's breaker counts).  `Refuse` (then `Again`) and `RateLimited` are the
early returns, `TimeOut` and `HangUp` the client's, after which the handler runs on.  `trouble` is
which of database and Redis is failing or hanging: a Redis that hangs holds the cache read until it
ends with an error (`CacheError`), and the deadline of a call may pass meanwhile, since it covers the
cache read as well and `newRedis` sets no timeout.  `blamed` is history: nobody, the callers (a
hang-up, a burst the limiter refuses) or the services (the database fails, a deadline passes).
gobreaker and Sentinel are external: `Generation`, `OnFailure`, `OnSuccess` and `TryPass`,
`Completed` are their state machines as the code configures them, Sentinel's with the strategies
that count errors (`ErrorCount`, `ErrorRatio` with `MinRequestAmount`).  An error is its Go type, its
code and the code of its cause.  `ideal` is the bucket that would have been kept; time is counted in
ticks.

## 3. Runs

| run | shows |
|---|---|
| `books` | up to five commands on three reused ids, three prices, quantities up to 2: index and lists of the heap book agree, every trade has price-time priority, the heap book is reachable and uncrossed until a `Cancel` has deleted from the wrong map, and books not struck by their own defect are the same book after every trade |
| `engine` | two stops, kills (with torn records) or write errors anywhere among three commands: write-ahead, and the engine implements `EventFeed`, also behind a buried tear; nothing is skipped unless a bare header is buried in the outbox; unless a buried tear hides commands, every logged command is answered at rest and, as long as none was refused, replay rebuilds the book, repeated events are equal and a publisher run is ordered |
| `engine_power` | two power failures, which may tear the record they cut: write-ahead; logged commands are answered unless a tear keeps the symbol from opening or hides commands, and a publisher reads its backlog unless a tear is buried in it |
| `engine_silent` | violation: see section 5 |
| `kline` | three trades in any order of arrival, some late or unreadable, and a shutdown anywhere: bars leave in order, once, without holes, and equal the trades and the finer bars they stand for; `Close` returns unless the consumer has left a full channel |
| `scanner` | log mode, four blocks, two deposits, two faults: no deposit is passed over, an entry is booked at most once, deposits reach the stream, entries end |
| `scanner_drops` | violation, block mode: an entry that found the channel full is not retried |
| `ws_hub` | one connection, two topics: no lost wake-up, a subscriber at rest has the newest payload unless a `Subscribe` overlapped a `Publish`, payloads are written, both pumps end |
| `feed` | a Coinbase and a Binance source: after a cancel everything ends and `Out` is closed, wherever the sources were; sources reconnect unless a dial has timed out |
| `accounts` | two callers with equal or different keys and parameters, two tries each, a reader and an event: effects once, true answers, a cache that is fresh when no delete is outstanding, whatever readers are in the middle of, unless an old value was set after the second delete or the process died before it, and fresh in the end |
| `services` | a `main` and a `bootstrap.Run` at one address, one fault: handlers have their dependencies, a serving process is registered, the list is current, dead processes leave it |
| `funds_calls` | two concurrent calls behind the client's breaker: forgetting a bucket is free; Redis errors and a hanging Redis stay hidden until a deadline passes in it; both breakers close again once the services answer and callers neither hang up nor come in bursts |

The module-wide type invariants are stated as `TypeOK` beside the actions of the modules they
belong to; `SymbolEngine`'s is a theorem, and the other proofs carry theirs in their invariants.

**Bounds.** Three ids at three prices give two orders in one level, two levels on one side,
partial fills, a sweep of two levels, a level emptied and reopened, and an id used again after a
cancel or a fill; five commands are enough for each book's defect to happen with commands left.
Ids are interchangeable (symmetry).  `LvIds` has a level for every entry of the maps
and every order (`LevelsAssumption`), so a fresh one always exists.  In the engine, `BatchMax = 2` with three commands gives full,
partial and consecutive batches; `MailboxSize = 2` a full mailbox; two faults give a fault
during the recovery from a fault, or a fault of each kind.  The commands are a bid, a
cancel of it (which may find nothing) and an ask the actor refuses for its price of 0, and which
the replay lets trade with the bid: each path through `ApplyCmd` and `applyCommandToBook`.
`engine_power` asks nothing of the book and has one that answers every command alike.  `StubSpan = 1` stands for 229: one record behind
a buried stub is hidden, two make the replay fail, so both happen with three commands.

In `kline`, intervals of 2, 4 and 8 with offset 1 and times 0, 1, 2, 5, 11, 23 give trades in
one bucket, neighbouring buckets, a gap of one and of several buckets at each level, and with
window 3 trades just inside and just outside it; inbox and `out` hold 1 and 2, so both fill up.
In `scanner`, `Step = 3` over four blocks gives a full and a cut chunk and one chunk with two
deposits (a pipeline that can run in part); one worker and one handler already interleave with
the master, each other and the acknowledgements, and channels of capacity 1 fill up; two faults
give a fault while recovering from one.  Entries are handed to one worker each by the group, so
a second worker adds orders of independent entries only.  In `ws_hub`, two topics give a batch of
two and an overwritten payload, two client messages an unsubscribe or resubscribe that overlaps a
`Publish`.  Connections share only the subscriber sets; one connection has all interleavings of
its two pumps with the publishing goroutine.

In `feed`, `Out` holds 2 and a message up to two trades of two sources, so senders wait; `Err`
holds 1, so errors are dropped; a backoff of 1, 2, 3 doubles and meets its maximum.  In `accounts`,
two callers with two tries are a first call, a concurrent duplicate, a retry after an error and a
conflict of parameters; three holders of one lock would add a second victim only.  In `services`,
two runs at one address are a restart, an overlap of old and new, and a second copy; one request
in flight and one fault show each failing step.  In `funds_calls`, a rule of two failures and two
probes has a half-open state that lasts; two callers give a leader and a follower; Sentinel's rule is
the configured one, half of the calls of a window of at least two (ten in the configuration),
and a window counts at most two calls (`StatMax`), where it ends; with `Rate = Burst = TTL = 1` the ttl is just long enough to fill a bucket,
the
tightest case; the gateway's numbers (2000 tokens at 1000 a second, ten minutes) leave far more room.

**Deadlock** is checked for the books and for `funds_calls`: the other bounded systems stop when
their commands, trades, blocks, payloads, tries or processes are used up.

**Fairness** (`FairSpec`): in the engine, weak fairness of the recovery, of the actor and of the
publisher.  The Go scheduler runs every runnable goroutine; an fsync and the bus's consumer return;
clients keep calling `TrySubmit`, which calls `getOrCreateActor` when the symbol is closed.
Nothing is assumed of clients' first calls, of the spill of a buffer, or of faults.
`Kline`: the shard's goroutine, the caller of `Close` and, until it quits, the consumer.  Nothing
makes trades arrive or the context end.  `ChainScanner`: the master (its ticker fires, the process
is started again), workers, handlers and acknowledgements; blocks and faults are free.  `WsHub`:
the gateway's goroutine and both pumps; that a writer ends on a dead connection is its ping and
write deadline, that a reader does is the read deadline.
`Feed`: the sources' goroutines, timers and the consumer until it leaves; strong fairness of a send,
because a Go channel serves its waiting senders in the order they came; that a read fails in the
end is the read deadline set once after the dial, or the exchange's end of the connection.  The signal,
the network and a dial's timeout are free.  `Accounts`: the database answers, timers fire, entries
expire, goroutines run; no caller has to retry, time out or die.  `Services`: processes run on,
handlers return (`GracefulStop` waits for them without a deadline), leases without a keepalive
expire, watch responses arrive, gRPC dials again; faults and signals are free.  `FundsCalls`:
handlers run on, clocks advance, a cache read ends with an answer or an
error (its own limit, or the call's context), a query by an answer or by the deadline of its leader;
`BreakersRecover` assumes in its own text that guarded calls are attempted again and again, where an
attempt the breaker refuses counts (`Refuse` or `Call`), that trouble ends, and that callers hang up
and come in bursts only for a while.

## 4. Proofs

TLAPS checks each of these for every value of the constants that satisfies the named
assumptions of the modules; TLC evaluates those assumptions on the instances it runs.

| theorem | module | statement |
|---|---|---|
| `TypeCorrect` | `SymbolEngineProofs` | `Spec => []TypeOK` |
| `WriteAhead` | `SymbolEngineProofs` | `Spec => []EventsHaveCommands`, if `CleanFaults` |
| `PublisherSkipsNothing` | `SymbolEngineProofs` | `Spec => []NothingSkipped`, without power failures |
| `EngineIsFeed` | `SymbolEngineProofs` | `Spec => ImplementsFeed`, if `CleanFaults` |
| `RestIsComplete` | `SymbolEngineProofs` | `Spec => []CompleteAtRest`, if `CleanFaults` |
| `EventsLeaveInOrder` | `SymbolEngineProofs` | `Spec => PublishedInOrder`, if `CleanFaults` |
| `ReplayRebuildsTheBook` | `SymbolEngineProofs` | `Spec => []BookIsReplay`, if `CleanFaults` |
| `ResultsAreStable` | `SymbolEngineProofs` | `Spec => []ResultsAgree`, if `CleanFaults` |
| `ListsMatchIndex` | `HeapBookProofs` | `Spec => []IndexMatchesLevels` |
| `BookStaysSound` | `HeapBookProofs` | `Spec => []SoundUntilMisplaced` |
| `TradesHavePriority` | `HeapBookProofs` | `Spec => PriceTimePriority` |
| `BooksRunTheHeapBook` | `HeapBookProofs` | `BooksSpec => Spec` |
| `BooksStayTheSame` | `HeapBookProofs` | `BooksSpec => []BooksAgree` |
| `AdapterIsABook` | `HeapBookProofs` | the adapter on the heap book satisfies `BookAssumption` |
| `SubmitRunsToItsEnd` | `HeapBookProofs` | a whole submit is `SubmitLimit`, `MatchStep`s and `Rest`, and keeps a book sound |
| `BarsLeaveInOrder` | `KlineProofs` | `Spec => []InOrder` |
| `BarsHoldTheirTrades` | `KlineProofs` | `Spec => []BarsAreTrades` |
| `RollupsAreSums` | `KlineProofs` | `Spec => []RollupsAgree` |
| `FlushLosesNothing` | `KlineProofs` | `Spec => []FlushedInFull` |
| `EffectsHappenOnce` | `AccountsProofs` | `Spec => []EffectOnce` |
| `AnswersAreTrue` | `AccountsProofs` | `Spec => []AnswerIsTrue` |
| `DoubleDeleteWorks` | `AccountsProofs` | `Spec => []FreshAtRest` |
| `NothingIsPassedOver` | `ChainScannerProofs` | `Spec => []HeightIsCovered` |
| `EntriesAreBookedOnce` | `ChainScannerProofs` | `Spec => []BookedOnce` |
| `NoWakeUpIsLost` | `WsHubProofs` | `Spec => []TokenForPayload` |
| `SubscribersAreFresh` | `WsHubProofs` | `Spec => []FreshWithoutRace` |
| `HandlersKeepDeps` | `ServicesProofs` | `Spec => []HandlersHaveDeps` |
| `ServingStaysRegistered` | `ServicesProofs` | `Spec => []ServingIsRegistered` |
| `ListStaysCurrent` | `ServicesProofs` | `Spec => []ListIsCurrent` |
| `JanitorIsFree` | `FundsCallsProofs` | `Spec => []ForgettingIsFree` |
| `CacheErrorsStayInside` | `FundsCallsProofs` | `Spec => []CacheErrorsAreHidden` |

**Assumptions.** Most only say that a parameter is a number or that a null value is none of the
values it stands beside (`NoRowAssumption`, `IdleAssumption`, `NilAssumption`, `NilsAssumption`,
`ValuesAssumption`).  Those with content:

* `BookAssumption`: a book's operations return books and lists of events.  The engine's theorems
  hold for every book, not only for the heap book; that the heap book is one is `AdapterIsABook`.
* `CleanFaults`: kills and power failures do not both occur.  It is needed: after a kill the
  replay answers commands that are in the file but were never fsynced, and a power failure may
  then take the commands while their fsynced events stay.
* `RateAssumption`: `Rate * TTL >= Burst`, a bucket fills up within the ttl.  The gateway
  configures 1000 a second, 2000 and ten minutes.
* `LevelsAssumption`: orders and prices are finitely many, and there are as many level objects as
  entries of the maps and orders: an allocation always returns an object nothing refers to.
* `ThresholdAssumption`: Sentinel's rules trip after at least one error.
* `TopicsAssumption`: the hub has finitely many topics, at least one.

**Symbol engine.**  *TypeCorrect* is inductive as stated; the work is in the facts about `Write`,
`Flushed`, `PartialWrites`, `PowerCuts`, `TruncatedTo` as functions on well-formed files, which open
the module.

*WriteAhead.* `EventsHaveCommands` is not inductive.  `LogInv` adds that while a batch is applied its
commands are in `cmd.wal`, and that with power failures the whole file is synced and a gap has
records behind it.  Nothing is said of the numbers, so the theorem holds behind a buried tear too.

The following theorems, *PublisherSkipsNothing* apart, have the premise `NoneHidden`: no buried stub
hides records of `cmd.wal`.  As long as it holds, it has always held (`NoneHiddenBefore`), and `CmdInv`
does: record k of `cmd.wal` carries number k (`CmdsNumbered`); a buffer continues the file
(`BufferNumbered`); at rest the actor's number is the length of the log (`SeqAtEnd`); while a batch
is applied its records are the ones in the file under their numbers (`BatchInLog`).

*PublisherSkipsNothing.* A publisher runs only beside a running actor (`PubNeedsActor`), so that no
recovery cuts the outbox under a reader.  `PubInv` adds: the cursor lies in front of a `CmdEnd` of
the outbox that the repair keeps (`CursorProtected`); and everything a reader that is not blind has
passed is published (`ReadPublished`).  It is kept until a tear is buried in the outbox, which without
power failures stays (`GapStays`), and only there a reader goes blind (`BlindAtGap`).

*EngineIsFeed.* The initial state maps to the feed's, and every step, a recovery or a fault
included, maps to a step of the feed or leaves its variables alone; what the publisher sends is
about a logged command by *WriteAhead*, the mapped log only grows and what is hidden stays hidden
(`CmdsMove`), and until then the numbers are the places by `CmdInv`.

*RestIsComplete.* File and buffer of the outbox are looked at as one sequence, `Outbox`.
`AnswerInv` says how far it has got at each place of the recovery and of the actor: whatever is in
front of a `CmdEnd` is answered (`EndsComplete`), the replay has answered up to its position, the
actor up to the head of its batch, and at rest up to the end of `cmd.wal`.

*EventsLeaveInOrder.* As long as no logged command was refused, the numbers in `Outbox` do not
fall, a `CmdEnd` stands wherever they rise, and the first is 1 (`OrderInv`); so a cut behind the
last `CmdEnd` takes whole answers, and the replay continues with the next number.  `LastInv` ties
the last event sent to a record the reader has passed.

*ReplayRebuildsTheBook* and *ResultsAreStable* speak of a recursion over the log.  `BookAt(s, n)`
is the book after the first n commands; that the recursion defines it, and that it depends on these
commands only, is proved by the least length at which it would fail (`LeastNat`, from the
well-foundedness of `<`), since the library's induction rules cannot be instantiated.  `BookInv`
says how far the actor's book has got in the log.  `ResultInv` says that event k of a command,
wherever it is, is entry k of what there is to say about the command on the book in front of it.

**Heap book.** The invariants are predicates on a book value and each operation has a lemma for
each: `Indexed` (every order in `byID` is in its level's list, a list has no order twice, what is in
a list is in `byID` with that level), `Aged` (lists are in the order of arrival), `Placed` (an
order's level is in the map of its side under its price, and its price in the heap; a level in a map
has only orders of that side and price, and has one) and `Uncrossed`.  The first two hold always,
the others until a `Cancel` deletes from the wrong map.  The best price exists because a heap is
finite (`BestExists`), a fresh level because maps and orders cannot use all of them
(`FreshExists`).  *TradesHavePriority* follows: the maker is the first of its list, and the heap
knows every price an order rests at.

**Adapter.** `AdapterOps` runs a whole submit at once, by a recursive function with one iteration
per order id.  That this is enough is a theorem: a trade fills the taker or takes its maker out of
the book (`TradeEnds`), so after k iterations the loop has ended or at most all but k orders
rest (`LoopAt`).  So *SubmitRunsToItsEnd*, and with it the engine's run has the same heap book
as the `books` run; and by the lemmas on the operations a call returns a book with `Indexed` and a
list of events that is not empty (*AdapterIsABook*), which is what the engine's theorems ask for.

**The three books.** `BooksAgree` compares books that store the same thing in three ways, so the
invariant, `BooksInv`, has something all of them show: a *view* says which orders rest and, for
each, its side, price, quantity and the orders of its level in front of it.  `HeapShows`,
`LevelShows` and `NaiveShows` say that a book's structures are such a view; `BooksInv` says that
there is one view that every sound book shows, and one quantity that each has left of the taker.  A
book that shows a view has exactly its queues and its best prices, whichever book it is
(`Shown`, `Left`), and *BooksStayTheSame* follows.  What remains is that an add, a trade or a cancel
turns the view into the same next one in each book: the best price and the oldest order
there are facts about the view, so all books that match take the same maker, and one matches
exactly when the others do.  `LevelOK` (the cached price is the best of the levels there
are, `byID` and the lists describe the same orders) and `NaiveOK` (a slice is sorted by price, and
has an order once) are the other two books' invariants; the heap book's are those above.

**Candles.** `InOrder` speaks of the bars sent; the invariant speaks of these and of the bars still
on the call stack (`Out`), and of the bars being built.  `Building`: bars start at buckets of their
interval, so that two different starts are an interval apart (`BucketsApart`).  `Stack`: coarser
bars are on top, and once an interval is flushed nothing reaches its aggregator any more.  `Order`:
of one interval, everything sent is before what is on the stack, and both before the bar being
built; no bar of the first interval is newer than `lastEmittedStartMs`.  `NoHole`: where gaps are
filled, every bar in `Out` is followed by the next bucket, in `Out` or as the bar being built, unless
it was flushed as the last.

The other three are about contents.  `TradeInv` says that every bar of the first interval, sent, on
the stack or being built, is what the accepted trades of its bucket make, and that every accepted
trade is in one: a trade that came after its bar had left would be in a bucket at or before
`lastEmittedStartMs`, and the test for lateness refuses it (with a window of 0 nothing is late,
so the premise `Window > 0` is the code's).  `RollInv` says the same of a coarser bar and
the finer ones that have been sent; *RollupsAreSums* needs no premise, as finer bars reach an
aggregator in order.  A step adds one place to a sum over places: `Min`, `Max`, `Cardinality` and
`Volume` of a set with one more place are lemmas, and so is that the volumes of the parts of a
partition add up to that of the whole (`VolumePartition`).  *FlushLosesNothing* is that lemma once
per interval, the interval's bars partitioning the finer ones and the first interval's the trades.

**Accounts.** `IdemInv`: a caller that has inserted its row holds the key exclusively, and there is
no committed row for it (`HoldsKey`); a committed row names an effect with its parameters
(`RowTellsEffect`).  `CacheInv`: versions in the cache and on the way are known ones, the newest
version has been or will be deleted behind, or its timer is lost (`NewestDeleted`), and what was not set too late is not
older than the last second delete (`NotOlderThanFired`).

**Chain scanner.** `HeightInv`: the stored height, the master's height and the one it has scanned
are covered, and a range about to be saved has been pushed.  `BookInv`: a delivered entry is at one
place only, with a worker, in the channel, booked or given up (`OnePlace`); what is on its way to
an acknowledgement is booked (`AckedIsBooked`).

**Hub.** `TokenForPayload` is inductive with the types.  `FreshInv` defines what a connection will
have when everything under way to it is written (`Coming`): for every subscriber that is the
latest payload, or the `Publish` under way has still to visit it (`Apart`).

**Services.** `DepsInv`: only a process that is up accepts calls, it does not leave `GracefulStop`
before its handlers have returned, and dependencies are open until then.  `KeyInv`: the key of an
unexposed process hangs on its lease, and no other process at its address is in a place from which
it could touch it.  `ListInv`: a list of age 0 is the registry's, and while nothing excuses an old
list a new one is in gRPC's hands, has been read or is announced.

**Funds calls.** `BucketInv`: an unused bucket has had `Rate` tokens for every tick, so one that is
old enough to be forgotten is full.  `CalmInv`: as long as nobody is to blame the database is well, no
client has left, no handler has an error, the client's breaker is as it was made and Sentinel's has
counted calls but no error (`Unharmed`); what Redis does is left open.

**Only model-checked:** every safety property and every refinement that a passing run checks is a
theorem.  What the provers cannot reach stays with TLC: the liveness properties, which rest on
`WF_` and `SF_` (`LoggedIsAnswered`, `BacklogIsPublished`, `CloseReturns`, `DepositIsPushed`,
`EntryEnds`, `PumpsEnd`, `PayloadIsWritten`, `EventuallyFresh`, `DeadLeaves`, `BreakersRecover`,
`StopsOnCancel`, `Reconnects`); the two counterexamples of section 5; and which books and
events the real commands lead to (`MCSymbolEngine`): of these the theorems use what
`BookAssumption` and `ValidAssumption` say.

## 5. Where the code and its documents differ

Two of these are runs whose counterexample TLC finds; `PROJECT.json` quotes the sentences.

* `engine_silent`: the publisher closes its reader at the first end of file and never opens it
  again; with no fault at all later results are not published before a restart.
* `scanner_drops`: a deposit whose entry meets a full channel stays pending for ever.

The models contain the following too; the passing properties are stated around them, by a premise
that names the case:

* `wal.go:167`: a kill leaves one byte of a header at the end of `cmd.wal`, the next append buries it,
  and the replay after the next restart takes the bogus length for a torn tail: the commands behind
  it are dropped without an error and their numbers used again, although `engine.go:172` says that
  numbers continue (`NoneHidden`; write-ahead and the refinement hold all the same).
* `outbox_publisher.go:76`: after an error the publisher closes the file but keeps the reader, whose
  buffer it goes on delivering: the offset it set back moves on behind an event that was never
  sent, and the cursor passes it, although the comment at line 104 says the rollback avoids a
  loss (`evFile.gap` in `NothingSkipped`).
* `service.go:60`: the shared query runs with the first caller's context; when that caller hangs up,
  everyone in the flight gets `codes.Internal` and Sentinel counts them, although `sentinel.go:44` says
  that only system errors are recorded (`blamed`).  `main.go:361`: without a timeout of its own a
  Redis that hangs uses up the deadline of the call.
* `levell_book_heap.go:149`: `Cancel` returns the node to the pool, which zeroes it, and then reads
  its side, so an emptied ask level stays in the map, which the comment at line 161 rules out.
  Once the heap has dropped the price, an order added there is invisible (`misplaced`).
* `level_book.go:134`: `Cancel` leaves the id in `byID`; a second `Cancel` cuts the list of its
  level, and a new order with that id is ignored.  `book_naive.go:158`: `Cancel2` trusts indexes
  that matching and inserting have moved, removes another order or panics (`sound`).
* `reader.go:58`: `OpenReader` ignores `AllowTruncatedTail`, which `outbox.go:92` asks for: a torn
  outbox record makes the scan fail, and the symbol cannot open (`CompleteAtRest` is about an open
  engine).
* `runner.go:66`: a dial that times out returns an error that is `context.DeadlineExceeded`, which
  `runOne` takes for the end of its own context: the source is never dialled again, although the
  comment at `coinbase/source.go:36` leaves reconnecting to the runner (`timedOut`).
* `deposit_creditor.go:89`: `OnBalanceChangedEvent` compares and sets in two steps, and a reader may
  set what it read before the second delete; until the ttl the cache is then old (`late`).  Line 79:
  the second delete is a timer in memory, which a process that dies takes along (`lost`).
* `idempotency.go:88`: the error of `json.Marshal` is dropped; the committed row has no response and
  every retry is told that the request is in progress.
* `etcd.go:62`: `UnRegister` deletes by key, so a second copy at one address takes the first one's
  registration away; `etcd.go:79`: when a lease is lost the keepalive loop spins on the closed
  channel and nothing registers again (`exposed`).
* `sentinel.go:60`: errors that carry a business code count as system errors, unlike the comment at
  line 45 says.
* `main.go:284`: `GracefulStop` has no deadline; a handler that hangs keeps the process registered
  and alive.

Further behaviours the models contain and the passing properties are stated around: a refused
command gets no `CmdEnd`, and the replay applies it although the actor did not (`LoggedValid`); events of the very first command without `CmdEnd` are
not cut; a `Subscribe` that
overlaps a `Publish` may miss the payload or overwrite it with an older snapshot
(`FreshWithoutRace`); a worker blocked on a full `out` keeps `Close` from returning
(`CloseReturns`); after an error the scanner's stored height moves back and deposits are pushed
again as new entries (`BookedOnce` is about entries).

## 6. Abstractions, and what is not modelled

* Offsets are counted in records.  Records keep the fields the properties read; the fixed
  layouts of the two codecs and the JSON form carry all of them, so encode/decode is a
  bijection on them and the codecs appear only through CRC and framing.
* A checksum over bytes that are not a record's fails (but with negligible probability): so the
  readers end at every buried cut except the two that never get to it (a stub, and a bare header in
  front of an event, see section 2).  Torn files that a fault of the medium leaves are not modelled.
* A price heap is a set of prices: duplicates would only repeat a lookup.
* Times, metrics, logs and error texts are left out.
* One symbol: the registry of symbols (double-checked locking in `getOrCreateActor`) and the
  configurations without WAL or outbox are not modelled yet.
* Candles: one symbol and one shard; prices and sizes are small naturals, the fixed-point
  conversions `ParseFixed` and `FormatFixed` are not modelled beyond refusing a trade.
* Scanner: one engine per chain; the height is keyed by the chain alone.
* Hub: JSON messages, metrics and the shutdown of the server and of the brokers are left out.
  With more topics than `maxFlush` payloads can wait without a token; the two properties about
  wake-ups say so in their premise.
* Books: what the pointers or indexes of a struck level or naive book hold is not followed.
* Services: one client's resolver; what a request does is left to `FundsCalls`.
* Funds calls: one method, one limiter key, one resource.  The breaker interceptor
  (`CiruiteBreakUnaryClient`), `RateLimitByMethodUnary` and `NewManager` are mounted by
  no program, and `config/funds-service.yaml` switches the Sentinel rule off; the model
  mounts them, as their code intends.  `Reserve`, `Release` and `SettleTrade` only panic.

Not modelled:

* the Influx sink and the Redis lock, which no program constructs or calls (the call at
  `recharge.go:121` is commented out), and `MemBroker`'s closing, likewise;
* the API gateway (section 1), gin middleware, request ids, the recovery from panics;
* configuration, logging, tracing, key derivation, the transaction status and address decoding of
  the chain adapters, the read-only registry of currencies: no protocol state;
* `learn/`, `exec/` and `deploy/`: exercises and demos beside the exchange.

Behaviours seen while modelling that no property is about:

* `outbox.go:129`: the cursor file is not
  fsynced, so a power failure may leave any older value.
* `kline/agg.go:136`: with a reorder window of 0 nothing is late; `agg.go:414`: `ParseFixed` cuts
  after eight digits and multiplies without an overflow check.
* `watcher/repo/scaner.go:20`: a block and a log engine of one chain overwrite each other's height.
  `FetchLog` of the BTC adapter returns nothing, so log mode finds no deposit there.
* `ws/conn.go:83`: payloads beyond `maxFlush` wait for the next `Offer`.
* `broker_nats.go:62`: a channel is closed while its callback may still send.
* `mdsource/runner.go:90`: the backoff is never reset after a connection that lasted;
  `coinbase/source.go:44`: only a pong extends the read
  deadline, and nothing sends a ping; `coinbase/parse.go:46`: the trades of a
  snapshot are delivered again after each reconnect.
* `funds/cache.go:60`: `DelBalances` has no caller, so cached balances are up to two hours old.
* `xredis/lock.go:30`: the renewal reads and writes in two steps.
* `api-geteway/http/http.go:19`: the janitor's context is cancelled when the constructor returns;
  `middleware/recover.go:14` does not call `c.Next`, so it recovers nothing.

## 7. Plan

Done: log, the three books, symbol engine with its proofs, candles, scanner, hub, feeds, accounts,
registry and service processes, limiter, breakers and funds calls.

Proved: every safety property of the runs, and the engine's refinement (section 4).

Next, models: two scan engines that share the stored height; the registry of symbols; the
shutdown of brokers and server; the fixed-point conversions against their reference.
