------------------------------- MODULE WsHub -------------------------------
(***************************************************************************)
(* The quotes gateway: a broker channel, the goroutine of Gateway.Run that *)
(* passes its messages to Hub.Publish, and websocket connections with one  *)
(* goroutine for reading (readPump: subscribe and unsubscribe) and one for *)
(* writing (writePump).  A connection keeps only the latest payload of     *)
(* each topic.                                                             *)
(*                                                                         *)
(* A payload is its version: the n-th payload published on its topic.  0   *)
(* stands for none.  Hub.Publish reads the subscriber map under a lock and *)
(* then iterates over it without one; when the map is emptied meanwhile,   *)
(* the hub drops it and later subscribers get another (pub.live = FALSE).  *)
(***************************************************************************)
EXTENDS Integers, Sequences, FiniteSets

CONSTANTS Conns, Topics,
          MaxFlush,  \* payloads per write, maxFlush
          ChanSize,  \* capacity of the broker's channel
          MaxPub,    \* bound on the payloads published per topic
          MaxOps     \* bound on the messages a client sends

ASSUME HubAssumption ==
  /\ MaxFlush \in Nat \ {0} /\ ChanSize \in Nat \ {0}
  /\ MaxPub \in Nat /\ MaxOps \in Nat
ASSUME TopicsAssumption == Topics # {} /\ IsFiniteSet(Topics)

Versions == 0..MaxPub
Nothing  == [t \in Topics |-> 0]

VARIABLES
  ver,      \* versions published so far, per topic
  ch,       \* the broker's channel to the gateway
  subs,     \* Hub.subs: topic -> subscribers
  last,     \* Hub.last: topic -> latest payload
  pub,      \* Hub.Publish: [pc, topic, ver, live, todo]
  latest,   \* Conn.latest: topic -> payload not written yet
  notify,   \* Conn.notify holds a token
  open,     \* the websocket is open
  reader,   \* readPump: "read", "snap" (offering snapshots), "done"
  snap,     \* snapshots Subscribe has still to offer
  ring,     \* connections a goroutine has stored a payload for and not yet notified
  writer,   \* writePump: "select", "flush" (token taken), "write", "done"
  batch,    \* payloads being written
  got,      \* the payload of each topic the client received last
  up,       \* the process runs
  raced,    \* history: a Subscribe and a Publish have overlapped
  nops

hub  == <<subs, last, pub>>
conn == <<latest, notify, open, reader, snap, ring, writer, batch, got>>
vars == <<ver, ch, hub, conn, up, raced, nops>>

Idle == [pc |-> "idle", topic |-> CHOOSE t \in Topics : TRUE, ver |-> 0, live |-> FALSE, todo |-> {}]

Init ==
  /\ ver = Nothing /\ ch = <<>>
  /\ subs = [t \in Topics |-> {}] /\ last = Nothing /\ pub = Idle
  /\ latest = [c \in Conns |-> Nothing] /\ notify = [c \in Conns |-> FALSE]
  /\ open = [c \in Conns |-> TRUE]
  /\ reader = [c \in Conns |-> "read"] /\ snap = [c \in Conns |-> Nothing]
  /\ ring = {}
  /\ writer = [c \in Conns |-> "select"] /\ batch = [c \in Conns |-> Nothing]
  /\ got = [c \in Conns |-> Nothing]
  /\ up = TRUE /\ raced = FALSE /\ nops = 0

-----------------------------------------------------------------------------
(* The broker and Hub.Publish *)

\* Broker.Publish: a full channel drops the newest message.
BrokerPublish(t) ==
  /\ ver[t] < MaxPub
  /\ ver' = [ver EXCEPT ![t] = @ + 1]
  /\ ch' = IF Len(ch) < ChanSize THEN Append(ch, [topic |-> t, ver |-> ver'[t]]) ELSE ch
  /\ UNCHANGED <<hub, conn, raced, nops>>

\* Gateway.Run takes a message; Publish reads the subscriber map.
PublishBegin ==
  /\ pub.pc = "idle" /\ ch # <<>>
  /\ LET m == Head(ch)
     IN  pub' = [pc |-> "last", topic |-> m.topic, ver |-> m.ver,
                 live |-> subs[m.topic] # {}, todo |-> subs[m.topic]]
  /\ ch' = Tail(ch)
  /\ raced' = (raced \/ \E c \in Conns : reader[c] = "snap")
  /\ UNCHANGED <<ver, subs, last, conn, nops>>

PublishLast ==
  /\ pub.pc = "last"
  /\ last' = [last EXCEPT ![pub.topic] = pub.ver]
  /\ pub' = [pub EXCEPT !.pc = "fan"]
  /\ UNCHANGED <<ver, ch, subs, conn, raced, nops>>

\* Conn.Offer is two steps: store the payload, then put a token into notify.
Store(c, t, v) == latest' = [latest EXCEPT ![c][t] = v]

\* Mutant of PublishOffer: the token is put in front of the payload.
PublishOfferRungFirst(c) ==
  /\ pub.pc = "fan" /\ c \in pub.todo
  /\ \/ /\ <<"hub", c>> \notin ring
        /\ notify' = [notify EXCEPT ![c] = TRUE]
        /\ ring' = ring \cup {<<"hub", c>>}
        /\ UNCHANGED <<latest, pub>>
     \/ /\ <<"hub", c>> \in ring
        /\ Store(c, pub.topic, pub.ver)
        /\ ring' = ring \ {<<"hub", c>>}
        /\ pub' = [pub EXCEPT !.todo = @ \ {c}]
        /\ UNCHANGED notify
  /\ UNCHANGED <<ver, ch, subs, last, open, reader, snap, writer, batch, got, raced, nops>>

PublishOffer(c) ==
  /\ pub.pc = "fan" /\ c \in pub.todo
  /\ \A d \in Conns : <<"hub", d>> \notin ring
  /\ Store(c, pub.topic, pub.ver)
  /\ ring' = ring \cup {<<"hub", c>>}
  /\ pub' = [pub EXCEPT !.todo = @ \ {c}]
  /\ UNCHANGED <<ver, ch, subs, last, notify, open, reader, snap, writer, batch, got, raced, nops>>

PublishNotify(c) ==
  /\ <<"hub", c>> \in ring
  /\ notify' = [notify EXCEPT ![c] = TRUE]
  /\ ring' = ring \ {<<"hub", c>>}
  /\ UNCHANGED <<ver, ch, hub, latest, open, reader, snap, writer, batch, got, raced, nops>>

PublishEnd ==
  /\ pub.pc = "fan" /\ pub.todo = {}
  /\ \A c \in Conns : <<"hub", c>> \notin ring
  /\ pub' = Idle
  /\ UNCHANGED <<ver, ch, subs, last, conn, raced, nops>>

-----------------------------------------------------------------------------
(* readPump *)

\* What a change of the subscriber maps does to a Publish that holds one of them: a
\* removed connection is not visited; an added one is, or may be when the iteration
\* is under way, unless the map was dropped.
SeenByPublish(added, removed, ts, subsNew) ==
  LET live == pub.live /\ subsNew[pub.topic] # {}
      new  == IF live THEN added \ subs[pub.topic] ELSE {}
      kept == pub.todo \ removed
      todo == {kept \cup new} \cup (IF pub.pc = "fan" THEN {kept} ELSE {})
  IN  IF pub.pc = "idle" \/ pub.topic \notin ts THEN pub' = pub
      ELSE \E x \in todo : pub' = [pub EXCEPT !.live = live, !.todo = x]

\* Mutant of Subscribe: no snapshots.
SubscribeNoSnapshot(c, ts) ==
  /\ reader[c] = "read"
  /\ nops < MaxOps
  /\ subs' = [t \in Topics |-> IF t \in ts THEN subs[t] \cup {c} ELSE subs[t]]
  /\ SeenByPublish({c}, {}, ts, subs')
  /\ nops' = nops + 1
  /\ raced' = (raced \/ pub.pc # "idle")
  /\ UNCHANGED <<ver, ch, last, conn>>

\* Under the lock: subscribe and take the snapshots.  They are offered after it.
Subscribe(c, ts) ==
  /\ reader[c] = "read"
  /\ nops < MaxOps
  /\ subs' = [t \in Topics |-> IF t \in ts THEN subs[t] \cup {c} ELSE subs[t]]
  /\ SeenByPublish({c}, {}, ts, subs')
  /\ snap' = [snap EXCEPT ![c] = [t \in Topics |-> IF t \in ts THEN last[t] ELSE 0]]
  /\ reader' = [reader EXCEPT ![c] = "snap"]
  /\ nops' = nops + 1
  /\ raced' = (raced \/ pub.pc # "idle")
  /\ UNCHANGED <<ver, ch, last, latest, notify, open, ring, writer, batch, got>>

OfferSnapshot(c) ==
  /\ reader[c] = "snap" /\ <<"conn", c>> \notin ring
  /\ \E t \in Topics :
       /\ snap[c][t] # 0
       /\ Store(c, t, snap[c][t])
       /\ snap' = [snap EXCEPT ![c][t] = 0]
  /\ ring' = ring \cup {<<"conn", c>>}
  /\ UNCHANGED <<ver, ch, hub, notify, open, reader, writer, batch, got, raced, nops>>

NotifySnapshot(c) ==
  /\ <<"conn", c>> \in ring
  /\ notify' = [notify EXCEPT ![c] = TRUE]
  /\ ring' = ring \ {<<"conn", c>>}
  /\ UNCHANGED <<ver, ch, hub, latest, open, reader, snap, writer, batch, got, raced, nops>>

SubscribeEnd(c) ==
  /\ reader[c] = "snap" /\ snap[c] = Nothing /\ <<"conn", c>> \notin ring
  /\ reader' = [reader EXCEPT ![c] = "read"]
  /\ UNCHANGED <<ver, ch, hub, latest, notify, open, snap, ring, writer, batch, got, raced, nops>>

Unsubscribe(c, ts) ==
  /\ reader[c] = "read"
  /\ nops < MaxOps
  /\ subs' = [t \in Topics |-> IF t \in ts THEN subs[t] \ {c} ELSE subs[t]]
  /\ SeenByPublish({}, {c}, ts, subs')
  /\ nops' = nops + 1
  /\ UNCHANGED <<ver, ch, last, conn, raced>>

\* ReadMessage fails because the connection is gone: RemoveConn, Close.
ReaderEnds(c) ==
  /\ reader[c] = "read" /\ ~open[c]
  /\ subs' = [t \in Topics |-> subs[t] \ {c}]
  /\ SeenByPublish({}, {c}, Topics, subs')
  /\ reader' = [reader EXCEPT ![c] = "done"]
  /\ UNCHANGED <<ver, ch, last, latest, notify, open, snap, ring, writer, batch, got, raced, nops>>

-----------------------------------------------------------------------------
(* writePump *)

TakeToken(c) ==
  /\ writer[c] = "select" /\ notify[c]
  /\ notify' = [notify EXCEPT ![c] = FALSE]
  /\ writer' = [writer EXCEPT ![c] = "flush"]
  /\ UNCHANGED <<ver, ch, hub, latest, open, reader, snap, ring, batch, got, raced, nops>>

Waiting(c) == {t \in Topics : latest[c][t] # 0}

\* flushLatest: up to MaxFlush payloads, in the map's random order.
FlushLatest(c) ==
  /\ writer[c] = "flush"
  /\ \E ts \in SUBSET Waiting(c) :
       /\ Cardinality(ts) <= MaxFlush
       /\ Cardinality(ts) = MaxFlush \/ ts = Waiting(c)
       /\ batch' = [batch EXCEPT ![c] = [t \in Topics |-> IF t \in ts THEN latest[c][t] ELSE 0]]
       /\ latest' = [latest EXCEPT ![c] = [t \in Topics |-> IF t \in ts THEN 0 ELSE latest[c][t]]]
       /\ writer' = [writer EXCEPT ![c] = IF ts = {} THEN "select" ELSE "write"]
  /\ UNCHANGED <<ver, ch, hub, notify, open, reader, snap, ring, got, raced, nops>>

Write(c) ==
  /\ writer[c] = "write" /\ open[c]
  /\ got' = [got EXCEPT ![c] = [t \in Topics |-> IF batch[c][t] # 0 THEN batch[c][t] ELSE @[t]]]
  /\ batch' = [batch EXCEPT ![c] = Nothing]
  /\ writer' = [writer EXCEPT ![c] = "select"]
  /\ UNCHANGED <<ver, ch, hub, latest, notify, open, reader, snap, ring, raced, nops>>

\* Mutants of WriterEnds: no ping; the connection is left open.
WriterEndsOnWrite(c) ==
  /\ writer[c] = "write"
  /\ writer' = [writer EXCEPT ![c] = "done"]
  /\ open' = [open EXCEPT ![c] = FALSE]
  /\ UNCHANGED <<ver, ch, hub, latest, notify, reader, snap, ring, batch, got, raced, nops>>
WriterEndsOpen(c) ==
  /\ writer[c] = "write" \/ (writer[c] = "select" /\ ~open[c])
  /\ writer' = [writer EXCEPT ![c] = "done"]
  /\ UNCHANGED <<ver, ch, hub, latest, notify, open, reader, snap, ring, batch, got, raced, nops>>

\* A write to a client that is gone or too slow, or a ping to one that is gone,
\* fails: the writer returns and closes the connection.
WriterEnds(c) ==
  /\ writer[c] = "write" \/ (writer[c] = "select" /\ ~open[c])
  /\ writer' = [writer EXCEPT ![c] = "done"]
  /\ open' = [open EXCEPT ![c] = FALSE]
  /\ UNCHANGED <<ver, ch, hub, latest, notify, reader, snap, ring, batch, got, raced, nops>>

\* The client goes away, or its pongs stay out until the read deadline.
Disconnect(c) ==
  /\ open[c]
  /\ open' = [open EXCEPT ![c] = FALSE]
  /\ UNCHANGED <<ver, ch, hub, latest, notify, reader, snap, ring, writer, batch, got, raced, nops>>

\* Publish iterates without the lock: a Subscribe, Unsubscribe or RemoveConn that
\* writes the same map may make the runtime abort the process.
MapFault ==
  /\ up /\ pub.pc = "fan" /\ pub.live
  /\ \E c \in Conns : reader[c] = "read" /\ (nops < MaxOps \/ ~open[c])
  /\ up' = FALSE
  /\ UNCHANGED <<ver, ch, hub, conn, raced, nops>>

Gateway   == PublishBegin \/ PublishLast \/ PublishEnd
             \/ \E c \in Conns : PublishOffer(c) \/ PublishNotify(c)
Reader(c) == OfferSnapshot(c) \/ NotifySnapshot(c) \/ SubscribeEnd(c) \/ ReaderEnds(c)
Writer(c) == TakeToken(c) \/ FlushLatest(c) \/ Write(c) \/ WriterEnds(c)

Step ==
  \/ \E t \in Topics : BrokerPublish(t)
  \/ PublishBegin \/ PublishLast \/ PublishEnd
  \/ \E c \in Conns : PublishOffer(c) \/ PublishNotify(c)
  \/ \E c \in Conns, ts \in SUBSET Topics \ {{}} : Subscribe(c, ts) \/ Unsubscribe(c, ts)
  \/ \E c \in Conns : OfferSnapshot(c) \/ NotifySnapshot(c) \/ SubscribeEnd(c) \/ ReaderEnds(c)
  \/ \E c \in Conns : TakeToken(c) \/ FlushLatest(c) \/ Write(c) \/ WriterEnds(c)
  \/ \E c \in Conns : Disconnect(c)

Runs == up /\ UNCHANGED up

Next == (Runs /\ Step) \/ MapFault

Spec == Init /\ [][Next]_vars

\* Goroutines are scheduled, writes and pings have deadlines, reads end with the
\* connection.
FairSpec ==
  /\ Spec
  /\ WF_vars(Runs /\ Gateway)
  /\ \A c \in Conns : WF_vars(Runs /\ Reader(c)) /\ WF_vars(Runs /\ Writer(c))

-----------------------------------------------------------------------------
TypeOK ==
  /\ ver \in [Topics -> Versions] /\ ch \in Seq([topic : Topics, ver : Versions])
  /\ Len(ch) <= ChanSize
  /\ subs \in [Topics -> SUBSET Conns] /\ last \in [Topics -> Versions]
  /\ pub \in [pc : {"idle", "last", "fan"}, topic : Topics, ver : Versions,
              live : BOOLEAN, todo : SUBSET Conns]
  /\ latest \in [Conns -> [Topics -> Versions]] /\ snap \in [Conns -> [Topics -> Versions]]
  /\ batch \in [Conns -> [Topics -> Versions]] /\ got \in [Conns -> [Topics -> Versions]]
  /\ notify \in [Conns -> BOOLEAN] /\ open \in [Conns -> BOOLEAN]
  /\ reader \in [Conns -> {"read", "snap", "done"}]
  /\ writer \in [Conns -> {"select", "flush", "write", "done"}]
  /\ ring \subseteq {"hub", "conn"} \X Conns
  /\ up \in BOOLEAN /\ raced \in BOOLEAN /\ nops \in 0..MaxOps

\* No wake-up is lost: while a payload waits, a token is in notify or will be put
\* there, or the writer has taken one and not flushed yet.
TokenForPayload ==
  MaxFlush >= Cardinality(Topics) =>
    \A c \in Conns : Waiting(c) # {} =>
      \/ notify[c] \/ writer[c] \in {"flush", "done"}
      \/ <<"hub", c>> \in ring \/ <<"conn", c>> \in ring

\* Nothing is on its way to connection c.
Settled(c) ==
  /\ pub.pc = "idle" /\ reader[c] = "read" /\ open[c] /\ snap[c] = Nothing
  /\ Waiting(c) = {} /\ writer[c] = "select"

Fresh == \A c \in Conns, t \in Topics :
           Settled(c) /\ c \in subs[t] => got[c][t] = last[t]

\* A subscriber that nothing is on its way to has the hub's latest payload - as long
\* as no Subscribe has overlapped a Publish.
FreshWithoutRace == ~raced => Fresh

\* When one of its goroutines ends or the client leaves, both goroutines of a
\* connection end.
PumpsEnd ==
  \A c \in Conns : ~open[c] ~> ((reader[c] = "done" /\ writer[c] = "done") \/ ~up)

\* What waits for a connection is written or the connection ends.
PayloadIsWritten ==
  MaxFlush >= Cardinality(Topics) =>
    \A c \in Conns : Waiting(c) # {} ~> (Waiting(c) = {} \/ ~open[c] \/ ~up)
=============================================================================
