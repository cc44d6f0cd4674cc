---------------------------- MODULE WsHubProofs ----------------------------
(***************************************************************************)
(* Theorems about WsHub, for any number of connections, any finite set of  *)
(* topics and every bound: no wake-up of a writer is lost, and without an  *)
(* overlap of Subscribe and Publish subscribers end up with the hub's      *)
(* latest payload.                                                         *)
(***************************************************************************)
EXTENDS WsHub, FiniteSetTheorems, SequenceTheorems, TLAPS

\* Messages carry real payloads: version 0 stands for none.
ChanType == ch \in Seq([topic : Topics, ver : Versions \ {0}]) /\ (pub.pc # "idle" => pub.ver # 0)
HubType  == TypeOK /\ ChanType

PubRec == [pc : {"idle", "last", "fan"}, topic : Topics, ver : Versions,
           live : BOOLEAN, todo : SUBSET Conns]

LEMMA HubConstants ==
  /\ 0 \in Versions /\ Nothing \in [Topics -> Versions]
  /\ Idle \in PubRec /\ Idle.pc = "idle"
<1>1. 0 \in Versions
  BY HubAssumption DEF Versions
<1>2. (CHOOSE t \in Topics : TRUE) \in Topics
  BY TopicsAssumption
<1> QED
  BY <1>1, <1>2 DEF Nothing, Idle, PubRec

\* What a changed subscriber map does to a Publish under way.
LEMMA SeenProperties ==
  ASSUME HubType, NEW added \in SUBSET Conns, NEW removed \in SUBSET Conns, NEW ts, NEW subsNew,
         SeenByPublish(added, removed, ts, subsNew)
  PROVE  /\ pub' \in PubRec
         /\ pub'.pc = pub.pc /\ pub'.topic = pub.topic /\ pub'.ver = pub.ver
         /\ pub.pc = "idle" => pub' = pub
         /\ added = {} => \/ pub'.todo = pub.todo
                          \/ pub.topic \in ts /\ pub'.todo = pub.todo \ removed
<1>1. pub \in PubRec /\ subs \in [Topics -> SUBSET Conns]
  BY DEF HubType, TypeOK, PubRec
<1>2. CASE pub.pc = "idle" \/ pub.topic \notin ts
  BY <1>1, <1>2 DEF SeenByPublish
<1>3. CASE ~(pub.pc = "idle" \/ pub.topic \notin ts)
  <2> DEFINE live == pub.live /\ subsNew[pub.topic] # {}
             new  == IF live THEN added \ subs[pub.topic] ELSE {}
             kept == pub.todo \ removed
  <2>1. PICK x \in {kept \cup new} \cup (IF pub.pc = "fan" THEN {kept} ELSE {}) :
          pub' = [pub EXCEPT !.live = live, !.todo = x]
    BY <1>3 DEF SeenByPublish
  <2>2. live \in BOOLEAN /\ new \in SUBSET Conns /\ kept \in SUBSET Conns
        /\ (added = {} => new = {})
    BY <1>1 DEF PubRec
  <2> HIDE DEF live, new
  <2>3. x \in SUBSET Conns /\ (added = {} => x = kept)
    BY <2>1, <2>2
  <2> HIDE DEF kept
  <2>4. /\ pub' \in PubRec /\ pub'.pc = pub.pc /\ pub'.topic = pub.topic
        /\ pub'.ver = pub.ver /\ pub'.todo = x
    BY <1>1, <2>1, <2>2, <2>3 DEF PubRec
  <2> QED
    BY <1>3, <2>3, <2>4 DEF kept
<1> QED
  BY <1>2, <1>3

LEMMA SeqWider ==
  ASSUME NEW S, NEW T, S \subseteq T, NEW s \in Seq(S)
  PROVE  s \in Seq(T)
<1>1. s \in [1..Len(s) -> S] /\ Len(s) \in Nat
  BY LenProperties
<1>2. s \in [1..Len(s) -> T]
  BY <1>1
<1> QED
  BY <1>1, <1>2, SeqDef

LEMMA ChanWider ==
  ASSUME NEW s \in Seq([topic : Topics, ver : Versions \ {0}])
  PROVE  s \in Seq([topic : Topics, ver : Versions])
<1> DEFINE S == [topic : Topics, ver : Versions \ {0}]
           T == [topic : Topics, ver : Versions]
<1>1. S \subseteq T /\ s \in Seq(S)
  OBVIOUS
<1> HIDE DEF S, T
<1>2. s \in Seq(T)
  BY <1>1, SeqWider
<1> QED
  BY <1>2 DEF T

LEMMA InitHubType == Init => HubType
<1> SUFFICES ASSUME Init PROVE HubType
  OBVIOUS
<1>1. /\ 0 \in Versions /\ Nothing \in [Topics -> Versions] /\ Idle \in PubRec /\ Idle.pc = "idle"
  BY HubConstants
<1>2. 0 \in 0..MaxOps /\ 0 <= ChanSize
  BY HubAssumption
<1>3. ch = <<>> /\ Len(ch) = 0
  BY DEF Init
<1>4. ChanType
  BY <1>1, <1>3, EmptySeq DEF Init, ChanType
<1>5. TypeOK
  BY <1>1, <1>2, <1>3, EmptySeq DEF Init, TypeOK, PubRec
<1> QED
  BY <1>4, <1>5 DEF HubType

LEMMA NextHubType ==
  ASSUME HubType, [Next]_vars
  PROVE  HubType'
<1> USE DEF hub, conn
<1> DEFINE ConnType ==
      /\ latest \in [Conns -> [Topics -> Versions]] /\ snap \in [Conns -> [Topics -> Versions]]
      /\ batch \in [Conns -> [Topics -> Versions]] /\ got \in [Conns -> [Topics -> Versions]]
      /\ notify \in [Conns -> BOOLEAN] /\ open \in [Conns -> BOOLEAN]
      /\ reader \in [Conns -> {"read", "snap", "done"}]
      /\ writer \in [Conns -> {"select", "flush", "write", "done"}]
      /\ ring \subseteq {"hub", "conn"} \X Conns
    BrokerType ==
      /\ ver \in [Topics -> Versions] /\ ch \in Seq([topic : Topics, ver : Versions])
      /\ Len(ch) <= ChanSize /\ ChanType
    MapType ==
      /\ subs \in [Topics -> SUBSET Conns] /\ last \in [Topics -> Versions] /\ pub \in PubRec
    FlagType == up \in BOOLEAN /\ raced \in BOOLEAN /\ nops \in 0..MaxOps
<1>1. HubType <=> ConnType /\ BrokerType /\ MapType /\ FlagType
  BY DEF HubType, TypeOK, PubRec
<1>2. HubType' <=> ConnType' /\ BrokerType' /\ MapType' /\ FlagType'
  BY DEF HubType, TypeOK, PubRec
<1>3. ConnType /\ BrokerType /\ MapType /\ FlagType
  BY <1>1
<1>u. ASSUME UNCHANGED conn PROVE ConnType'
  BY <1>3, <1>u
<1>v. ASSUME UNCHANGED <<ver, ch, pub>> PROVE BrokerType'
  BY <1>3, <1>v DEF ChanType
<1>w. ASSUME UNCHANGED hub PROVE MapType'
  BY <1>3, <1>w
<1>x. ASSUME UNCHANGED <<raced, nops>>, UNCHANGED up \/ up' = FALSE PROVE FlagType'
  BY <1>3, <1>x
<1>0. MaxOps \in Nat /\ ChanSize \in Nat /\ MaxPub \in Nat /\ 0 \in Versions /\ Nothing \in [Topics -> Versions]
      /\ Idle \in PubRec /\ Idle.pc = "idle" /\ Versions = 0..MaxPub
  BY HubAssumption, HubConstants DEF Versions
<1> HIDE DEF ConnType, BrokerType, MapType, FlagType
<1>4. ASSUME NEW t \in Topics, UNCHANGED up, BrokerPublish(t) PROVE HubType'
  <2>1. UNCHANGED <<hub, conn, raced, nops>>
    BY <1>4 DEF BrokerPublish
  <2>2. ver[t] + 1 \in Versions \ {0} /\ ver' = [ver EXCEPT ![t] = @ + 1] /\ ver'[t] = ver[t] + 1
    BY <1>0, <1>3, <1>4 DEF BrokerPublish, BrokerType
  <2>3. [topic |-> t, ver |-> ver'[t]] \in [topic : Topics, ver : Versions \ {0}]
    BY <2>2
  <2>4. /\ ch' \in Seq([topic : Topics, ver : Versions \ {0}])
        /\ Len(ch') <= ChanSize
    <3>1. ch \in Seq([topic : Topics, ver : Versions \ {0}]) /\ Len(ch) <= ChanSize /\ Len(ch) \in Nat
      BY <1>3, LenProperties DEF BrokerType, ChanType
    <3>2. CASE Len(ch) < ChanSize
      <4>1. ch' = Append(ch, [topic |-> t, ver |-> ver'[t]])
        BY <1>4, <3>2 DEF BrokerPublish
      <4> QED
        BY <1>0, <2>3, <3>1, <3>2, <4>1, AppendProperties
    <3>3. CASE ~(Len(ch) < ChanSize)
      BY <1>4, <3>1, <3>3 DEF BrokerPublish
    <3> QED
      BY <3>2, <3>3
  <2>5. ch' \in Seq([topic : Topics, ver : Versions])
    BY <2>4, ChanWider
  <2>6. ver' \in [Topics -> Versions]
    BY <1>3, <2>2 DEF BrokerType
  <2>7. BrokerType'
    BY <1>3, <2>1, <2>4, <2>5, <2>6 DEF BrokerType, ChanType
  <2> QED
    BY <1>2, <1>4, <1>u, <1>w, <1>x, <2>1, <2>7
<1>5. ASSUME UNCHANGED up, PublishBegin PROVE HubType'
  <2>1. UNCHANGED <<ver, subs, last, conn, nops>> /\ ch # <<>> /\ ch' = Tail(ch)
    BY <1>5 DEF PublishBegin
  <2> DEFINE m == Head(ch)
  <2>2. ch \in Seq([topic : Topics, ver : Versions \ {0}]) /\ Len(ch) <= ChanSize /\ Len(ch) \in Nat
    BY <1>3, LenProperties DEF BrokerType, ChanType
  <2>3. m \in [topic : Topics, ver : Versions \ {0}] /\ ch' \in Seq([topic : Topics, ver : Versions \ {0}])
        /\ Len(ch') = Len(ch) - 1
    BY <2>1, <2>2, HeadTailProperties
  <2>4. pub' = [pc |-> "last", topic |-> m.topic, ver |-> m.ver,
                live |-> subs[m.topic] # {}, todo |-> subs[m.topic]]
    BY <1>5 DEF PublishBegin
  <2>5. m.topic \in Topics /\ m.ver \in Versions /\ m.ver # 0 /\ subs[m.topic] \in SUBSET Conns
    BY <1>3, <2>3 DEF MapType
  <2> HIDE DEF m
  <2>6. pub' \in PubRec /\ pub'.ver # 0
    BY <2>4, <2>5 DEF PubRec
  <2>7. MapType'
    BY <1>3, <2>1, <2>6 DEF MapType
  <2>8. ch' \in Seq([topic : Topics, ver : Versions]) /\ Len(ch') <= ChanSize
    <3>1. Len(ch') <= ChanSize
      BY <1>0, <2>2, <2>3
    <3> QED
      BY <2>3, <3>1, ChanWider
  <2>9. BrokerType'
    BY <1>3, <2>1, <2>3, <2>6, <2>8 DEF BrokerType, ChanType
  <2>10. FlagType'
    BY <1>3, <1>5, <2>1 DEF FlagType, PublishBegin
  <2> QED
    BY <1>2, <1>u, <2>1, <2>7, <2>9, <2>10
<1>6. ASSUME UNCHANGED up, PublishLast PROVE HubType'
  <2>1. /\ UNCHANGED <<ver, ch, subs, conn, raced, nops>> /\ pub.pc = "last"
        /\ last' = [last EXCEPT ![pub.topic] = pub.ver] /\ pub' = [pub EXCEPT !.pc = "fan"]
    BY <1>6 DEF PublishLast
  <2>2. pub.topic \in Topics /\ pub.ver \in Versions /\ pub' \in PubRec /\ pub'.ver = pub.ver
    BY <1>3, <2>1 DEF MapType, PubRec
  <2>3. MapType'
    BY <1>3, <2>1, <2>2 DEF MapType
  <2>4. BrokerType'
    BY <1>3, <2>1, <2>2 DEF BrokerType, ChanType
  <2> QED
    BY <1>2, <1>6, <1>u, <1>x, <2>1, <2>3, <2>4
<1>7. ASSUME UNCHANGED up, PublishEnd PROVE HubType'
  <2>1. UNCHANGED <<ver, ch, subs, last, conn, raced, nops>> /\ pub' = Idle
    BY <1>7 DEF PublishEnd
  <2>3. MapType'
    BY <1>0, <1>3, <2>1 DEF MapType
  <2>4. BrokerType'
    BY <1>0, <1>3, <2>1 DEF BrokerType, ChanType
  <2> QED
    BY <1>2, <1>7, <1>u, <1>x, <2>1, <2>3, <2>4
<1>8. ASSUME NEW c \in Conns, UNCHANGED up, PublishOffer(c) PROVE HubType'
  <2>1. /\ UNCHANGED <<ver, ch, subs, last, notify, open, reader, snap, writer, batch, got, raced, nops>>
        /\ latest' = [latest EXCEPT ![c][pub.topic] = pub.ver]
        /\ ring' = ring \cup {<<"hub", c>>} /\ pub' = [pub EXCEPT !.todo = @ \ {c}]
    BY <1>8 DEF PublishOffer, Store
  <2>2. /\ pub.topic \in Topics /\ pub.ver \in Versions /\ pub' \in PubRec
        /\ pub'.ver = pub.ver /\ pub'.pc = pub.pc
    BY <1>3, <2>1 DEF MapType, PubRec
  <2>3. MapType' /\ BrokerType'
    BY <1>3, <2>1, <2>2 DEF MapType, BrokerType, ChanType
  <2>4. ConnType'
    BY <1>3, <2>1, <2>2 DEF ConnType
  <2> QED
    BY <1>2, <1>8, <1>x, <2>1, <2>3, <2>4
<1>9. ASSUME NEW c \in Conns, UNCHANGED up, PublishNotify(c) \/ NotifySnapshot(c) PROVE HubType'
  <2>1. /\ UNCHANGED <<ver, ch, hub, latest, open, reader, snap, writer, batch, got, raced, nops>>
        /\ notify' = [notify EXCEPT ![c] = TRUE] /\ ring' \subseteq ring
    BY <1>9 DEF PublishNotify, NotifySnapshot
  <2>2. ConnType'
    BY <1>3, <2>1 DEF ConnType
  <2> QED
    BY <1>2, <1>9, <1>v, <1>w, <1>x, <2>1, <2>2
<1>10. ASSUME NEW c \in Conns, NEW ts \in SUBSET Topics, UNCHANGED up, Subscribe(c, ts) PROVE HubType'
  <2>1. /\ UNCHANGED <<ver, ch, last, latest, notify, open, ring, writer, batch, got>> /\ nops < MaxOps
        /\ subs' = [t \in Topics |-> IF t \in ts THEN subs[t] \cup {c} ELSE subs[t]]
        /\ SeenByPublish({c}, {}, ts, subs')
        /\ snap' = [snap EXCEPT ![c] = [t \in Topics |-> IF t \in ts THEN last[t] ELSE 0]]
        /\ reader' = [reader EXCEPT ![c] = "snap"] /\ nops' = nops + 1
        /\ raced' = (raced \/ pub.pc # "idle")
    BY <1>10 DEF Subscribe
  <2>2. /\ pub' \in PubRec /\ pub'.pc = pub.pc /\ pub'.ver = pub.ver
    BY <2>1, SeenProperties
  <2>3. MapType'
    BY <1>3, <2>1, <2>2 DEF MapType
  <2>4. BrokerType'
    BY <1>3, <2>1, <2>2 DEF BrokerType, ChanType
  <2>5. ConnType'
    <3>1. [t \in Topics |-> IF t \in ts THEN last[t] ELSE 0] \in [Topics -> Versions]
      BY <1>0, <1>3 DEF MapType
    <3> QED
      BY <1>3, <2>1, <3>1 DEF ConnType
  <2>6. FlagType'
    BY <1>0, <1>3, <1>10, <2>1 DEF FlagType
  <2> QED
    BY <1>2, <2>3, <2>4, <2>5, <2>6
<1>11. ASSUME NEW c \in Conns, NEW ts \in SUBSET Topics, UNCHANGED up, Unsubscribe(c, ts) PROVE HubType'
  <2>1. /\ UNCHANGED <<ver, ch, last, conn, raced>> /\ nops < MaxOps
        /\ subs' = [t \in Topics |-> IF t \in ts THEN subs[t] \ {c} ELSE subs[t]]
        /\ SeenByPublish({}, {c}, ts, subs') /\ nops' = nops + 1
    BY <1>11 DEF Unsubscribe
  <2>2. /\ pub' \in PubRec /\ pub'.pc = pub.pc /\ pub'.ver = pub.ver
    BY <2>1, SeenProperties
  <2>3. MapType'
    BY <1>3, <2>1, <2>2 DEF MapType
  <2>4. BrokerType'
    BY <1>3, <2>1, <2>2 DEF BrokerType, ChanType
  <2>5. FlagType'
    BY <1>0, <1>3, <1>11, <2>1 DEF FlagType
  <2> QED
    BY <1>2, <1>u, <2>1, <2>3, <2>4, <2>5
<1>12. ASSUME NEW c \in Conns, UNCHANGED up, OfferSnapshot(c) PROVE HubType'
  <2>1. /\ UNCHANGED <<ver, ch, hub, notify, open, reader, writer, batch, got, raced, nops>>
        /\ ring' = ring \cup {<<"conn", c>>}
    BY <1>12 DEF OfferSnapshot
  <2>2. PICK t \in Topics : /\ latest' = [latest EXCEPT ![c][t] = snap[c][t]]
                            /\ snap' = [snap EXCEPT ![c][t] = 0]
    BY <1>12 DEF OfferSnapshot, Store
  <2>3. ConnType'
    BY <1>0, <1>3, <2>1, <2>2 DEF ConnType
  <2> QED
    BY <1>2, <1>12, <1>v, <1>w, <1>x, <2>1, <2>3
<1>13. ASSUME NEW c \in Conns, UNCHANGED up, SubscribeEnd(c) PROVE HubType'
  <2>1. /\ UNCHANGED <<ver, ch, hub, latest, notify, open, snap, ring, writer, batch, got, raced, nops>>
        /\ reader' = [reader EXCEPT ![c] = "read"]
    BY <1>13 DEF SubscribeEnd
  <2>2. ConnType'
    BY <1>3, <2>1 DEF ConnType
  <2> QED
    BY <1>2, <1>13, <1>v, <1>w, <1>x, <2>1, <2>2
<1>14. ASSUME NEW c \in Conns, UNCHANGED up, ReaderEnds(c) PROVE HubType'
  <2>1. /\ UNCHANGED <<ver, ch, last, latest, notify, open, snap, ring, writer, batch, got, raced, nops>>
        /\ subs' = [t \in Topics |-> subs[t] \ {c}]
        /\ SeenByPublish({}, {c}, Topics, subs')
        /\ reader' = [reader EXCEPT ![c] = "done"]
    BY <1>14 DEF ReaderEnds
  <2>2. /\ pub' \in PubRec /\ pub'.pc = pub.pc /\ pub'.ver = pub.ver
    BY <2>1, SeenProperties
  <2>3. MapType' /\ BrokerType'
    BY <1>3, <2>1, <2>2 DEF MapType, BrokerType, ChanType
  <2>4. ConnType'
    BY <1>3, <2>1 DEF ConnType
  <2> QED
    BY <1>2, <1>14, <1>x, <2>1, <2>3, <2>4
<1>15. ASSUME NEW c \in Conns, UNCHANGED up, TakeToken(c) \/ WriterEnds(c) \/ Disconnect(c) PROVE HubType'
  <2>1. UNCHANGED <<ver, ch, hub, raced, nops>>
    BY <1>15 DEF TakeToken, WriterEnds, Disconnect
  <2>2. ConnType'
    BY <1>3, <1>15 DEF ConnType, TakeToken, WriterEnds, Disconnect
  <2> QED
    BY <1>2, <1>15, <1>v, <1>w, <1>x, <2>1, <2>2
<1>16. ASSUME NEW c \in Conns, UNCHANGED up, FlushLatest(c) PROVE HubType'
  <2>1. UNCHANGED <<ver, ch, hub, notify, open, reader, snap, ring, got, raced, nops>>
    BY <1>16 DEF FlushLatest
  <2>2. PICK ts \in SUBSET Waiting(c) :
          /\ batch' = [batch EXCEPT ![c] = [t \in Topics |-> IF t \in ts THEN latest[c][t] ELSE 0]]
          /\ latest' = [latest EXCEPT ![c] = [t \in Topics |-> IF t \in ts THEN 0 ELSE latest[c][t]]]
          /\ writer' = [writer EXCEPT ![c] = IF ts = {} THEN "select" ELSE "write"]
    BY <1>16 DEF FlushLatest
  <2>3. /\ [t \in Topics |-> IF t \in ts THEN latest[c][t] ELSE 0] \in [Topics -> Versions]
        /\ [t \in Topics |-> IF t \in ts THEN 0 ELSE latest[c][t]] \in [Topics -> Versions]
    BY <1>0, <1>3 DEF ConnType
  <2>4. ConnType'
    BY <1>3, <2>1, <2>2, <2>3 DEF ConnType
  <2> QED
    BY <1>2, <1>16, <1>v, <1>w, <1>x, <2>1, <2>4
<1>17. ASSUME NEW c \in Conns, UNCHANGED up, Write(c) PROVE HubType'
  <2>1. /\ UNCHANGED <<ver, ch, hub, latest, notify, open, reader, snap, ring, raced, nops>>
        /\ got' = [got EXCEPT ![c] = [t \in Topics |-> IF batch[c][t] # 0 THEN batch[c][t] ELSE got[c][t]]]
        /\ batch' = [batch EXCEPT ![c] = Nothing] /\ writer' = [writer EXCEPT ![c] = "select"]
    BY <1>3, <1>17 DEF Write, ConnType
  <2>2. [t \in Topics |-> IF batch[c][t] # 0 THEN batch[c][t] ELSE got[c][t]] \in [Topics -> Versions]
    BY <1>3 DEF ConnType
  <2>3. ConnType'
    BY <1>0, <1>3, <2>1, <2>2 DEF ConnType
  <2> QED
    BY <1>2, <1>17, <1>v, <1>w, <1>x, <2>1, <2>3
<1>18. CASE MapFault
  BY <1>2, <1>18, <1>u, <1>v, <1>w, <1>x DEF MapFault
<1>19. CASE UNCHANGED vars
  BY <1>2, <1>19, <1>u, <1>v, <1>w, <1>x DEF vars
<1>20. CASE Runs /\ Step
  BY <1>20, <1>4, <1>5, <1>6, <1>7, <1>8, <1>9, <1>10, <1>11, <1>12, <1>13, <1>14, <1>15,
     <1>16, <1>17 DEF Runs, Step
<1> QED
  BY <1>18, <1>19, <1>20 DEF Next

-----------------------------------------------------------------------------
(* No wake-up is lost *)

\* A writer whose flush is large enough for all topics leaves nothing behind.
LEMMA FlushTakesAll ==
  ASSUME HubType, MaxFlush >= Cardinality(Topics), NEW c \in Conns, NEW ts \in SUBSET Waiting(c),
         Cardinality(ts) = MaxFlush \/ ts = Waiting(c)
  PROVE  ts = Waiting(c)
<1>1. ts \in SUBSET Topics /\ Waiting(c) \in SUBSET Topics
  BY DEF Waiting
<1>2. IsFiniteSet(Topics) /\ Cardinality(Topics) \in Nat /\ MaxFlush \in Nat
  BY TopicsAssumption, HubAssumption, FS_CardinalityType
<1>3. Cardinality(ts) \in Nat /\ Cardinality(ts) <= Cardinality(Topics)
      /\ (Cardinality(ts) = Cardinality(Topics) => ts = Topics)
  BY <1>1, <1>2, FS_Subset, FS_CardinalityType
<1> QED
  BY <1>1, <1>2, <1>3

LEMMA NextTokens ==
  ASSUME HubType, TokenForPayload, [Next]_vars
  PROVE  TokenForPayload'
<1> USE DEF hub, conn
<1> SUFFICES ASSUME MaxFlush >= Cardinality(Topics), NEW d \in Conns, Waiting(d)' # {}
             PROVE  \/ notify'[d] \/ writer'[d] \in {"flush", "done"}
                    \/ <<"hub", d>> \in ring' \/ <<"conn", d>> \in ring'
  BY DEF TokenForPayload
<1> DEFINE Woken  == \/ notify[d] \/ writer[d] \in {"flush", "done"}
                     \/ <<"hub", d>> \in ring \/ <<"conn", d>> \in ring
<1>0. /\ notify \in [Conns -> BOOLEAN] /\ writer \in [Conns -> {"select", "flush", "write", "done"}]
      /\ latest \in [Conns -> [Topics -> Versions]]
      /\ notify \in [Conns -> BOOLEAN]
  BY DEF HubType, TypeOK
<1>1. Waiting(d) # {} => Woken
  BY DEF TokenForPayload
<1>2. ASSUME UNCHANGED <<latest, notify, writer, ring>> PROVE Woken'
  BY <1>1, <1>2 DEF Waiting
<1>3. ASSUME NEW c \in Conns, PublishOffer(c) PROVE Woken'
  <2>1. /\ UNCHANGED <<notify, writer>> /\ ring' = ring \cup {<<"hub", c>>}
        /\ latest' = [latest EXCEPT ![c][pub.topic] = pub.ver]
    BY <1>3 DEF PublishOffer, Store
  <2>2. CASE d = c
    BY <2>1, <2>2
  <2>3. CASE d # c
    <3>1. latest'[d] = latest[d]
      BY <1>0, <2>1, <2>3
    <3> QED
      BY <1>1, <2>1, <3>1 DEF Waiting
  <2> QED
    BY <2>2, <2>3
<1>4. ASSUME NEW c \in Conns, OfferSnapshot(c) PROVE Woken'
  <2>1. UNCHANGED <<notify, writer>> /\ ring' = ring \cup {<<"conn", c>>}
    BY <1>4 DEF OfferSnapshot
  <2>2. PICK t \in Topics : latest' = [latest EXCEPT ![c][t] = snap[c][t]]
    BY <1>4 DEF OfferSnapshot, Store
  <2>3. CASE d = c
    BY <2>1, <2>3
  <2>4. CASE d # c
    <3>1. latest'[d] = latest[d]
      BY <1>0, <2>2, <2>4
    <3> QED
      BY <1>1, <2>1, <3>1 DEF Waiting
  <2> QED
    BY <2>3, <2>4
<1>5. ASSUME NEW c \in Conns, PublishNotify(c) \/ NotifySnapshot(c) PROVE Woken'
  <2>1. /\ UNCHANGED <<latest, writer>> /\ notify' = [notify EXCEPT ![c] = TRUE]
        /\ ring' = ring \ {<<"hub", c>>} \/ ring' = ring \ {<<"conn", c>>}
    BY <1>5 DEF PublishNotify, NotifySnapshot
  <2>2. CASE d = c
    BY <1>0, <2>1, <2>2
  <2>3. CASE d # c
    <3>1. notify'[d] = notify[d]
      BY <1>0, <2>1, <2>3
    <3>2. /\ <<"hub", d>> \in ring => <<"hub", d>> \in ring'
          /\ <<"conn", d>> \in ring => <<"conn", d>> \in ring'
      BY <2>1, <2>3
    <3> QED
      BY <1>1, <2>1, <3>1, <3>2 DEF Waiting
  <2> QED
    BY <2>2, <2>3
<1>6. ASSUME NEW c \in Conns, TakeToken(c) PROVE Woken'
  <2>1. /\ UNCHANGED <<latest, ring>> /\ notify' = [notify EXCEPT ![c] = FALSE]
        /\ writer' = [writer EXCEPT ![c] = "flush"]
    BY <1>6 DEF TakeToken
  <2>2. CASE d = c
    BY <1>0, <2>1, <2>2
  <2>3. CASE d # c
    BY <1>0, <1>1, <2>1, <2>3 DEF Waiting
  <2> QED
    BY <2>2, <2>3
<1>7. ASSUME NEW c \in Conns, FlushLatest(c) PROVE Woken'
  <2>1. UNCHANGED <<notify, ring>>
    BY <1>7 DEF FlushLatest
  <2>2. PICK ts \in SUBSET Waiting(c) :
          /\ Cardinality(ts) = MaxFlush \/ ts = Waiting(c)
          /\ latest' = [latest EXCEPT ![c] = [t \in Topics |-> IF t \in ts THEN 0 ELSE latest[c][t]]]
          /\ writer' = [writer EXCEPT ![c] = IF ts = {} THEN "select" ELSE "write"]
    BY <1>7 DEF FlushLatest
  <2>3. CASE d = c
    <3>1. ts = Waiting(c)
      BY <2>2, FlushTakesAll
    <3>2. \A t \in Topics : latest'[c][t] = IF t \in ts THEN 0 ELSE latest[c][t]
      BY <1>0, <2>2
    <3>3. \A t \in Topics : latest'[c][t] = 0
      BY <3>1, <3>2 DEF Waiting
    <3> QED
      BY <2>3, <3>3 DEF Waiting
  <2>4. CASE d # c
    <3>1. latest'[d] = latest[d] /\ writer'[d] = writer[d]
      BY <1>0, <2>2, <2>4
    <3> QED
      BY <1>1, <2>1, <3>1 DEF Waiting
  <2> QED
    BY <2>3, <2>4
<1>8. ASSUME NEW c \in Conns, Write(c) PROVE Woken'
  <2>1. /\ UNCHANGED <<latest, notify, ring>> /\ writer[c] = "write"
        /\ writer' = [writer EXCEPT ![c] = "select"]
    BY <1>8 DEF Write
  <2> QED
    BY <1>0, <1>1, <2>1 DEF Waiting
<1>9. ASSUME NEW c \in Conns, WriterEnds(c) PROVE Woken'
  <2>1. UNCHANGED <<latest, notify, ring>> /\ writer' = [writer EXCEPT ![c] = "done"]
    BY <1>9 DEF WriterEnds
  <2> QED
    BY <1>0, <1>1, <2>1 DEF Waiting
<1>10. CASE \/ \E t \in Topics : BrokerPublish(t)
            \/ PublishBegin \/ PublishLast \/ PublishEnd \/ MapFault \/ UNCHANGED vars
  BY <1>2, <1>10 DEF BrokerPublish, PublishBegin, PublishLast, PublishEnd, MapFault, vars
<1>11. ASSUME NEW c \in Conns, NEW ts \in SUBSET Topics, Subscribe(c, ts) \/ Unsubscribe(c, ts) PROVE Woken'
  BY <1>2, <1>11 DEF Subscribe, Unsubscribe
<1>12. ASSUME NEW c \in Conns, SubscribeEnd(c) \/ ReaderEnds(c) \/ Disconnect(c) PROVE Woken'
  BY <1>2, <1>12 DEF SubscribeEnd, ReaderEnds, Disconnect
<1>13. Woken'
  BY <1>3, <1>4, <1>5, <1>6, <1>7, <1>8, <1>9, <1>10, <1>11, <1>12 DEF Next, Step
<1> QED
  BY <1>13

\* While a payload waits for a connection, a token is in notify or on its way, or
\* the writer has taken one and not flushed yet: storing the payload in front of
\* the token, and taking the token in front of the payloads, loses no wake-up.
THEOREM NoWakeUpIsLost == Spec => []TokenForPayload
<1>1. Init => HubType /\ TokenForPayload
  <2>1. Init => \A c \in Conns : Waiting(c) = {}
    BY DEF Init, Waiting, Nothing
  <2> QED
    BY <2>1, InitHubType DEF TokenForPayload
<1>2. HubType /\ TokenForPayload /\ [Next]_vars => (HubType /\ TokenForPayload)'
  BY NextHubType, NextTokens
<1> QED
  BY <1>1, <1>2, PTL DEF Spec

-----------------------------------------------------------------------------
(* What a connection will have *)

\* The payload of topic t that connection c has when everything under way to it
\* is written: snapshots come last, then what waits, then what is being written.
Coming(c, t) ==
  IF snap[c][t] # 0 THEN snap[c][t]
  ELSE IF latest[c][t] # 0 THEN latest[c][t]
  ELSE IF batch[c][t] # 0 THEN batch[c][t]
  ELSE got[c][t]

\* The Publish under way has still to visit c for topic t.
Due(c, t) == pub.pc = "fan" /\ pub.topic = t /\ c \in pub.todo

\* Only the goroutines that own them have snapshots and batches.
Owned == \A c \in Conns :
           /\ reader[c] # "snap" => snap[c] = Nothing
           /\ writer[c] \in {"select", "flush"} => batch[c] = Nothing

\* A topic the hub has no payload of has none anywhere.
Unseen == \A c \in Conns, t \in Topics : last[t] = 0 =>
            snap[c][t] = 0 /\ latest[c][t] = 0 /\ batch[c][t] = 0 /\ got[c][t] = 0

\* Publish: its payload is the latest once it fans out.
FanIsLast == pub.pc = "fan" => last[pub.topic] = pub.ver

\* Without an overlap Publish visits all subscribers, none of whom has a snapshot to
\* offer, and every subscriber has the latest payload or will.
Apart ==
  ~raced =>
    /\ pub.pc # "idle" => \A c \in Conns : reader[c] # "snap"
    /\ pub.pc = "last" => subs[pub.topic] \subseteq pub.todo
    /\ \A c \in Conns, t \in Topics :
         open[c] /\ c \in subs[t] => Coming(c, t) = last[t] \/ Due(c, t)

FreshInv == Owned /\ Unseen /\ FanIsLast /\ Apart

LEMMA InitFresh == Init => FreshInv
<1> SUFFICES ASSUME Init PROVE FreshInv
  OBVIOUS
<1>1. /\ snap = [c \in Conns |-> Nothing] /\ batch = [c \in Conns |-> Nothing]
      /\ latest = [c \in Conns |-> Nothing] /\ got = [c \in Conns |-> Nothing]
      /\ subs = [t \in Topics |-> {}] /\ pub.pc = "idle"
  BY HubConstants DEF Init
<1>2. Owned /\ FanIsLast
  BY <1>1 DEF Owned, FanIsLast
<1>3. Unseen
  BY <1>1 DEF Unseen, Nothing
<1>4. Apart
  BY <1>1 DEF Apart
<1> QED
  BY <1>2, <1>3, <1>4 DEF FreshInv

LEMMA NextFresh ==
  ASSUME HubType, HubType', FreshInv, [Next]_vars
  PROVE  FreshInv'
<1> USE DEF hub, conn
<1> DEFINE Held == <<snap, latest, batch, got>>
<1>0. /\ latest \in [Conns -> [Topics -> Versions]] /\ snap \in [Conns -> [Topics -> Versions]]
      /\ batch \in [Conns -> [Topics -> Versions]] /\ got \in [Conns -> [Topics -> Versions]]
      /\ reader \in [Conns -> {"read", "snap", "done"}]
      /\ writer \in [Conns -> {"select", "flush", "write", "done"}]
      /\ subs \in [Topics -> SUBSET Conns] /\ last \in [Topics -> Versions]
      /\ pub \in PubRec /\ open \in [Conns -> BOOLEAN] /\ raced \in BOOLEAN /\ raced' \in BOOLEAN
      /\ pub.topic \in Topics /\ pub.todo \in SUBSET Conns
      /\ pub.pc # "idle" => pub.ver # 0
  BY DEF HubType, TypeOK, PubRec, ChanType
<1>n. \A t \in Topics : Nothing[t] = 0
  BY DEF Nothing
<1>i. Owned /\ Unseen /\ FanIsLast /\ Apart
  BY DEF FreshInv
<1>s. \A c \in Conns : reader[c] # "snap" => snap[c] = Nothing /\ \A t \in Topics : snap[c][t] = 0
  BY <1>n, <1>i DEF Owned
<1>b. \A c \in Conns : writer[c] \in {"select", "flush"} =>
                         batch[c] = Nothing /\ \A t \in Topics : batch[c][t] = 0
  BY <1>n, <1>i DEF Owned
<1>1. ASSUME UNCHANGED Held, UNCHANGED <<last, pub, raced, open, subs, reader>>,
             UNCHANGED writer \/ \E c \in Conns : TakeToken(c)
      PROVE  FreshInv'
  <2>1. Owned'
    <3>1. CASE UNCHANGED writer
      BY <1>1, <1>i, <3>1 DEF Owned
    <3>2. ASSUME NEW c \in Conns, TakeToken(c) PROVE Owned'
      <4>1. writer[c] = "select" /\ writer' = [writer EXCEPT ![c] = "flush"]
        BY <3>2 DEF TakeToken
      <4> QED
        BY <1>0, <1>1, <1>i, <4>1 DEF Owned
    <3> QED
      BY <1>1, <3>1, <3>2
  <2>2. Unseen' /\ FanIsLast'
    BY <1>1, <1>i DEF Unseen, FanIsLast
  <2>3. Apart'
    BY <1>1, <1>i DEF Apart, Coming, Due
  <2> QED
    BY <2>1, <2>2, <2>3 DEF FreshInv
<1>2. CASE PublishBegin
  <2>1. UNCHANGED Held /\ UNCHANGED <<last, open, subs, reader, writer>> /\ pub.pc = "idle"
    BY <1>2 DEF PublishBegin
  <2>2. /\ pub'.pc = "last" /\ pub'.topic \in Topics /\ pub'.todo = subs[pub'.topic]
        /\ raced' = (raced \/ \E c \in Conns : reader[c] = "snap")
    <3>1. pub'.topic \in Topics
      BY DEF HubType, TypeOK
    <3> QED
      BY <1>2, <3>1 DEF PublishBegin
  <2>3. Owned' /\ Unseen' /\ FanIsLast'
    BY <1>i, <2>1, <2>2 DEF Owned, Unseen, FanIsLast
  <2>4. Apart'
    <3> SUFFICES ASSUME ~raced'
                 PROVE  /\ \A c \in Conns : reader'[c] # "snap"
                        /\ subs'[pub'.topic] \subseteq pub'.todo
                        /\ \A c \in Conns, t \in Topics :
                             open'[c] /\ c \in subs'[t] => Coming(c, t)' = last'[t]
      BY DEF Apart
    <3>1. ~raced /\ \A c \in Conns : reader[c] # "snap"
      BY <1>0, <2>2
    <3>2. \A c \in Conns, t \in Topics : open[c] /\ c \in subs[t] => Coming(c, t) = last[t]
      BY <1>i, <2>1, <3>1 DEF Apart, Due
    <3> QED
      BY <2>1, <2>2, <3>1, <3>2 DEF Coming
  <2> QED
    BY <2>3, <2>4 DEF FreshInv
<1>3. CASE PublishLast
  <2>1. /\ UNCHANGED Held /\ UNCHANGED <<open, subs, reader, writer, raced>> /\ pub.pc = "last"
        /\ last' = [last EXCEPT ![pub.topic] = pub.ver]
        /\ pub'.pc = "fan" /\ pub'.topic = pub.topic /\ pub'.ver = pub.ver /\ pub'.todo = pub.todo
    BY <1>0, <1>3 DEF PublishLast, PubRec
  <2>2. \A t \in Topics : last'[t] = IF t = pub.topic THEN pub.ver ELSE last[t]
    BY <1>0, <2>1
  <2>3. Owned' /\ FanIsLast'
    BY <1>0, <1>i, <2>1, <2>2 DEF Owned, FanIsLast
  <2>4. Unseen'
    BY <1>0, <1>i, <2>1, <2>2 DEF Unseen
  <2>5. Apart'
    <3> SUFFICES ASSUME ~raced'
                 PROVE  /\ \A c \in Conns : reader'[c] # "snap"
                        /\ \A c \in Conns, t \in Topics :
                             open'[c] /\ c \in subs'[t] => Coming(c, t)' = last'[t] \/ Due(c, t)'
      BY <2>1 DEF Apart
    <3>1. /\ ~raced /\ (\A c \in Conns : reader[c] # "snap") /\ subs[pub.topic] \subseteq pub.todo
          /\ \A c \in Conns, t \in Topics : open[c] /\ c \in subs[t] => Coming(c, t) = last[t]
      BY <1>i, <2>1 DEF Apart, Due
    <3>2. ASSUME NEW c \in Conns, NEW t \in Topics, open'[c], c \in subs'[t]
          PROVE  Coming(c, t)' = last'[t] \/ Due(c, t)'
      <4>1. CASE t = pub.topic
        BY <2>1, <3>1, <3>2, <4>1 DEF Due
      <4>2. CASE t # pub.topic
        BY <2>1, <2>2, <3>1, <3>2, <4>2 DEF Coming
      <4> QED
        BY <4>1, <4>2
    <3> QED
      BY <2>1, <3>1, <3>2
  <2> QED
    BY <2>3, <2>4, <2>5 DEF FreshInv
<1>4. CASE PublishEnd
  <2>1. /\ UNCHANGED Held /\ UNCHANGED <<last, open, subs, reader, writer, raced>>
        /\ pub.todo = {} /\ pub'.pc = "idle"
    BY <1>4, HubConstants DEF PublishEnd
  <2>2. Owned' /\ Unseen' /\ FanIsLast'
    BY <1>i, <2>1 DEF Owned, Unseen, FanIsLast
  <2>3. Apart'
    BY <1>i, <2>1 DEF Apart, Coming, Due
  <2> QED
    BY <2>2, <2>3 DEF FreshInv
<1>5. ASSUME NEW c \in Conns, PublishOffer(c) PROVE FreshInv'
  <2>1. /\ UNCHANGED <<snap, batch, got>> /\ UNCHANGED <<last, open, subs, reader, writer, raced>>
        /\ pub.pc = "fan" /\ latest' = [latest EXCEPT ![c][pub.topic] = pub.ver]
        /\ pub'.pc = "fan" /\ pub'.topic = pub.topic /\ pub'.ver = pub.ver /\ pub'.todo = pub.todo \ {c}
    BY <1>0, <1>5 DEF PublishOffer, Store, PubRec
  <2>2. \A d \in Conns, t \in Topics :
          latest'[d][t] = IF d = c /\ t = pub.topic THEN pub.ver ELSE latest[d][t]
    BY <1>0, <2>1
  <2>3. last[pub.topic] = pub.ver /\ pub.ver # 0
    BY <1>0, <1>i, <2>1 DEF FanIsLast
  <2>4. Owned' /\ FanIsLast'
    BY <1>i, <2>1 DEF Owned, FanIsLast
  <2>5. Unseen'
    BY <1>i, <2>1, <2>2, <2>3 DEF Unseen
  <2>6. Apart'
    <3> SUFFICES ASSUME ~raced'
                 PROVE  /\ \A d \in Conns : reader'[d] # "snap"
                        /\ \A d \in Conns, t \in Topics :
                             open'[d] /\ d \in subs'[t] => Coming(d, t)' = last'[t] \/ Due(d, t)'
      BY <2>1 DEF Apart
    <3>1. /\ ~raced /\ (\A d \in Conns : reader[d] # "snap")
          /\ \A d \in Conns, t \in Topics :
               open[d] /\ d \in subs[t] => Coming(d, t) = last[t] \/ Due(d, t)
      BY <1>i, <2>1 DEF Apart
    <3>2. ASSUME NEW d \in Conns, NEW t \in Topics, open'[d], d \in subs'[t]
          PROVE  Coming(d, t)' = last'[t] \/ Due(d, t)'
      <4>1. CASE d = c /\ t = pub.topic
        <5>1. snap'[d][t] = 0 /\ latest'[d][t] = pub.ver
          BY <1>s, <2>1, <2>2, <3>1, <4>1
        <5> QED
          BY <2>1, <2>3, <4>1, <5>1 DEF Coming
      <4>2. CASE ~(d = c /\ t = pub.topic)
        <5>1. Coming(d, t)' = Coming(d, t)
          BY <2>1, <2>2, <4>2 DEF Coming
        <5>2. Due(d, t) => Due(d, t)'
          BY <2>1, <4>2 DEF Due
        <5> QED
          BY <2>1, <3>1, <3>2, <5>1, <5>2
      <4> QED
        BY <4>1, <4>2
    <3> QED
      BY <2>1, <3>1, <3>2
  <2> QED
    BY <2>4, <2>5, <2>6 DEF FreshInv
<1>6. ASSUME NEW c \in Conns, NEW ts \in SUBSET Topics, Subscribe(c, ts) PROVE FreshInv'
  <2>1. /\ UNCHANGED <<latest, batch, got>> /\ UNCHANGED <<last, open, writer>> /\ reader[c] = "read"
        /\ subs' = [t \in Topics |-> IF t \in ts THEN subs[t] \cup {c} ELSE subs[t]]
        /\ SeenByPublish({c}, {}, ts, subs')
        /\ snap' = [snap EXCEPT ![c] = [t \in Topics |-> IF t \in ts THEN last[t] ELSE 0]]
        /\ reader' = [reader EXCEPT ![c] = "snap"] /\ raced' = (raced \/ pub.pc # "idle")
    BY <1>6 DEF Subscribe
  <2>2. /\ pub'.pc = pub.pc /\ pub'.topic = pub.topic /\ pub'.ver = pub.ver
        /\ pub.pc = "idle" => pub' = pub
    BY <2>1, SeenProperties
  <2>3. \A d \in Conns : d # c => snap'[d] = snap[d] /\ reader'[d] = reader[d]
    BY <1>0, <2>1
  <2>4. \A t \in Topics : snap'[c][t] = IF t \in ts THEN last[t] ELSE 0
    BY <1>0, <2>1
  <2>5. reader'[c] = "snap"
    BY <1>0, <2>1
  <2>6. Owned'
    BY <1>i, <2>1, <2>3, <2>5 DEF Owned
  <2>7. Unseen' /\ FanIsLast'
    <3>1. FanIsLast'
      BY <1>i, <2>1, <2>2 DEF FanIsLast
    <3>2. ASSUME NEW d \in Conns, NEW t \in Topics, last'[t] = 0
          PROVE  snap'[d][t] = 0 /\ latest'[d][t] = 0 /\ batch'[d][t] = 0 /\ got'[d][t] = 0
      <4>1. snap[d][t] = 0 /\ latest[d][t] = 0 /\ batch[d][t] = 0 /\ got[d][t] = 0
        BY <1>i, <2>1, <3>2 DEF Unseen
      <4>2. snap'[d][t] = 0
        BY <2>1, <2>3, <2>4, <3>2, <4>1
      <4> QED
        BY <2>1, <4>1, <4>2
    <3> QED
      BY <3>1, <3>2 DEF Unseen
  <2>8. Apart'
    <3> SUFFICES ASSUME ~raced'
                 PROVE  /\ pub'.pc = "idle"
                        /\ \A d \in Conns, t \in Topics :
                             open'[d] /\ d \in subs'[t] => Coming(d, t)' = last'[t]
      BY DEF Apart
    <3>1. ~raced /\ pub.pc = "idle"
      BY <1>0, <2>1
    <3>2. \A d \in Conns, t \in Topics : open[d] /\ d \in subs[t] => Coming(d, t) = last[t]
      BY <1>i, <3>1 DEF Apart, Due
    <3>3. ASSUME NEW d \in Conns, NEW t \in Topics, open'[d], d \in subs'[t]
          PROVE  Coming(d, t)' = last'[t]
      <4>1. CASE d # c
        <5>1. d \in subs[t] /\ open[d]
          BY <2>1, <3>3, <4>1
        <5> QED
          BY <2>1, <2>3, <3>2, <4>1, <5>1 DEF Coming
      <4>2. CASE d = c /\ t \in ts /\ last[t] # 0
        BY <2>1, <2>4, <4>2 DEF Coming
      <4>3. CASE d = c /\ t \in ts /\ last[t] = 0
        <5>1. snap'[d][t] = 0 /\ latest[d][t] = 0 /\ batch[d][t] = 0 /\ got[d][t] = 0
          BY <1>i, <2>4, <4>3 DEF Unseen
        <5> QED
          BY <2>1, <4>3, <5>1 DEF Coming
      <4>4. CASE d = c /\ t \notin ts
        <5>1. d \in subs[t] /\ open[d]
          BY <2>1, <3>3, <4>4
        <5>2. snap[d][t] = 0 /\ snap'[d][t] = 0
          BY <1>s, <2>1, <2>4, <4>4
        <5> QED
          BY <2>1, <3>2, <5>1, <5>2 DEF Coming
      <4> QED
        BY <4>1, <4>2, <4>3, <4>4
    <3> QED
      BY <2>2, <3>1, <3>3
  <2> QED
    BY <2>6, <2>7, <2>8 DEF FreshInv
<1>7. ASSUME NEW c \in Conns, NEW ts \in SUBSET Topics, UNCHANGED Held,
             UNCHANGED <<last, open, writer, raced>>,
             UNCHANGED reader \/ reader' = [reader EXCEPT ![c] = "done"], reader[c] = "read",
             subs' = [t \in Topics |-> IF t \in ts THEN subs[t] \ {c} ELSE subs[t]],
             SeenByPublish({}, {c}, ts, subs')
      PROVE  FreshInv'
  <2>1. /\ pub'.pc = pub.pc /\ pub'.topic = pub.topic /\ pub'.ver = pub.ver
        /\ \/ pub'.todo = pub.todo
           \/ pub.topic \in ts /\ pub'.todo = pub.todo \ {c}
    <3>1. {} \in SUBSET Conns /\ {c} \in SUBSET Conns /\ SeenByPublish({}, {c}, ts, subs')
      BY <1>7
    <3> QED
      BY <3>1, SeenProperties
  <2>2. \A d \in Conns : reader'[d] = reader[d] \/ (d = c /\ reader'[d] = "done")
    BY <1>0, <1>7
  <2>3. \A t \in Topics : subs'[t] \subseteq subs[t] /\ (t \in ts => c \notin subs'[t])
    BY <1>7
  <2>4. Owned' /\ Unseen' /\ FanIsLast'
    <3>1. Owned'
      BY <1>7, <1>i, <2>2 DEF Owned
    <3> QED
      BY <1>7, <1>i, <2>1, <3>1 DEF Unseen, FanIsLast
  <2>5. Apart'
    <3> SUFFICES ASSUME ~raced'
                 PROVE  /\ pub'.pc # "idle" => \A d \in Conns : reader'[d] # "snap"
                        /\ pub'.pc = "last" => subs'[pub'.topic] \subseteq pub'.todo
                        /\ \A d \in Conns, t \in Topics :
                             open'[d] /\ d \in subs'[t] => Coming(d, t)' = last'[t] \/ Due(d, t)'
      BY DEF Apart
    <3>1. /\ pub.pc # "idle" => \A d \in Conns : reader[d] # "snap"
          /\ pub.pc = "last" => subs[pub.topic] \subseteq pub.todo
          /\ \A d \in Conns, t \in Topics :
               open[d] /\ d \in subs[t] => Coming(d, t) = last[t] \/ Due(d, t)
      BY <1>7, <1>i DEF Apart
    <3>2. pub'.pc # "idle" => \A d \in Conns : reader'[d] # "snap"
      BY <2>1, <2>2, <3>1
    <3>3. ASSUME NEW d \in Conns, d \in subs'[pub.topic], d \in pub.todo PROVE d \in pub'.todo
      BY <1>0, <2>1, <2>3, <3>3
    <3>4. pub'.pc = "last" => subs'[pub'.topic] \subseteq pub'.todo
      <4>1. subs'[pub.topic] \subseteq subs[pub.topic] /\ subs[pub.topic] \subseteq Conns
        BY <1>0, <2>3
      <4> QED
        BY <2>1, <3>1, <3>3, <4>1
    <3>5. ASSUME NEW d \in Conns, NEW t \in Topics, open'[d], d \in subs'[t]
          PROVE  Coming(d, t)' = last'[t] \/ Due(d, t)'
      <4>1. Coming(d, t) = last[t] \/ Due(d, t)
        BY <1>7, <2>3, <3>1, <3>5
      <4>2. Coming(d, t)' = Coming(d, t) /\ last' = last
        BY <1>7 DEF Coming
      <4>3. Due(d, t) => Due(d, t)'
        BY <2>1, <3>3, <3>5 DEF Due
      <4> QED
        BY <4>1, <4>2, <4>3
    <3> QED
      BY <3>2, <3>4, <3>5
  <2> QED
    BY <2>4, <2>5 DEF FreshInv
<1>8. ASSUME NEW c \in Conns, NEW ts \in SUBSET Topics, Unsubscribe(c, ts) PROVE FreshInv'
  BY <1>7, <1>8 DEF Unsubscribe
<1>9. ASSUME NEW c \in Conns, ReaderEnds(c) PROVE FreshInv'
  <2>1. /\ UNCHANGED Held /\ UNCHANGED <<last, open, writer, raced>>
        /\ reader' = [reader EXCEPT ![c] = "done"] /\ reader[c] = "read"
        /\ subs' = [t \in Topics |-> subs[t] \ {c}] /\ SeenByPublish({}, {c}, Topics, subs')
    BY <1>9 DEF ReaderEnds
  <2>2. subs' = [t \in Topics |-> IF t \in Topics THEN subs[t] \ {c} ELSE subs[t]]
    BY <2>1
  <2> QED
    BY <1>7, <2>1, <2>2
\* The steps that move payloads along one connection.
<1>10. ASSUME NEW c \in Conns, UNCHANGED <<last, pub, open, subs, raced>>,
              \A d \in Conns : d # c => /\ snap'[d] = snap[d] /\ latest'[d] = latest[d]
                                        /\ batch'[d] = batch[d] /\ got'[d] = got[d]
                                        /\ reader'[d] = reader[d] /\ writer'[d] = writer[d],
              reader'[c] = "snap" => reader[c] = "snap",
              reader'[c] # "snap" => snap'[c] = Nothing,
              writer'[c] \in {"select", "flush"} => batch'[c] = Nothing,
              \A t \in Topics :
                /\ Coming(c, t)' = Coming(c, t)
                /\ (snap[c][t] = 0 /\ latest[c][t] = 0 /\ batch[c][t] = 0 /\ got[c][t] = 0) =>
                     (snap'[c][t] = 0 /\ latest'[c][t] = 0 /\ batch'[c][t] = 0 /\ got'[c][t] = 0)
       PROVE  FreshInv'
  <2>1. Owned'
    BY <1>10, <1>i DEF Owned
  <2>2. Unseen'
    BY <1>10, <1>i DEF Unseen
  <2>3. FanIsLast'
    BY <1>10, <1>i DEF FanIsLast
  <2>4. \A d \in Conns, t \in Topics : Coming(d, t)' = Coming(d, t)
    BY <1>10 DEF Coming
  <2>5. Apart'
    BY <1>10, <1>i, <2>4 DEF Apart, Due
  <2> QED
    BY <2>1, <2>2, <2>3, <2>5 DEF FreshInv
<1>11. ASSUME NEW c \in Conns, OfferSnapshot(c) PROVE FreshInv'
  <2>1. UNCHANGED <<last, pub, open, subs, raced, reader, writer, batch, got>> /\ reader[c] = "snap"
    BY <1>11 DEF OfferSnapshot
  <2>2. PICK u \in Topics : /\ snap[c][u] # 0
                            /\ latest' = [latest EXCEPT ![c][u] = snap[c][u]]
                            /\ snap' = [snap EXCEPT ![c][u] = 0]
    BY <1>11 DEF OfferSnapshot, Store
  <2>3. /\ \A d \in Conns : d # c => snap'[d] = snap[d] /\ latest'[d] = latest[d]
        /\ \A t \in Topics : /\ snap'[c][t] = IF t = u THEN 0 ELSE snap[c][t]
                             /\ latest'[c][t] = IF t = u THEN snap[c][u] ELSE latest[c][t]
    BY <1>0, <2>2
  <2>4. \A t \in Topics :
          /\ Coming(c, t)' = Coming(c, t)
          /\ (snap[c][t] = 0 /\ latest[c][t] = 0) => (snap'[c][t] = 0 /\ latest'[c][t] = 0)
    BY <2>1, <2>2, <2>3 DEF Coming
  <2>5. writer[c] \in {"select", "flush"} => batch[c] = Nothing
    BY <1>b
  <2> QED
    BY <1>10, <2>1, <2>3, <2>4, <2>5
<1>12. ASSUME NEW c \in Conns, SubscribeEnd(c) PROVE FreshInv'
  <2>1. /\ UNCHANGED Held /\ UNCHANGED <<last, pub, open, subs, raced, writer>> /\ snap[c] = Nothing
        /\ reader' = [reader EXCEPT ![c] = "read"]
    BY <1>12 DEF SubscribeEnd
  <2>2. reader'[c] = "read" /\ \A d \in Conns : d # c => reader'[d] = reader[d]
    BY <1>0, <2>1
  <2>3. writer[c] \in {"select", "flush"} => batch[c] = Nothing
    BY <1>b
  <2>4. \A t \in Topics : Coming(c, t)' = Coming(c, t)
    BY <2>1 DEF Coming
  <2> QED
    BY <1>10, <2>1, <2>2, <2>3, <2>4
<1>13. ASSUME NEW c \in Conns, FlushLatest(c) PROVE FreshInv'
  <2>1. UNCHANGED <<last, pub, open, subs, raced, reader, snap, got>> /\ writer[c] = "flush"
    BY <1>13 DEF FlushLatest
  <2>2. PICK ts \in SUBSET Waiting(c) :
          /\ batch' = [batch EXCEPT ![c] = [t \in Topics |-> IF t \in ts THEN latest[c][t] ELSE 0]]
          /\ latest' = [latest EXCEPT ![c] = [t \in Topics |-> IF t \in ts THEN 0 ELSE latest[c][t]]]
          /\ writer' = [writer EXCEPT ![c] = IF ts = {} THEN "select" ELSE "write"]
    BY <1>13 DEF FlushLatest
  <2>3. \A d \in Conns : d # c => batch'[d] = batch[d] /\ latest'[d] = latest[d] /\ writer'[d] = writer[d]
    BY <1>0, <2>2
  <2>4. \A t \in Topics : /\ batch'[c][t] = IF t \in ts THEN latest[c][t] ELSE 0
                          /\ latest'[c][t] = IF t \in ts THEN 0 ELSE latest[c][t]
    BY <1>0, <2>2
  <2>5. \A t \in Topics : batch[c][t] = 0 /\ (t \in ts => latest[c][t] # 0)
    BY <1>b, <2>1 DEF Waiting
  <2>6. \A t \in Topics :
          /\ Coming(c, t)' = Coming(c, t)
          /\ (latest[c][t] = 0 /\ batch[c][t] = 0) => (latest'[c][t] = 0 /\ batch'[c][t] = 0)
    BY <2>1, <2>4, <2>5 DEF Coming
  <2>7. writer'[c] \in {"select", "flush"} => batch'[c] = Nothing
    <3>1. writer'[c] = IF ts = {} THEN "select" ELSE "write"
      BY <1>0, <2>2
    <3>2. batch'[c] = [t \in Topics |-> IF t \in ts THEN latest[c][t] ELSE 0]
      BY <1>0, <2>2
    <3>3. ts = {} => batch'[c] = Nothing
      BY <3>2 DEF Nothing
    <3> QED
      BY <3>1, <3>3
  <2>8. reader[c] # "snap" => snap[c] = Nothing
    BY <1>s
  <2> QED
    BY <1>10, <2>1, <2>3, <2>6, <2>7, <2>8
<1>14. ASSUME NEW c \in Conns, Write(c) PROVE FreshInv'
  <2>1. /\ UNCHANGED <<last, pub, open, subs, raced, reader, snap, latest>>
        /\ got' = [got EXCEPT ![c] = [t \in Topics |-> IF batch[c][t] # 0 THEN batch[c][t] ELSE got[c][t]]]
        /\ batch' = [batch EXCEPT ![c] = Nothing] /\ writer' = [writer EXCEPT ![c] = "select"]
    BY <1>0, <1>14 DEF Write
  <2>2. \A d \in Conns : d # c => batch'[d] = batch[d] /\ got'[d] = got[d] /\ writer'[d] = writer[d]
    BY <1>0, <2>1
  <2>3. batch'[c] = Nothing /\ \A t \in Topics :
          batch'[c][t] = 0 /\ got'[c][t] = IF batch[c][t] # 0 THEN batch[c][t] ELSE got[c][t]
    BY <1>0, <1>n, <2>1
  <2>4. \A t \in Topics :
          /\ Coming(c, t)' = Coming(c, t)
          /\ (batch[c][t] = 0 /\ got[c][t] = 0) => (batch'[c][t] = 0 /\ got'[c][t] = 0)
    BY <2>1, <2>3 DEF Coming
  <2>5. reader[c] # "snap" => snap[c] = Nothing
    BY <1>s
  <2> QED
    BY <1>10, <2>1, <2>2, <2>3, <2>4, <2>5
<1>15. ASSUME NEW c \in Conns, WriterEnds(c) \/ Disconnect(c) PROVE FreshInv'
  <2>1. /\ UNCHANGED Held /\ UNCHANGED <<last, pub, subs, raced, reader>>
        /\ open' = [open EXCEPT ![c] = FALSE]
        /\ UNCHANGED writer \/ writer' = [writer EXCEPT ![c] = "done"]
    BY <1>15 DEF WriterEnds, Disconnect
  <2>2. \A d \in Conns : /\ open'[d] => open[d]
                         /\ writer'[d] = writer[d] \/ writer'[d] = "done"
    BY <1>0, <2>1
  <2>3. Owned'
    BY <1>i, <2>1, <2>2 DEF Owned
  <2>4. Unseen' /\ FanIsLast'
    BY <1>i, <2>1 DEF Unseen, FanIsLast
  <2>5. Apart'
    BY <1>i, <2>1, <2>2 DEF Apart, Coming, Due
  <2> QED
    BY <2>3, <2>4, <2>5 DEF FreshInv
<1>16. CASE (\E t \in Topics : BrokerPublish(t)) \/ MapFault \/ UNCHANGED vars
  BY <1>1, <1>16 DEF BrokerPublish, MapFault, vars
<1>17. ASSUME NEW c \in Conns, PublishNotify(c) \/ NotifySnapshot(c) PROVE FreshInv'
  BY <1>1, <1>17 DEF PublishNotify, NotifySnapshot
<1>18. ASSUME NEW c \in Conns, TakeToken(c) PROVE FreshInv'
  BY <1>1, <1>18 DEF TakeToken
<1> QED
  BY <1>2, <1>3, <1>4, <1>5, <1>6, <1>8, <1>9, <1>11, <1>12, <1>13, <1>14, <1>15, <1>16, <1>17, <1>18
  DEF Next, Step

\* As long as no Subscribe has overlapped a Publish, a subscriber that nothing is on
\* its way to has the hub's latest payload, although payloads overwrite each other
\* on the way and one flush may take only some of them.
THEOREM SubscribersAreFresh == Spec => []FreshWithoutRace
<1>1. Init => HubType /\ FreshInv
  BY InitHubType, InitFresh
<1>2. HubType /\ FreshInv /\ [Next]_vars => (HubType /\ FreshInv)'
  BY NextHubType, NextFresh
<1>3. HubType /\ FreshInv => FreshWithoutRace
  <2> SUFFICES ASSUME HubType, FreshInv, ~raced, NEW c \in Conns, NEW t \in Topics,
                      Settled(c), c \in subs[t]
               PROVE  got[c][t] = last[t]
    BY DEF FreshWithoutRace, Fresh
  <2>1. pub.pc = "idle" /\ open[c] /\ snap[c] = Nothing /\ Waiting(c) = {} /\ writer[c] = "select"
    BY DEF Settled
  <2>2. Coming(c, t) = last[t]
    BY <2>1 DEF FreshInv, Apart, Due
  <2>3. snap[c][t] = 0 /\ latest[c][t] = 0
    BY <2>1 DEF Nothing, Waiting
  <2>4. batch[c][t] = 0
    BY <2>1 DEF FreshInv, Owned, Nothing
  <2> QED
    BY <2>2, <2>3, <2>4 DEF Coming
<1> QED
  BY <1>1, <1>2, <1>3, PTL DEF Spec
=============================================================================
