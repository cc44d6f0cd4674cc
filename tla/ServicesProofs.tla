--------------------------- MODULE ServicesProofs ---------------------------
(***************************************************************************)
(* For any number of processes at any addresses: handlers have their       *)
(* dependencies, a serving process is registered, and the resolver's list  *)
(* is the registry's when nothing is on its way.                           *)
(***************************************************************************)
EXTENDS Services, TLAPS

\* The places in which a process has opened its dependencies and not begun to
\* close them, ...
Equipped == {"granted", "put", "up", "stopping", "unregister", "revoke"}
\* ... and all of them.
ProcPlaces == Equipped \cup {"new", "closing", "gone"}

ProcType ==
  /\ pc \in [Procs -> ProcPlaces]
  /\ open \in [Procs -> SUBSET Deps]
  /\ listener \in [Procs -> {"none", "open", "failed", "closed"}]
  /\ ctx \in [Procs -> BOOLEAN]
  /\ inflight \in [Procs -> Nat]
  /\ exposed \in [Procs -> BOOLEAN]
  /\ nfault \in Nat

LEMMA NextProcType ==
  ASSUME ProcType, [Next]_vars
  PROVE  ProcType'
<1> USE DEF ProcType, ProcPlaces, Equipped, Goto
<1>1. ASSUME NEW p \in Procs, Exit(p), UNCHANGED <<ctx, exposed>>, nfault' \in Nat PROVE ProcType'
  BY <1>1 DEF Exit
<1>2. ASSUME NEW p \in Procs, Abandon(p), UNCHANGED <<ctx, exposed>>, nfault' \in Nat PROVE ProcType'
  BY <1>1, <1>2 DEF Abandon
<1>3. ASSUME NEW p \in Procs, Start(p) PROVE ProcType'
  BY <1>3 DEF Start
<1>4. ASSUME NEW p \in Procs, RegisterPut(p) \/ RegisterDone(p) PROVE ProcType'
  BY <1>4 DEF RegisterPut, RegisterDone
<1>5. ASSUME NEW p \in Procs, Listen(p) PROVE ProcType'
  BY <1>5 DEF Listen
<1>6. ASSUME NEW p \in Procs, StopServing(p) PROVE ProcType'
  BY <1>6 DEF StopServing
<1>7. ASSUME NEW p \in Procs, Drained(p) \/ UnRegister(p) \/ Revoke(p) PROVE ProcType'
  BY <1>7 DEF Drained, UnRegister, Revoke, Fault
<1>8. ASSUME NEW p \in Procs, CloseDeps(p) PROVE ProcType'
  BY <1>1, <1>8 DEF CloseDeps
<1>9. ASSUME NEW p \in Procs, StartFails(p) \/ PutRefused(p) PROVE ProcType'
  BY <1>2, <1>9 DEF StartFails, PutRefused, Fault
<1>10. ASSUME NEW p \in Procs, TracerFails(p) \/ Crash(p) PROVE ProcType'
  BY <1>1, <1>10 DEF TracerFails, Crash, Fault
<1>11. ASSUME NEW p \in Procs, Call(p) \/ HandlerReturns(p) PROVE ProcType'
  BY <1>11 DEF Call, HandlerReturns
<1>12. ASSUME NEW p \in Procs, Signal(p) PROVE ProcType'
  BY <1>12 DEF Signal
<1>13. ASSUME NEW p \in Procs, LeaseExpires(p) \/ Partition(p) PROVE ProcType'
  <2>1. UNCHANGED <<pc, open, listener, ctx, inflight>> /\ nfault' \in Nat
    BY <1>13 DEF LeaseExpires, Partition, Fault
  <2>2. exposed' = [exposed EXCEPT ![p] = TRUE]
    BY <1>13 DEF LeaseExpires, Partition
  <2>3. exposed' \in [Procs -> BOOLEAN]
    BY <2>2
  <2> QED
    BY <2>1, <2>3
<1>14. CASE ResolverPart \/ Redial \/ ResolverFails \/ UNCHANGED vars
  BY <1>14 DEF ResolverPart, Redial, ResolverFails, vars, procVars, Fault
<1> QED
  BY <1>3, <1>4, <1>5, <1>6, <1>7, <1>8, <1>9, <1>10, <1>11, <1>12, <1>13, <1>14 DEF Next, Main

-----------------------------------------------------------------------------
(* Handlers and dependencies *)

\* Only a process that is up accepts calls; it does not leave GracefulStop before
\* its handlers have returned; until then all dependencies are open.
DepsInv ==
  \A p \in Procs :
    /\ listener[p] = "open" => pc[p] = "up"
    /\ inflight[p] > 0 => pc[p] \in {"up", "stopping"}
    /\ pc[p] \in Equipped => open[p] = Deps

LEMMA InitDepsInv == Init => ProcType /\ DepsInv
BY DEF Init, ProcType, DepsInv, ProcPlaces, Equipped

LEMMA NextDepsInv ==
  ASSUME ProcType, DepsInv, [Next]_vars
  PROVE  DepsInv'
<1> USE DEF ProcType, DepsInv, ProcPlaces, Equipped, Goto
<1>1. ASSUME NEW p \in Procs, Exit(p) PROVE DepsInv'
  BY <1>1 DEF Exit
<1>2. ASSUME NEW p \in Procs, pc[p] \in {"new", "granted", "put"}, Abandon(p) PROVE DepsInv'
  BY <1>1, <1>2 DEF Abandon
<1>3. ASSUME NEW p \in Procs, Start(p) PROVE DepsInv'
  BY <1>3 DEF Start
<1>4. ASSUME NEW p \in Procs, RegisterPut(p) \/ RegisterDone(p) PROVE DepsInv'
  BY <1>4 DEF RegisterPut, RegisterDone
<1>5. ASSUME NEW p \in Procs, Listen(p) PROVE DepsInv'
  BY <1>5 DEF Listen
<1>6. ASSUME NEW p \in Procs, StopServing(p) PROVE DepsInv'
  BY <1>6 DEF StopServing
<1>7. ASSUME NEW p \in Procs, Drained(p) \/ UnRegister(p) \/ Revoke(p) PROVE DepsInv'
  BY <1>7 DEF Drained, UnRegister, Revoke
<1>8. ASSUME NEW p \in Procs, CloseDeps(p) PROVE DepsInv'
  BY <1>1, <1>8 DEF CloseDeps
<1>9. ASSUME NEW p \in Procs, StartFails(p) \/ PutRefused(p) PROVE DepsInv'
  BY <1>2, <1>9 DEF StartFails, PutRefused, Starting
<1>10. ASSUME NEW p \in Procs, TracerFails(p) \/ Crash(p) PROVE DepsInv'
  BY <1>1, <1>10 DEF TracerFails, Crash
<1>11. ASSUME NEW p \in Procs, Call(p) \/ HandlerReturns(p) PROVE DepsInv'
  BY <1>11 DEF Call, HandlerReturns
<1>12. ASSUME UNCHANGED <<pc, open, listener, inflight>> PROVE DepsInv'
  BY <1>12
<1> QED
  BY <1>3, <1>4, <1>5, <1>6, <1>7, <1>8, <1>9, <1>10, <1>11, <1>12
     DEF Next, Main, Signal, LeaseExpires, Partition, ResolverPart, Redial, ResolverFails, vars,
         procVars

\* main and bootstrap.Run: whatever way the process ends, no handler runs when the
\* deferred Closes do.
THEOREM HandlersKeepDeps == Spec => []HandlersHaveDeps
<1>1. ProcType /\ DepsInv /\ [Next]_vars => ProcType' /\ DepsInv'
  BY NextProcType, NextDepsInv
<1>2. ProcType /\ DepsInv => HandlersHaveDeps
  BY DEF DepsInv, HandlersHaveDeps, Equipped
<1> QED
  BY InitDepsInv, <1>1, <1>2, PTL DEF Spec

-----------------------------------------------------------------------------
(* The registration *)

\* The key of a registered process that nothing has exposed hangs on its lease, and
\* no other process at its address can touch it.
KeyInv ==
  \A p \in Procs : pc[p] \in {"put", "up"} /\ ~exposed[p] =>
    /\ key[Addr[p]] = p
    /\ \A q \in Procs : SharesAddr(q, p) => pc[q] \notin Equipped

KeyType == key \in [Addrs -> Procs \cup {NoOwner}]

LEMMA InitKeyInv == Init => KeyType /\ KeyInv
BY DEF Init, RegInit, KeyType, KeyInv

\* What the operations on etcd do to the keys.
LEMMA KeyChanges ==
  ASSUME KeyType, NEW p \in Procs
  PROVE  /\ Addr[p] \in Addrs
         /\ Put(p) => key' = [key EXCEPT ![Addr[p]] = p]
         /\ DeleteAnyOwner(p) => key' = [key EXCEPT ![Addr[p]] = NoOwner]
         /\ EndLease(p) => key' = [key EXCEPT ![Addr[p]] = IF @ = p THEN NoOwner ELSE @]
<1>1. Addr[p] \in Addrs
  BY DEF Addrs
<1>2. ASSUME EndLease(p) PROVE key' = [key EXCEPT ![Addr[p]] = IF @ = p THEN NoOwner ELSE @]
  <2>1. CASE key[Addr[p]] = p
    BY <1>1, <1>2, <2>1 DEF EndLease, Change
  <2>2. CASE key[Addr[p]] # p
    BY <1>1, <1>2, <2>2 DEF EndLease, NoChange, KeyType
  <2> QED
    BY <2>1, <2>2
<1>3. ASSUME DeleteAnyOwner(p) PROVE key' = [key EXCEPT ![Addr[p]] = NoOwner]
  BY <1>1, <1>3 DEF DeleteAnyOwner, Change, NoChange, KeyType
<1> QED
  BY <1>1, <1>2, <1>3 DEF Put, Change

LEMMA NextKeyInv ==
  ASSUME ProcType, KeyType, KeyInv, [Next]_vars
  PROVE  KeyType' /\ KeyInv'
<1> USE DEF ProcType, KeyType, Goto
<1>1. ASSUME UNCHANGED <<key, exposed>>,
             \A p \in Procs : /\ pc'[p] \in {"put", "up"} => pc[p] \in {"put", "up"}
                              /\ pc'[p] \in Equipped => pc[p] \in Equipped
      PROVE  KeyType' /\ KeyInv'
  BY <1>1 DEF KeyInv, SharesAddr
<1>2. ASSUME NEW p \in Procs, Exit(p), UNCHANGED <<regVars, exposed>> PROVE KeyType' /\ KeyInv'
  BY <1>1, <1>2 DEF Exit, regVars, Equipped
<1>3. ASSUME NEW p \in Procs, Abandon(p), UNCHANGED <<regVars, exposed>> PROVE KeyType' /\ KeyInv'
  BY <1>1, <1>2, <1>3 DEF Abandon, regVars, Equipped
<1>4. ASSUME NEW p \in Procs, Start(p) PROVE KeyType' /\ KeyInv'
  <2>1. /\ UNCHANGED key /\ pc' = [pc EXCEPT ![p] = "granted"]
        /\ exposed' = [q \in Procs |-> exposed[q] \/ SharesAddr(q, p)]
    BY <1>4 DEF Start, Grant, NoChange
  <2>2. SUFFICES ASSUME NEW r \in Procs, pc'[r] \in {"put", "up"}, ~exposed'[r]
                 PROVE  /\ key[Addr[r]] = r
                        /\ \A q \in Procs : SharesAddr(q, r) => pc'[q] \notin Equipped
    BY <2>1 DEF KeyInv, SharesAddr
  <2>3. r # p /\ pc'[r] = pc[r] /\ ~exposed[r] /\ ~SharesAddr(r, p)
    BY <2>1, <2>2
  <2> QED
    BY <2>1, <2>2, <2>3 DEF KeyInv, SharesAddr
<1>5. ASSUME NEW p \in Procs, RegisterPut(p) PROVE KeyType' /\ KeyInv'
  <2>1. /\ pc[p] = "granted" /\ pc' = [pc EXCEPT ![p] = "put"]
        /\ exposed' = [exposed EXCEPT ![p] = \E q \in Procs : SharesAddr(q, p) /\ pc[q] \in Running]
        /\ key' = [key EXCEPT ![Addr[p]] = p] /\ Addr[p] \in Addrs
    BY <1>5, KeyChanges DEF RegisterPut
  <2>2. SUFFICES ASSUME NEW r \in Procs, pc'[r] \in {"put", "up"}, ~exposed'[r]
                 PROVE  /\ key'[Addr[r]] = r
                        /\ \A q \in Procs : SharesAddr(q, r) => pc'[q] \notin Equipped
    BY <2>1 DEF KeyInv, SharesAddr
  <2>3. CASE r = p
    <3>1. \A q \in Procs : SharesAddr(q, p) => pc[q] \notin Running /\ q # p
      BY <2>1, <2>2, <2>3 DEF SharesAddr
    <3> QED
      BY <2>1, <2>3, <3>1 DEF Running, Starting, Equipped
  <2>4. CASE r # p
    <3>1. pc[r] \in {"put", "up"} /\ ~exposed[r]
      BY <2>1, <2>2, <2>4
    <3>2. key[Addr[r]] = r /\ \A q \in Procs : SharesAddr(q, r) => pc[q] \notin Equipped
      BY <3>1 DEF KeyInv
    <3>3. Addr[r] # Addr[p]
      BY <2>1, <2>4, <3>2 DEF SharesAddr, Equipped
    <3> QED
      BY <2>1, <3>2, <3>3 DEF SharesAddr
  <2> QED
    BY <2>3, <2>4
<1>6. ASSUME NEW p \in Procs, UnRegister(p) PROVE KeyType' /\ KeyInv'
  <2>1. CASE DeleteAnyOwner(p) /\ Goto(p, "revoke")
    <3>1. /\ key' = [key EXCEPT ![Addr[p]] = NoOwner] /\ Addr[p] \in Addrs
          /\ pc[p] = "unregister" /\ pc' = [pc EXCEPT ![p] = "revoke"] /\ UNCHANGED exposed
      BY <1>6, <2>1, KeyChanges DEF UnRegister
    <3>2. SUFFICES ASSUME NEW r \in Procs, pc'[r] \in {"put", "up"}, ~exposed'[r]
                   PROVE  /\ key'[Addr[r]] = r
                          /\ \A q \in Procs : SharesAddr(q, r) => pc'[q] \notin Equipped
      BY <3>1 DEF KeyInv, SharesAddr
    <3>3. r # p /\ pc[r] \in {"put", "up"} /\ ~exposed[r]
      BY <3>1, <3>2
    <3>4. key[Addr[r]] = r /\ \A q \in Procs : SharesAddr(q, r) => pc[q] \notin Equipped
      BY <3>3 DEF KeyInv
    <3>5. Addr[r] # Addr[p]
      BY <3>1, <3>3, <3>4 DEF SharesAddr, Equipped
    <3> QED
      BY <3>1, <3>4, <3>5 DEF SharesAddr
  <2>2. CASE Goto(p, "closing") /\ UNCHANGED regVars
    BY <1>1, <1>6, <2>2 DEF UnRegister, regVars, Equipped
  <2> QED
    BY <1>6, <2>1, <2>2 DEF UnRegister
<1>7. ASSUME NEW p \in Procs, EndLease(p),
             \A r \in Procs : pc'[r] \in {"put", "up"} /\ ~exposed'[r] =>
               r # p /\ pc[r] \in {"put", "up"} /\ ~exposed[r],
             \A r \in Procs : pc'[r] \in Equipped => pc[r] \in Equipped
      PROVE  KeyType' /\ KeyInv'
  <2>1. key' = [key EXCEPT ![Addr[p]] = IF @ = p THEN NoOwner ELSE @] /\ Addr[p] \in Addrs
    BY <1>7, KeyChanges
  <2>2. KeyType'
    BY <2>1
  <2>3. SUFFICES ASSUME NEW r \in Procs, pc'[r] \in {"put", "up"}, ~exposed'[r]
                 PROVE  /\ key'[Addr[r]] = r
                        /\ \A q \in Procs : SharesAddr(q, r) => pc'[q] \notin Equipped
    BY <2>2 DEF KeyInv, SharesAddr
  <2>4. r # p /\ pc[r] \in {"put", "up"} /\ ~exposed[r]
    BY <1>7, <2>3
  <2>5. key[Addr[r]] = r /\ \A q \in Procs : SharesAddr(q, r) => pc[q] \notin Equipped
    BY <2>4 DEF KeyInv
  <2>6. Addr[r] \in Addrs /\ key'[Addr[r]] = r
    BY <2>1, <2>4, <2>5, KeyChanges
  <2> QED
    BY <1>7, <2>5, <2>6 DEF SharesAddr
<1>8. ASSUME NEW p \in Procs, Revoke(p) PROVE KeyType' /\ KeyInv'
  <2>1. CASE EndLease(p)
    <3>1. UNCHANGED exposed /\ pc[p] = "revoke" /\ pc' = [pc EXCEPT ![p] = "closing"]
      BY <1>8 DEF Revoke
    <3>2. \A r \in Procs : pc'[r] \in {"put", "up"} /\ ~exposed'[r] =>
            r # p /\ pc[r] \in {"put", "up"} /\ ~exposed[r]
      BY <3>1
    <3>3. \A r \in Procs : pc'[r] \in Equipped => pc[r] \in Equipped
      BY <3>1 DEF Equipped
    <3> QED
      BY <1>7, <2>1, <3>2, <3>3
  <2>2. CASE UNCHANGED regVars
    BY <1>1, <1>8, <2>2 DEF Revoke, regVars, Equipped
  <2> QED
    BY <1>8, <2>1, <2>2 DEF Revoke
<1>9. ASSUME NEW p \in Procs, LeaseExpires(p) \/ Partition(p) PROVE KeyType' /\ KeyInv'
  <2>1. EndLease(p) /\ UNCHANGED pc /\ exposed' = [exposed EXCEPT ![p] = TRUE]
    BY <1>9 DEF LeaseExpires, Partition
  <2>2. \A r \in Procs : pc'[r] \in {"put", "up"} /\ ~exposed'[r] =>
          r # p /\ pc[r] \in {"put", "up"} /\ ~exposed[r]
    BY <2>1
  <2> QED
    BY <1>7, <2>1, <2>2
<1>10. ASSUME NEW p \in Procs, RegisterDone(p) \/ StopServing(p) \/ Drained(p) PROVE KeyType' /\ KeyInv'
  BY <1>1, <1>10 DEF RegisterDone, StopServing, Drained, regVars, Equipped
<1>11. ASSUME NEW p \in Procs, CloseDeps(p) PROVE KeyType' /\ KeyInv'
  BY <1>1, <1>2, <1>11 DEF CloseDeps, regVars
<1>12. ASSUME NEW p \in Procs, StartFails(p) \/ PutRefused(p) PROVE KeyType' /\ KeyInv'
  BY <1>3, <1>12 DEF StartFails, PutRefused
<1>13. ASSUME NEW p \in Procs, TracerFails(p) \/ Crash(p) PROVE KeyType' /\ KeyInv'
  BY <1>2, <1>13 DEF TracerFails, Crash
<1>14. ASSUME UNCHANGED <<key, pc, exposed>> PROVE KeyType' /\ KeyInv'
  BY <1>1, <1>14
<1>15. ASSUME NEW p \in Procs, Listen(p) \/ Call(p) \/ HandlerReturns(p) \/ Signal(p)
       PROVE  KeyType' /\ KeyInv'
  BY <1>14, <1>15 DEF Listen, Call, HandlerReturns, Signal, regVars
<1>16. CASE ResolverPart \/ Redial \/ ResolverFails \/ UNCHANGED vars
  BY <1>14, <1>16 DEF ResolverPart, Redial, ResolverFails, ResolverNext, Build, WatchStarts,
     WatchEvent, WatchGetFails, ResolveNow, UpdateState, vars, regVars, etcdVars, procVars
<1> QED
  BY <1>4, <1>5, <1>6, <1>8, <1>9, <1>10, <1>11, <1>12, <1>13, <1>15, <1>16 DEF Next, Main

\* Register and the lease: a serving process stays in the registry, whatever other
\* runs at its address left behind.
THEOREM ServingStaysRegistered == Spec => []ServingIsRegistered
<1>1. ProcType /\ KeyType /\ KeyInv /\ [Next]_vars => ProcType' /\ KeyType' /\ KeyInv'
  BY NextProcType, NextKeyInv
<1>2. KeyInv => ServingIsRegistered
  BY DEF KeyInv, ServingIsRegistered
<1> QED
  BY InitDepsInv, InitKeyInv, <1>1, <1>2, PTL DEF Spec

-----------------------------------------------------------------------------
(* The resolver's list *)

RegType ==
  /\ fetch \in [Refreshers -> Lists \cup {Idle}]
  /\ addrs \in Lists
  /\ built \in BOOLEAN /\ watch \in BOOLEAN /\ events \in BOOLEAN /\ excuse \in BOOLEAN

\* A list of age 0 is the registry's; and while nothing excuses an old list, a new
\* one is in gRPC's hands, has been read, or is announced by a watch response.
ListInv ==
  /\ \A g \in Refreshers : fetch[g] # Idle /\ fetch[g].age = 0 => fetch[g].set = Registered
  /\ addrs.age = 0 => addrs.set = Registered
  /\ watch => built
  /\ built /\ ~excuse =>
       \/ addrs.age = 0
       \/ events
       \/ \E g \in Refreshers : fetch[g] # Idle /\ fetch[g].age = 0

LEMMA InitListInv == Init => RegType /\ ListInv
<1> SUFFICES ASSUME Init PROVE RegType /\ ListInv
  OBVIOUS
<1>1. RegType
  <2>1. addrs \in Lists
    BY DEF Init, RegInit, Lists, MaxAge
  <2>2. fetch \in [Refreshers -> Lists \cup {Idle}]
    BY DEF Init, RegInit
  <2>3. built \in BOOLEAN /\ watch \in BOOLEAN /\ events \in BOOLEAN /\ excuse \in BOOLEAN
    BY DEF Init, RegInit
  <2> QED
    BY <2>1, <2>2, <2>3 DEF RegType
<1>2. /\ \A g \in Refreshers : fetch[g] = Idle
      /\ ~watch /\ ~built
  BY DEF Init, RegInit
<1>3. addrs.set = {} /\ Registered = {}
  BY DEF Init, RegInit, Registered
<1> QED
  BY <1>1, <1>2, <1>3 DEF ListInv

\* A change leaves no list of age 0.
LEMMA AgedLists ==
  /\ \A s \in Lists : Aged(s) \in Lists /\ Aged(s).age # 0
  /\ Aged(Idle) = Idle
BY IdleAssumption DEF Aged, Lists, MaxAge

LEMMA ChangeListInv ==
  ASSUME RegType, ListInv, NEW a, NEW owner, Change(a, owner)
  PROVE  RegType' /\ ListInv'
<1>1. /\ \A g \in Refreshers : fetch'[g] = Aged(fetch[g])
      /\ DOMAIN fetch' = Refreshers /\ fetch' = [g \in Refreshers |-> fetch'[g]]
      /\ addrs' = Aged(addrs)
  BY DEF Change
<1>2. fetch' \in [Refreshers -> Lists \cup {Idle}] /\ addrs' \in Lists
  BY <1>1, AgedLists DEF RegType
<1>3. addrs'.age # 0 /\ \A g \in Refreshers : fetch'[g] # Idle => fetch'[g].age # 0
  BY <1>1, AgedLists DEF RegType
<1>4. /\ events' \in BOOLEAN /\ excuse' \in BOOLEAN /\ UNCHANGED <<built, watch>>
      /\ built /\ ~excuse' => events'
  BY DEF Change, RegType
<1>5. RegType'
  BY <1>2, <1>4 DEF RegType
<1>6. (watch => built)'
  BY <1>4 DEF ListInv
<1> QED
  BY <1>3, <1>4, <1>5, <1>6 DEF ListInv

\* A refresher that has just read the registry.
LEMMA GetListInv ==
  ASSUME RegType, ListInv, NEW g \in Refreshers, Get(g), UNCHANGED <<key, addrs>>,
         built' \in BOOLEAN, watch' \in BOOLEAN, events' \in BOOLEAN, excuse' \in BOOLEAN,
         watch' => built'
  PROVE  RegType' /\ ListInv'
<1> DEFINE new == [set |-> Registered, age |-> 0]
<1>1. new \in Lists /\ new # Idle /\ new.set = Registered /\ new.age = 0
  BY IdleAssumption DEF Lists, MaxAge, Registered
<1>2. fetch' = [fetch EXCEPT ![g] = new]
  BY DEF Get
<1> HIDE DEF new
<1>3. RegType'
  BY <1>1, <1>2 DEF RegType
<1>4. Registered' = Registered
  BY DEF Registered
<1>5. fetch'[g] = new /\ \A h \in Refreshers : h # g => fetch'[h] = fetch[h]
  BY <1>2 DEF RegType
<1> QED
  BY <1>1, <1>3, <1>4, <1>5 DEF ListInv

LEMMA UpdateListInv ==
  ASSUME RegType, ListInv, NEW g \in Refreshers, UpdateState(g)
  PROVE  RegType' /\ ListInv'
<1>1. /\ fetch[g] \in Lists /\ fetch[g] # Idle
      /\ addrs' = fetch[g] /\ fetch' = [fetch EXCEPT ![g] = Idle]
      /\ UNCHANGED <<key, built, watch, events>>
  BY DEF UpdateState, RegType, etcdVars
<1>2. fetch[g].age \in Nat /\ addrs.age \in Nat
  BY <1>1 DEF RegType, Lists, MaxAge
<1>3. excuse' \in BOOLEAN
  BY DEF UpdateState
<1>4. RegType'
  BY <1>1, <1>3 DEF RegType
<1>5. fetch'[g] = Idle /\ \A h \in Refreshers : h # g => fetch'[h] = fetch[h]
  BY <1>1 DEF RegType
<1>6. Registered' = Registered
  BY <1>1 DEF Registered
<1>7. /\ \A h \in Refreshers : fetch'[h] # Idle /\ fetch'[h].age = 0 => fetch'[h].set = Registered
      /\ addrs'.age = 0 => addrs'.set = Registered
      /\ watch' => built'
  BY <1>1, <1>5 DEF ListInv
<1>8. ASSUME built, ~excuse', fetch[g].age # 0
      PROVE  events \/ \E h \in Refreshers : fetch'[h] # Idle /\ fetch'[h].age = 0
  <2>1. ~excuse /\ addrs.age # 0
    <3>1. ~(fetch[g].age > addrs.age) /\ ~(excuse /\ fetch[g].age > 0)
      BY <1>8, Zenon DEF UpdateState
    <3> QED
      BY <1>2, <1>8, <3>1
  <2> QED
    BY <1>5, <1>8, <2>1 DEF ListInv
<1> QED
  BY <1>1, <1>4, <1>6, <1>7, <1>8 DEF ListInv

LEMMA NextListInv ==
  ASSUME RegType, ListInv, [Next]_vars
  PROVE  RegType' /\ ListInv'
<1>1. ASSUME NoChange PROVE RegType' /\ ListInv'
  BY <1>1 DEF NoChange, RegType, ListInv, Registered
<1>2. ASSUME UNCHANGED regVars PROVE RegType' /\ ListInv'
  BY <1>1, <1>2 DEF regVars, NoChange
<1>3. ASSUME NEW p \in Procs, Put(p) \/ DeleteAnyOwner(p) \/ EndLease(p) PROVE RegType' /\ ListInv'
  BY <1>1, <1>3, ChangeListInv DEF Put, DeleteAnyOwner, EndLease
<1>4. ASSUME NEW p \in Procs, Start(p) PROVE RegType' /\ ListInv'
  BY <1>1, <1>4 DEF Start, Grant
<1>5. ASSUME NEW p \in Procs, RegisterPut(p) \/ UnRegister(p) \/ Revoke(p)
      PROVE  RegType' /\ ListInv'
  BY <1>2, <1>3, <1>5 DEF RegisterPut, UnRegister, Revoke
<1>6. ASSUME NEW p \in Procs, LeaseExpires(p) \/ Partition(p) PROVE RegType' /\ ListInv'
  BY <1>3, <1>6 DEF LeaseExpires, Partition
<1>7. ASSUME NEW p \in Procs,
             \/ RegisterDone(p) \/ PutRefused(p) \/ Listen(p) \/ StopServing(p) \/ Drained(p)
             \/ CloseDeps(p) \/ StartFails(p) \/ TracerFails(p) \/ Call(p) \/ HandlerReturns(p)
             \/ Signal(p) \/ Crash(p)
      PROVE  RegType' /\ ListInv'
  <2>1. UNCHANGED regVars
    BY <1>7 DEF RegisterDone, PutRefused, Listen, StopServing, Drained, CloseDeps, StartFails,
       TracerFails, Call, HandlerReturns, Signal, Crash
  <2> QED
    BY <1>2, <2>1
<1>8. CASE Build
  BY <1>8, GetListInv DEF Build, RegType, Refreshers, etcdVars
<1>9. CASE WatchStarts
  BY <1>9 DEF WatchStarts, RegType, ListInv, Registered, etcdVars
<1>10. CASE WatchEvent
  <2>1. Get("watch") /\ UNCHANGED <<key, addrs, built, watch, excuse>> /\ events' \in BOOLEAN
    BY <1>10 DEF WatchEvent, etcdVars
  <2>2. watch => built
    BY DEF ListInv
  <2> QED
    BY <2>1, <2>2, GetListInv DEF Refreshers, RegType
<1>11. CASE WatchGetFails
  BY <1>11 DEF WatchGetFails, RegType, ListInv, Registered, etcdVars
<1>12. CASE ResolveNow
  <2>1. Get("grpc") /\ UNCHANGED <<key, addrs, built, watch, events, excuse>>
    BY <1>12 DEF ResolveNow, etcdVars
  <2>2. watch => built
    BY DEF ListInv
  <2> QED
    BY <2>1, <2>2, GetListInv DEF Refreshers, RegType
<1>13. CASE ResolverPart \/ Redial \/ ResolverFails
  BY <1>8, <1>9, <1>10, <1>11, <1>12, <1>13, UpdateListInv
     DEF ResolverPart, ResolverNext, Redial, ResolverFails
<1>14. CASE UNCHANGED vars
  BY <1>2, <1>14 DEF vars
<1> QED
  BY <1>4, <1>5, <1>6, <1>7, <1>13, <1>14 DEF Next, Main

\* The resolver: whatever the order in which its two refreshers read the registry
\* and hand over their lists, once both are done and no watch response is due the
\* list is the registry's, unless one of the code's three excuses applies.
THEOREM ListStaysCurrent == Spec => []ListIsCurrent
<1>1. RegType /\ ListInv /\ [Next]_vars => RegType' /\ ListInv'
  BY NextListInv
<1>2. RegType /\ ListInv => ListIsCurrent
  BY DEF RegType, ListInv, ListIsCurrent
<1> QED
  BY InitListInv, <1>1, <1>2, PTL DEF Spec
=============================================================================
