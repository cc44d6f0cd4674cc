------------------------------ MODULE Registry ------------------------------
(***************************************************************************)
(* The service registry in etcd and the gRPC resolver that reads it.       *)
(* Every run of a service process is a member of Procs; its instance ID is *)
(* name and address, so two runs at one address share a key.  The resolver *)
(* refreshes its address list with a Get outside its lock, from the watch  *)
(* goroutine and from Build and ResolveNow.                                *)
(***************************************************************************)
EXTENDS Naturals

CONSTANTS Procs,    \* runs of the service
          Addr,     \* Addr[p]: the address p is configured with
          NoOwner,  \* no key
          Idle      \* no refresh in progress

ASSUME AddrAssumption == NoOwner \notin Procs /\ DOMAIN Addr = Procs

VARIABLES key,     \* key[a]: the run whose lease the key of address a hangs on
          lease,   \* lease[p]: p's lease exists
          built,   \* the resolver has been built
          watch,   \* its watch has reached etcd
          events,  \* a watch response is waiting; it may carry several changes
          fetch,   \* fetch[g]: what refresher g got, and its age in changes
          addrs,   \* the addresses handed to gRPC, and their age
          excuse   \* history: the list may be old because a refresh failed, was
                   \* overtaken by a newer one, or a change came before the watch

regVars == <<key, lease, built, watch, events, fetch, addrs, excuse>>
etcdVars == <<key, lease>>

Addrs == {Addr[p] : p \in Procs}
Refreshers == {"watch", "grpc"}

\* What a Get under the prefix returns; values that do not decode are skipped.
Registered == {a \in Addrs : key[a] # NoOwner}

RegInit ==
  /\ key = [a \in Addrs |-> NoOwner]
  /\ lease = [p \in Procs |-> FALSE]
  /\ built = FALSE /\ watch = FALSE /\ events = FALSE
  /\ fetch = [g \in Refreshers |-> Idle]
  /\ addrs = [set |-> {}, age |-> 0]
  /\ excuse = FALSE

\* Ages stop at MaxAge: it is enough to tell older from newer and current.
MaxAge == 2
Lists  == [set : SUBSET Addrs, age : 0..MaxAge]
ASSUME IdleAssumption == Idle \notin Lists

Aged(s) == IF s = Idle THEN s
           ELSE [s EXCEPT !.age = IF @ = MaxAge THEN @ ELSE @ + 1]

\* A change of key a: every list read before is older now and, if the watch is
\* there, a response is on its way.
Change(a, owner) ==
  /\ key' = [key EXCEPT ![a] = owner]
  /\ fetch' = [g \in Refreshers |-> Aged(fetch[g])]
  /\ addrs' = Aged(addrs)
  /\ events' = (events \/ watch)
  /\ excuse' = (excuse \/ (built /\ ~watch))
  /\ UNCHANGED <<built, watch>>

NoChange == UNCHANGED <<key, built, watch, events, fetch, addrs, excuse>>

Grant(p) == lease' = [lease EXCEPT ![p] = TRUE] /\ NoChange

Put(p) == Change(Addr[p], p) /\ UNCHANGED lease

\* UnRegister's Delete: by key, whoever put it.
DeleteAnyOwner(p) ==
  /\ IF key[Addr[p]] = NoOwner THEN NoChange ELSE Change(Addr[p], NoOwner)
  /\ UNCHANGED lease

\* Mutant of EndLease: the key goes whoever put it last.
EndLeaseAnyKey(p) ==
  /\ lease' = [lease EXCEPT ![p] = FALSE]
  /\ IF key[Addr[p]] # NoOwner THEN Change(Addr[p], NoOwner) ELSE NoChange

\* A lease is revoked or expires: the key goes if it still hangs on it.
EndLease(p) ==
  /\ lease' = [lease EXCEPT ![p] = FALSE]
  /\ IF key[Addr[p]] = p THEN Change(Addr[p], NoOwner) ELSE NoChange

-----------------------------------------------------------------------------
(* The resolver *)

\* updateAddresses up to the Get.
Get(g) == fetch' = [fetch EXCEPT ![g] = [set |-> Registered, age |-> 0]]

\* Build starts the watch goroutine and refreshes for the first time.
Build ==
  /\ ~built
  /\ built' = TRUE
  /\ Get("grpc")
  /\ UNCHANGED <<etcdVars, watch, events, addrs, excuse>>

WatchStarts ==
  /\ built /\ ~watch
  /\ watch' = TRUE
  /\ UNCHANGED <<etcdVars, built, events, fetch, addrs, excuse>>

\* Mutant of WatchEvent: the response is taken and dropped.
WatchEventNoRefresh ==
  /\ events
  /\ events' = FALSE
  /\ UNCHANGED <<etcdVars, built, watch, fetch, addrs, excuse>>

\* The watch goroutine takes a response and refreshes.
WatchEvent ==
  /\ events
  /\ fetch["watch"] = Idle
  /\ events' = FALSE
  /\ Get("watch")
  /\ UNCHANGED <<etcdVars, built, watch, addrs, excuse>>

\* The Get after a response fails; the error is dropped, the response is gone.
WatchGetFails ==
  /\ events
  /\ events' = FALSE
  /\ excuse' = TRUE
  /\ UNCHANGED <<etcdVars, built, watch, fetch, addrs>>

\* Mutant of ResolveNow: left empty.
ResolveNowStub == UNCHANGED regVars

\* gRPC asks for a new list.  When the Get fails nothing changes, and it asks again.
ResolveNow ==
  /\ built
  /\ fetch["grpc"] = Idle
  /\ Get("grpc")
  /\ UNCHANGED <<etcdVars, built, watch, events, addrs, excuse>>

\* The rest of updateAddresses: the new list replaces the old one, whichever of
\* the two was read later.
UpdateState(g) ==
  /\ fetch[g] # Idle
  /\ addrs' = fetch[g]
  /\ fetch' = [fetch EXCEPT ![g] = Idle]
  /\ excuse' = (fetch[g].age > addrs.age \/ (excuse /\ fetch[g].age > 0))
  /\ UNCHANGED <<etcdVars, built, watch, events>>

ResolverNext ==
  \/ Build \/ WatchStarts \/ WatchEvent
  \/ \E g \in Refreshers : UpdateState(g)
=============================================================================
