------------------------------ MODULE Services ------------------------------
(***************************************************************************)
(* Service processes from start to exit, against the registry and the      *)
(* gateway's resolver: funds-service's main, and the same wiring as        *)
(* bootstrap.Run.  A process opens its database and its redis client,      *)
(* registers, listens, serves, and on a signal or a server error stops     *)
(* gracefully and runs its deferred calls.  main ends with log.Fatalf when *)
(* a step of its start fails, bootstrap.Run returns.                       *)
(***************************************************************************)
EXTENDS Registry, Sequences, FiniteSets

CONSTANTS Bootstrapped,  \* the processes that run bootstrap.Run
          MaxInflight,   \* bound on the requests in one process
          MaxFaults      \* bound on crashes, partitions and failing calls

ASSUME FlavourAssumption == Bootstrapped \subseteq Procs
ASSUME BoundsAssumption  == MaxInflight \in Nat /\ MaxFaults \in Nat

VARIABLES pc,        \* pc[p]: where p's main goroutine is
          open,      \* open[p]: the dependencies p has open
          listener,  \* listener[p]: the serving goroutine
          ctx,       \* ctx[p]: the root context is not cancelled
          inflight,  \* inflight[p]: requests whose handler runs
          nfault,    \* faults so far
          exposed    \* history: since p put its key its lease has ended, or another
                     \* run at its address has been alive

procVars == <<pc, open, listener, ctx, inflight, nfault, exposed>>
vars == <<regVars, procVars>>

Starting == {"granted", "put"}
Running  == Starting \cup {"up", "stopping", "unregister", "revoke", "closing"}

Init ==
  /\ RegInit
  /\ pc = [p \in Procs |-> "new"]
  /\ open = [p \in Procs |-> {}]
  /\ listener = [p \in Procs |-> "none"]
  /\ ctx = [p \in Procs |-> TRUE]
  /\ inflight = [p \in Procs |-> 0]
  /\ nfault = 0
  /\ exposed = [p \in Procs |-> FALSE]

Goto(p, l) == pc' = [pc EXCEPT ![p] = l]
Fault == nfault < MaxFaults /\ nfault' = nfault + 1

\* The process is gone: its port is free, its handlers and its keepalive end.
Exit(p) ==
  /\ Goto(p, "gone")
  /\ listener' = [listener EXCEPT ![p] = "closed"]
  /\ inflight' = [inflight EXCEPT ![p] = 0]
  /\ open' = [open EXCEPT ![p] = {}]

SharesAddr(q, p) == q # p /\ Addr[q] = Addr[p]

-----------------------------------------------------------------------------
(* Start *)

Deps == {"db", "redis", "etcd"}

\* newSQLDB, newRedis, clientv3.New: each is opened and pinged, and its Close is
\* deferred; then Register's Grant.
Start(p) ==
  /\ pc[p] = "new"
  /\ open' = [open EXCEPT ![p] = Deps]
  /\ Grant(p)
  /\ Goto(p, "granted")
  /\ exposed' = [q \in Procs |-> exposed[q] \/ SharesAddr(q, p)]
  /\ UNCHANGED <<listener, ctx, inflight, nfault>>

\* Register's Put.
RegisterPut(p) ==
  /\ pc[p] = "granted" /\ lease[p]
  /\ Put(p)
  /\ Goto(p, "put")
  /\ exposed' = [exposed EXCEPT ![p] = \E q \in Procs : SharesAddr(q, p) /\ pc[q] \in Running]
  /\ UNCHANGED <<open, listener, ctx, inflight, nfault>>

\* KeepAlive runs, UnRegister is deferred, the server goroutine is started.
RegisterDone(p) ==
  /\ pc[p] = "put"
  /\ Goto(p, "up")
  /\ UNCHANGED <<regVars, open, listener, ctx, inflight, nfault, exposed>>

\* log.Fatalf runs no deferred call; bootstrap.Run returns and closes what it has
\* opened, but UnRegister is not deferred yet.
Abandon(p) ==
  IF p \in Bootstrapped
  THEN Goto(p, "closing") /\ UNCHANGED <<open, listener, inflight>>
  ELSE Exit(p)

\* A step of the start fails, the opening of a dependency included.
StartFails(p) ==
  /\ pc[p] \in {"new"} \cup Starting
  /\ Fault
  /\ Abandon(p)
  /\ UNCHANGED <<regVars, ctx, exposed>>

\* etcd refuses a Put with a lease that has expired.
PutRefused(p) ==
  /\ pc[p] = "granted" /\ ~lease[p]
  /\ Abandon(p)
  /\ UNCHANGED <<regVars, ctx, nfault, exposed>>

\* After Register, main initialises the tracer; its failure is fatal too.
TracerFails(p) ==
  /\ pc[p] = "up" /\ listener[p] = "none" /\ p \notin Bootstrapped
  /\ Fault
  /\ Exit(p)
  /\ UNCHANGED <<regVars, ctx, exposed>>

-----------------------------------------------------------------------------
(* Serving and stopping *)

\* The goroutine listens, after the registration; a port in use is an error on
\* errCh.
Listen(p) ==
  /\ pc[p] = "up" /\ listener[p] = "none"
  /\ listener' = [listener EXCEPT ![p] =
       IF \E q \in Procs : listener[q] = "open" /\ Addr[q] = Addr[p]
       THEN "failed" ELSE "open"]
  /\ UNCHANGED <<regVars, pc, open, ctx, inflight, nfault, exposed>>

\* A client calls an address of its list.
Call(p) ==
  /\ listener[p] = "open" /\ Addr[p] \in addrs.set
  /\ inflight[p] < MaxInflight
  /\ inflight' = [inflight EXCEPT ![p] = @ + 1]
  /\ UNCHANGED <<regVars, pc, open, listener, ctx, nfault, exposed>>

HandlerReturns(p) ==
  /\ inflight[p] > 0
  /\ inflight' = [inflight EXCEPT ![p] = @ - 1]
  /\ UNCHANGED <<regVars, pc, open, listener, ctx, nfault, exposed>>

\* SIGINT or SIGTERM; the root context also ends the keepalive.  Earlier it only
\* makes a step of the start fail.
Signal(p) ==
  /\ pc[p] \in {"put", "up", "stopping"} /\ ctx[p]
  /\ ctx' = [ctx EXCEPT ![p] = FALSE]
  /\ UNCHANGED <<regVars, pc, open, listener, inflight, nfault, exposed>>

\* Mutant of StopServing: Stop instead of GracefulStop.
StopServingAtOnce(p) ==
  /\ pc[p] = "up"
  /\ ~ctx[p] \/ listener[p] = "failed"
  /\ Goto(p, "unregister")
  /\ listener' = [listener EXCEPT ![p] = "closed"]
  /\ ctx' = [ctx EXCEPT ![p] = @ /\ p \in Bootstrapped /\ listener[p] = "failed"]
  /\ UNCHANGED <<regVars, open, inflight, nfault, exposed>>

\* The select of the main goroutine, and GracefulStop up to its wait: nothing new
\* is accepted.  After a server error main cancels the context itself.
StopServing(p) ==
  /\ pc[p] = "up"
  /\ ~ctx[p] \/ listener[p] = "failed"
  /\ Goto(p, "stopping")
  /\ listener' = [listener EXCEPT ![p] = "closed"]
  /\ ctx' = [ctx EXCEPT ![p] = @ /\ p \in Bootstrapped /\ listener[p] = "failed"]
  /\ UNCHANGED <<regVars, open, inflight, nfault, exposed>>

\* GracefulStop returns when the last handler has; there is no deadline.
Drained(p) ==
  /\ pc[p] = "stopping"
  /\ inflight[p] = 0
  /\ Goto(p, "unregister")
  /\ UNCHANGED <<regVars, open, listener, ctx, inflight, nfault, exposed>>

\* The deferred UnRegister: Delete, then Revoke; an error ends it.
UnRegister(p) ==
  /\ pc[p] = "unregister"
  /\ \/ DeleteAnyOwner(p) /\ Goto(p, "revoke") /\ UNCHANGED nfault
     \/ Fault /\ Goto(p, "closing") /\ UNCHANGED regVars
  /\ UNCHANGED <<open, listener, ctx, inflight, exposed>>

Revoke(p) ==
  /\ pc[p] = "revoke"
  /\ \/ EndLease(p) /\ UNCHANGED nfault
     \/ Fault /\ UNCHANGED regVars
  /\ Goto(p, "closing")
  /\ UNCHANGED <<open, listener, ctx, inflight, exposed>>

\* The other deferred calls: etcd, redis and database are closed, and main ends.
CloseDeps(p) ==
  /\ pc[p] = "closing"
  /\ IF open[p] # {} THEN open' = [open EXCEPT ![p] = {}] /\ UNCHANGED <<pc, listener, inflight>>
                    ELSE Exit(p)
  /\ UNCHANGED <<regVars, ctx, nfault, exposed>>

-----------------------------------------------------------------------------
(* Faults and time *)

Crash(p) ==
  /\ pc[p] \in Running
  /\ Fault
  /\ Exit(p)
  /\ UNCHANGED <<regVars, ctx, exposed>>

\* The keepalive goroutine of the client renews while the context of Register
\* and the client live.
KeepAlive(p) ==
  /\ pc[p] \in {"put", "up", "stopping", "unregister", "revoke", "closing"}
  /\ "etcd" \in open[p]
  /\ ctx[p]

\* The lease expires once nobody renews it.
LeaseExpires(p) ==
  /\ lease[p] /\ ~KeepAlive(p)
  /\ EndLease(p)
  /\ exposed' = [exposed EXCEPT ![p] = TRUE]
  /\ UNCHANGED <<pc, open, listener, ctx, inflight, nfault>>

\* The process cannot reach etcd for longer than the TTL.  The closed keepalive
\* channel is not noticed: the process goes on and does not register again.
Partition(p) ==
  /\ lease[p] /\ KeepAlive(p)
  /\ Fault
  /\ EndLease(p)
  /\ exposed' = [exposed EXCEPT ![p] = TRUE]
  /\ UNCHANGED <<pc, open, listener, ctx, inflight>>

ResolverPart == ResolverNext /\ UNCHANGED procVars

\* gRPC calls ResolveNow when a connection is lost or a dial fails.
DeadAddress == \E a \in addrs.set : \A p \in Procs : Addr[p] = a => listener[p] # "open"
Redial == DeadAddress /\ ResolveNow /\ UNCHANGED procVars

\* The gateway cannot reach etcd.
ResolverFails ==
  /\ Fault
  /\ WatchGetFails
  /\ UNCHANGED <<pc, open, listener, ctx, inflight, exposed>>

Main(p) ==
  \/ RegisterPut(p) \/ PutRefused(p)
  \/ RegisterDone(p) \/ Listen(p)
  \/ StopServing(p) \/ Drained(p) \/ UnRegister(p) \/ Revoke(p) \/ CloseDeps(p)

Next ==
  \/ \E p \in Procs :
       \/ Start(p) \/ Main(p) \/ StartFails(p) \/ TracerFails(p)
       \/ Call(p) \/ HandlerReturns(p) \/ Signal(p) \/ Crash(p)
       \/ LeaseExpires(p) \/ Partition(p)
  \/ ResolverPart \/ Redial \/ ResolverFails

Spec == Init /\ [][Next]_vars

\* Processes are scheduled, handlers return, leases expire and gRPC redials.
FairSpec ==
  /\ Spec
  /\ \A p \in Procs : WF_vars(Main(p)) /\ WF_vars(HandlerReturns(p)) /\ WF_vars(LeaseExpires(p))
  /\ WF_vars(Build /\ UNCHANGED procVars) /\ WF_vars(WatchStarts /\ UNCHANGED procVars)
  /\ WF_vars(WatchEvent /\ UNCHANGED procVars)
  /\ \A g \in Refreshers : WF_vars(UpdateState(g) /\ UNCHANGED procVars)
  /\ WF_vars(Redial)

-----------------------------------------------------------------------------
\* A handler never works on a closed database or redis client: the deferred
\* Closes run after GracefulStop, on every way out of main and bootstrap.Run.
HandlersHaveDeps ==
  \A p \in Procs : inflight[p] > 0 => open[p] = Deps

\* A process that serves is in the registry, also when an earlier run at its
\* address died and its lease expires later - unless its own lease ended, or a run
\* at the same address was alive at the same time: a second copy registers before
\* it finds the port in use, and its UnRegister deletes the first one's key.
ServingIsRegistered ==
  \A p \in Procs :
    pc[p] = "up" /\ listener[p] = "open" /\ ctx[p] /\ ~exposed[p] => key[Addr[p]] = p

\* When no refresh is running or due, gRPC's list is the registry's, unless a
\* refresh failed, came too late after another, or the watch began too late.
ListIsCurrent ==
  watch /\ ~events /\ (\A g \in Refreshers : fetch[g] = Idle) /\ ~excuse
    => addrs.set = Registered

\* A dead process leaves the clients' lists: its lease expires and the watch, or
\* a failing dial, brings a new list.
DeadLeaves ==
  \A p \in Procs : pc[p] = "gone" ~>
    \/ Addr[p] \notin addrs.set
    \/ \E q \in Procs \ {p} : Addr[q] = Addr[p] /\ pc[q] \in Running
=============================================================================
