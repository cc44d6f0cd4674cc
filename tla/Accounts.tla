------------------------------ MODULE Accounts ------------------------------
(***************************************************************************)
(* Balance updates end to end: a caller changes the balance with DoOnceTx, *)
(* and when that returns without an error calls UpdateBalance_DoubleDelete *)
(* (whose comment assumes a committed update), while readers and handlers  *)
(* of change events work on the cache.  The caller retries after an error  *)
(* and may die between the commit and the delete.                          *)
(***************************************************************************)
EXTENDS Idempotency, BalanceCache

vars == <<idemVars, cacheVars>>

\* The version of the balance: how many updates the database has committed.
Version == Cardinality(ledger)

\* An update is committed and its caller has not deleted the entry.
Undeleted == \E e \in ledger : req[e.by].pc # "done"

Init == IdemInit /\ CacheInit

IdemPart == IdemNext /\ UNCHANGED cacheVars

CachePart == CacheNext(Version) /\ UNCHANGED idemVars

\* The caller goes on after DoOnceTx returned a result, fresh or replayed.
Invalidate(r) ==
  /\ req[r].pc = "ok"
  /\ Goto(r, "done")
  /\ UpdateBalance_DoubleDelete(Version)
  /\ UNCHANGED <<row, ledger, excl, shared>>

\* The caller dies before it deletes; its client sees an error.
CallerDies(r) ==
  /\ req[r].pc = "ok"
  /\ Goto(r, "error")
  /\ UNCHANGED <<row, ledger, excl, shared, cacheVars>>

Next ==
  \/ IdemPart
  \/ CachePart
  \/ \E r \in Requests : Invalidate(r) \/ CallerDies(r)

Spec == Init /\ [][Next]_vars

\* The database answers, timers fire, entries expire, goroutines are scheduled;
\* nobody has to retry, time out or die.
FairSpec ==
  /\ Spec
  /\ \A r \in Requests : WF_vars(IdemStep(r) /\ UNCHANGED cacheVars)
  /\ \A r \in Requests : WF_vars(Invalidate(r) \/ CallerDies(r))
  /\ WF_vars(Flight(Version) /\ UNCHANGED idemVars)
  /\ WF_vars(EventHandler /\ UNCHANGED idemVars)
  /\ WF_vars((\E v \in timers : SecondDelete(v)) /\ UNCHANGED idemVars)
  /\ WF_vars(Expire /\ UNCHANGED idemVars)

-----------------------------------------------------------------------------
\* DoOnceTx's promise: whatever is retried, aborted, chosen as a deadlock victim
\* or left without a reply, a key's effect is committed at most once, and exactly
\* when the key's row is.
EffectOnce ==
  /\ \A e, f \in ledger : e.key = f.key => e = f
  /\ \A k \in Keys : row[k] # NoRow <=> \E e \in ledger : e.key = k

\* A call that returned a result, fresh or replayed, has its effect in the
\* database and asked for that effect: same key, same parameters.
AnswerIsTrue ==
  \A r \in Requests : req[r].pc \in {"ok", "done"} =>
    \E e \in ledger : e.key = req[r].key /\ e.hash = req[r].hash

\* No second delete is pending, and every update's caller has made its first.
AtRest == timers = {} /\ ~Undeleted

\* Double delete: when every update's caller has deleted and no timer is left, the
\* cache holds the database's version or nothing, whatever readers and handlers are
\* in the middle of, unless the newest version's timer has died with its process, or
\* a read or an event that is older than an update set the entry after that update's
\* second delete.
FreshAtRest == AtRest /\ Version \notin lost /\ ~late => cache \in {NoEntry, Version}

\* Expiry repairs what the deletes and events leave: in the end the cache is fresh.
EventuallyFresh == <>[](cache \in {NoEntry, Version})
=============================================================================
