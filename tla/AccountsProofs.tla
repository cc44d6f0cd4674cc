--------------------------- MODULE AccountsProofs ---------------------------
(***************************************************************************)
(* What DoOnceTx and the double delete promise, for any number of callers, *)
(* keys, readers and events.  The idempotency part rests on who holds a    *)
(* key's row exclusively; the cache part on the timer that the last delete *)
(* of the newest version has left behind.                                  *)
(***************************************************************************)
EXTENDS Accounts, FiniteSetTheorems, TLAPS

\* The states of a call between its INSERT and its commit.
Working == {"fn", "update", "commit"}

Effect == [key : Keys, hash : Hashes, by : Requests, try : Nat]

TypeOK ==
  /\ row \in [Keys -> Row \cup {NoRow}]
  /\ ledger \in SUBSET Effect
  /\ req \in [Requests -> Req]
  /\ excl \in [Keys -> SUBSET Requests]
  /\ shared \in [Keys -> SUBSET Requests]

\* A call that has inserted its key holds the row alone, and nobody has committed
\* a row for that key before.
HoldsKey ==
  \A r \in Requests : req[r].pc \in Working =>
    excl[req[r].key] = {r} /\ row[req[r].key] = NoRow

\* A committed row tells the parameters of an effect of its key.
RowTellsEffect ==
  \A k \in Keys : row[k] # NoRow =>
    \E e \in ledger : e.key = k /\ e.hash = row[k].hash

IdemInv == TypeOK /\ HoldsKey /\ RowTellsEffect /\ EffectOnce /\ AnswerIsTrue

LEMMA InitIdemInv == Init => IdemInv
<1> SUFFICES ASSUME Init PROVE IdemInv
  OBVIOUS
<1>1. TypeOK
  <2>1. "idle" \in Places /\ 0 \in 0..MaxTries
    BY TriesAssumption DEF Places
  <2>2. req \in [Requests -> Req]
    BY <2>1 DEF Init, IdemInit, Req
  <2> QED
    BY <2>2 DEF Init, IdemInit, TypeOK
<1>2. \A r \in Requests : req[r].pc = "idle"
  BY DEF Init, IdemInit
<1> QED
  BY <1>1, <1>2 DEF Init, IdemInit, IdemInv, HoldsKey, RowTellsEffect, EffectOnce, AnswerIsTrue,
     Working


\* A call that moves on keeps its key and its parameters.
LEMMA MovedOn ==
  ASSUME TypeOK, NEW r \in Requests, NEW p \in Places, req' = [req EXCEPT ![r].pc = p]
  PROVE  /\ req' \in [Requests -> Req] /\ req'[r].pc = p
         /\ req'[r].key = req[r].key /\ req'[r].hash = req[r].hash
         /\ \A s \in Requests \ {r} : req'[s] = req[s]
<1>1. req[r] \in Req /\ req'[r] = [req[r] EXCEPT !.pc = p]
  BY DEF TypeOK
<1>2. req'[r] \in Req /\ req'[r].pc = p /\ req'[r].key = req[r].key /\ req'[r].hash = req[r].hash
  BY <1>1 DEF Req
<1> QED
  BY <1>1, <1>2 DEF TypeOK

LEMMA Begun ==
  ASSUME TypeOK, NEW r \in Requests, BeginTx(r)
  PROVE  /\ req' \in [Requests -> Req] /\ req'[r].pc = "insert"
         /\ req'[r].key = req[r].key /\ req'[r].hash = req[r].hash
         /\ \A s \in Requests \ {r} : req'[s] = req[s]
<1> DEFINE n == req[r].tries + 1
<1>1. req[r] \in Req /\ req'[r] = [req[r] EXCEPT !.pc = "insert", !.tries = n]
  BY DEF TypeOK, BeginTx
<1>2. n \in 0..MaxTries
  BY <1>1, TriesAssumption DEF BeginTx, Req
<1> HIDE DEF n
<1>3. "insert" \in Places
  BY DEF Places, Waiting
<1>4. req'[r] \in Req /\ req'[r].pc = "insert" /\ req'[r].key = req[r].key /\ req'[r].hash = req[r].hash
  BY <1>1, <1>2, <1>3 DEF Req
<1> QED
  BY <1>1, <1>4 DEF TypeOK, BeginTx

\* A step that leaves rows and effects alone, and after which r neither holds a
\* key it did not hold nor has an answer it did not have.
LEMMA QuietStep ==
  ASSUME IdemInv, NEW r \in Requests,
         req' \in [Requests -> Req],
         req'[r].key = req[r].key, req'[r].hash = req[r].hash,
         \A s \in Requests \ {r} : req'[s] = req[s],
         req'[r].pc \in Working => req[r].pc \in Working /\ excl' = excl,
         req'[r].pc \in {"ok", "done"} => req[r].pc \in {"ok", "done"},
         UNCHANGED <<row, ledger>>,
         excl' \in [Keys -> SUBSET Requests], shared' \in [Keys -> SUBSET Requests],
         \A k \in Keys : excl'[k] = excl[k] \/ excl'[k] = excl[k] \ {r}
  PROVE  IdemInv'
<1> USE DEF IdemInv
<1>1. TypeOK'
  BY DEF TypeOK
<1>2. HoldsKey'
  <2> SUFFICES ASSUME NEW s \in Requests, req'[s].pc \in Working
               PROVE  excl'[req'[s].key] = {s} /\ row'[req'[s].key] = NoRow
    BY DEF HoldsKey
  <2>1. req'[s].key = req[s].key /\ req[s].key \in Keys /\ req[s].pc \in Working
    BY DEF TypeOK, Req
  <2>2. excl[req[s].key] = {s} /\ row[req[s].key] = NoRow
    BY <2>1 DEF HoldsKey
  <2>3. CASE s = r
    BY <2>1, <2>2, <2>3
  <2>4. CASE s # r
    BY <2>1, <2>2, <2>4
  <2> QED
    BY <2>3, <2>4
<1>3. RowTellsEffect'
  BY DEF RowTellsEffect
<1>4. EffectOnce'
  BY DEF EffectOnce
<1>5. AnswerIsTrue'
  <2> SUFFICES ASSUME NEW s \in Requests, req'[s].pc \in {"ok", "done"}
               PROVE  \E e \in ledger : e.key = req'[s].key /\ e.hash = req'[s].hash
    BY DEF AnswerIsTrue
  <2>1. /\ req'[s].key = req[s].key /\ req'[s].hash = req[s].hash
        /\ req[s].pc \in {"ok", "done"}
    OBVIOUS
  <2> QED
    BY <2>1 DEF AnswerIsTrue
<1> QED
  BY <1>1, <1>2, <1>3, <1>4, <1>5

\* Releasing takes nothing from anybody but r.
LEMMA Released ==
  ASSUME TypeOK, NEW r \in Requests, Release(r)
  PROVE  /\ excl' \in [Keys -> SUBSET Requests] /\ shared' \in [Keys -> SUBSET Requests]
         /\ \A k \in Keys : excl'[k] = excl[k] \ {r}
BY DEF TypeOK, Release

\* A rollback returns without an answer, or from the row of the key.
LEMMA ReturnStep ==
  ASSUME IdemInv, NEW r \in Requests, NEW p \in Errors \cup {"selectAuto"}, Return(r, p)
  PROVE  IdemInv'
<1>1. p \in Places /\ p \notin Working /\ p \notin {"ok", "done"}
  BY DEF Places, Errors, Working, Waiting
<1>2. /\ req' \in [Requests -> Req] /\ req'[r].pc = p
      /\ req'[r].key = req[r].key /\ req'[r].hash = req[r].hash
      /\ \A s \in Requests \ {r} : req'[s] = req[s]
  BY <1>1, MovedOn DEF Return, Goto, IdemInv
<1>3. /\ excl' \in [Keys -> SUBSET Requests] /\ shared' \in [Keys -> SUBSET Requests]
      /\ \A k \in Keys : excl'[k] = excl[k] \ {r}
  BY Released DEF Return, IdemInv
<1> QED
  BY <1>1, <1>2, <1>3, QuietStep DEF Return

\* A statement that goes on without new locks.
LEMMA MoveStep ==
  ASSUME IdemInv, NEW r \in Requests, NEW p \in Places, Goto(r, p),
         p \in Working => req[r].pc \in Working,
         p \in {"ok", "done"} => req[r].pc \in {"ok", "done"},
         UNCHANGED <<row, ledger, excl>>, shared' \in [Keys -> SUBSET Requests]
  PROVE  IdemInv'
<1>1. /\ req' \in [Requests -> Req] /\ req'[r].pc = p
      /\ req'[r].key = req[r].key /\ req'[r].hash = req[r].hash
      /\ \A s \in Requests \ {r} : req'[s] = req[s]
  BY MovedOn DEF Goto, IdemInv
<1>2. excl' \in [Keys -> SUBSET Requests] /\ \A k \in Keys : excl'[k] = excl[k]
  BY DEF IdemInv, TypeOK
<1> QED
  BY <1>1, <1>2, QuietStep

LEMMA InsertRowStep ==
  ASSUME IdemInv, NEW r \in Requests, InsertRow(r)
  PROVE  IdemInv'
<1> DEFINE k == req[r].key
<1>1. k \in Keys /\ req[r].pc \notin {"ok", "done"}
  BY DEF InsertRow, IdemInv, TypeOK, Req
<1>2. /\ req' \in [Requests -> Req] /\ req'[r].pc = "fn"
      /\ req'[r].key = req[r].key /\ req'[r].hash = req[r].hash
      /\ \A s \in Requests \ {r} : req'[s] = req[s]
  <2>1. "fn" \in Places
    BY DEF Places
  <2> QED
    BY <2>1, MovedOn DEF InsertRow, Goto, IdemInv
<1>3. /\ row[k] = NoRow /\ (excl[k] \cup shared[k]) \subseteq {r}
      /\ excl' = [excl EXCEPT ![k] = {r}]
      /\ UNCHANGED <<row, ledger, shared>>
  BY DEF InsertRow
<1> USE DEF IdemInv
<1>4. TypeOK'
  BY <1>1, <1>2, <1>3 DEF TypeOK
<1>5. HoldsKey'
  <2> SUFFICES ASSUME NEW s \in Requests, req'[s].pc \in Working
               PROVE  excl'[req'[s].key] = {s} /\ row'[req'[s].key] = NoRow
    BY DEF HoldsKey
  <2>1. CASE s = r
    BY <1>1, <1>2, <1>3, <2>1 DEF TypeOK
  <2>2. CASE s # r
    <3>1. req'[s] = req[s] /\ excl[req[s].key] = {s} /\ row[req[s].key] = NoRow
      BY <1>2, <2>2 DEF HoldsKey
    <3>2. req[s].key # k
      BY <1>3, <2>2, <3>1
    <3> QED
      BY <1>3, <3>1, <3>2 DEF TypeOK, Req
  <2> QED
    BY <2>1, <2>2
<1>6. RowTellsEffect' /\ EffectOnce'
  BY <1>3 DEF RowTellsEffect, EffectOnce
<1>7. AnswerIsTrue'
  BY <1>2, <1>3 DEF AnswerIsTrue
<1> QED
  BY <1>4, <1>5, <1>6, <1>7

LEMMA SelectStep ==
  ASSUME IdemInv, NEW r \in Requests, SelectForUpdate(r)
  PROVE  IdemInv'
<1> DEFINE k == req[r].key
           a == Answer(r, row[k])
<1>1. k \in Keys /\ Return(r, a)
  BY DEF SelectForUpdate, IdemInv, TypeOK, Req
<1>2. a \in Errors \cup {"ok"}
  BY DEF Answer, Errors
<1>3. CASE a \in Errors
  BY <1>1, <1>3, ReturnStep
<1>4. CASE a = "ok"
  <2>1. row[k] # NoRow /\ row[k].hash = req[r].hash
    BY <1>4 DEF Answer
  <2>2. "ok" \in Places /\ "ok" \notin Working
    BY DEF Places, Working
  <2>3. /\ req' \in [Requests -> Req] /\ req'[r].pc = "ok"
        /\ req'[r].key = req[r].key /\ req'[r].hash = req[r].hash
        /\ \A s \in Requests \ {r} : req'[s] = req[s]
    BY <1>1, <1>4, <2>2, MovedOn DEF Return, Goto, IdemInv
  <2>4. /\ excl' \in [Keys -> SUBSET Requests] /\ shared' \in [Keys -> SUBSET Requests]
        /\ \A j \in Keys : excl'[j] = excl[j] \ {r}
        /\ UNCHANGED <<row, ledger>>
    BY <1>1, Released DEF Return, IdemInv
  <2> USE DEF IdemInv
  <2>5. TypeOK'
    BY <2>3, <2>4 DEF TypeOK
  <2>6. HoldsKey'
    <3> SUFFICES ASSUME NEW s \in Requests, req'[s].pc \in Working
                 PROVE  excl'[req'[s].key] = {s} /\ row'[req'[s].key] = NoRow
      BY DEF HoldsKey
    <3>1. s # r /\ req'[s] = req[s] /\ req[s].key \in Keys
      BY <2>2, <2>3 DEF TypeOK, Req
    <3>2. excl[req[s].key] = {s} /\ row[req[s].key] = NoRow
      BY <3>1 DEF HoldsKey
    <3> QED
      BY <2>4, <3>1, <3>2
  <2>7. RowTellsEffect' /\ EffectOnce'
    BY <2>4 DEF RowTellsEffect, EffectOnce
  <2>8. \E e \in ledger : e.key = k /\ e.hash = req[r].hash
    BY <1>1, <2>1 DEF RowTellsEffect
  <2>9. AnswerIsTrue'
    <3> SUFFICES ASSUME NEW s \in Requests, req'[s].pc \in {"ok", "done"}
                 PROVE  \E e \in ledger : e.key = req'[s].key /\ e.hash = req'[s].hash
      BY <2>4 DEF AnswerIsTrue
    <3>1. CASE s = r
      BY <2>3, <2>8, <3>1
    <3>2. CASE s # r
      BY <2>3, <3>2 DEF AnswerIsTrue
    <3> QED
      BY <3>1, <3>2
  <2> QED
    BY <2>5, <2>6, <2>7, <2>9
<1> QED
  BY <1>2, <1>3, <1>4

LEMMA CommitStep ==
  ASSUME IdemInv, NEW r \in Requests, Commit(r)
  PROVE  IdemInv'
<1> DEFINE k == req[r].key
           h == req[r].hash
           w == [hash |-> h, resp |-> h \notin Unencodable]
           e == [key |-> k, hash |-> h, by |-> r, try |-> req[r].tries]
<1>1. /\ k \in Keys /\ h \in Hashes /\ req[r].tries \in Nat
      /\ w \in Row /\ e \in Effect
  BY TriesAssumption DEF IdemInv, TypeOK, Req, Row, Effect
<1>2. /\ row' = [row EXCEPT ![k] = w] /\ ledger' = ledger \cup {e}
      /\ req[r].pc = "commit"
  BY DEF Commit
<1>3. excl[k] = {r} /\ row[k] = NoRow
  BY <1>2 DEF IdemInv, HoldsKey, Working
<1>4. PICK p \in {"ok", "error"} : Goto(r, p)
  BY DEF Commit
<1>5. /\ req' \in [Requests -> Req] /\ req'[r].pc = p
      /\ req'[r].key = k /\ req'[r].hash = h
      /\ \A s \in Requests \ {r} : req'[s] = req[s]
  <2>1. p \in Places
    BY DEF Places, Errors
  <2> QED
    BY <1>4, <2>1, MovedOn DEF Goto, IdemInv
<1>6. /\ excl' \in [Keys -> SUBSET Requests] /\ shared' \in [Keys -> SUBSET Requests]
      /\ \A j \in Keys : excl'[j] = excl[j] \ {r}
  BY Released DEF Commit, IdemInv
<1>7. /\ w # NoRow /\ w.hash = h /\ e.key = k /\ e.hash = h
      /\ row'[k] = w /\ \A j \in Keys \ {k} : row'[j] = row[j]
  BY <1>1, <1>2, NoRowAssumption DEF IdemInv, TypeOK
<1> HIDE DEF w, e, h
<1> USE DEF IdemInv
<1>8. TypeOK'
  BY <1>1, <1>2, <1>5, <1>6 DEF TypeOK
<1>9. HoldsKey'
  <2> SUFFICES ASSUME NEW s \in Requests, req'[s].pc \in Working
               PROVE  excl'[req'[s].key] = {s} /\ row'[req'[s].key] = NoRow
    BY DEF HoldsKey
  <2>1. s # r /\ req'[s] = req[s] /\ req[s].key \in Keys
    BY <1>5 DEF Working, TypeOK, Req
  <2>2. excl[req[s].key] = {s} /\ row[req[s].key] = NoRow
    BY <2>1 DEF HoldsKey
  <2>3. req[s].key # k
    BY <1>3, <2>1, <2>2
  <2> QED
    BY <1>6, <1>7, <2>1, <2>2, <2>3
<1>10. RowTellsEffect'
  BY <1>2, <1>7 DEF RowTellsEffect
<1>11. EffectOnce'
  <2>1. \A f \in ledger : f.key # k
    BY <1>1, <1>3 DEF EffectOnce, TypeOK, Effect
  <2>2. \A f, g \in ledger' : f.key = g.key => f = g
    BY <1>2, <1>7, <2>1 DEF EffectOnce
  <2>3. \A j \in Keys : row'[j] # NoRow <=> \E f \in ledger' : f.key = j
    BY <1>2, <1>7, <2>1 DEF EffectOnce
  <2> QED
    BY <2>2, <2>3 DEF EffectOnce
<1>12. AnswerIsTrue'
  <2> SUFFICES ASSUME NEW s \in Requests, req'[s].pc \in {"ok", "done"}
               PROVE  \E f \in ledger' : f.key = req'[s].key /\ f.hash = req'[s].hash
    BY DEF AnswerIsTrue
  <2>1. CASE s = r
    BY <1>2, <1>5, <1>7, <2>1
  <2>2. CASE s # r
    BY <1>2, <1>5, <2>2 DEF AnswerIsTrue
  <2> QED
    BY <2>1, <2>2
<1> QED
  BY <1>8, <1>9, <1>10, <1>11, <1>12

LEMMA NextIdemInv ==
  ASSUME IdemInv, [Next]_vars
  PROVE  IdemInv'
<1> USE DEF IdemInv
<1>0. excl \in [Keys -> SUBSET Requests] /\ shared \in [Keys -> SUBSET Requests]
  BY DEF TypeOK
<1>1. ASSUME UNCHANGED idemVars PROVE IdemInv'
  BY <1>1 DEF idemVars, TypeOK, HoldsKey, RowTellsEffect, EffectOnce, AnswerIsTrue
<1>2. ASSUME NEW r \in Requests, BeginTx(r) PROVE IdemInv'
  <2>1. /\ "insert" \notin Working /\ "insert" \notin {"ok", "done"}
    BY DEF Working
  <2>2. UNCHANGED <<row, ledger, excl, shared>>
    BY <1>2 DEF BeginTx
  <2> QED
    BY <1>0, <1>2, <2>1, <2>2, Begun, QuietStep
<1>3. ASSUME NEW r \in Requests, InsertWaits(r) PROVE IdemInv'
  BY <1>0, <1>3, MoveStep DEF InsertWaits, Places, Waiting, Working
<1>4. ASSUME NEW r \in Requests, InsertShared(r) PROVE IdemInv'
  <2>1. shared' \in [Keys -> SUBSET Requests] /\ UNCHANGED <<row, ledger, excl>>
    BY <1>0, <1>4 DEF InsertShared
  <2>2. Goto(r, "insertX") \/ Goto(r, "select")
    BY <1>4 DEF InsertShared
  <2> QED
    BY <2>1, <2>2, MoveStep DEF Places, Waiting, Working
<1>5. ASSUME NEW r \in Requests, DeadlockVictim(r) PROVE IdemInv'
  BY <1>5, ReturnStep DEF DeadlockVictim, Errors
<1>6. ASSUME NEW r \in Requests, LockWaitTimeout(r) PROVE IdemInv'
  <2>1. CASE Return(r, "error")
    BY <2>1, ReturnStep DEF Errors
  <2>2. CASE Goto(r, "select") /\ UNCHANGED <<row, ledger, excl, shared>>
    BY <1>0, <2>2, MoveStep DEF Places, Waiting, Working
  <2> QED
    BY <1>6, <2>1, <2>2 DEF LockWaitTimeout
<1>7. ASSUME NEW r \in Requests, RunFn(r) \/ MarkCommitted(r) PROVE IdemInv'
  <2>1. CASE Return(r, "error")
    BY <2>1, ReturnStep DEF Errors
  <2>2. ASSUME NEW p \in {"update", "commit"}, req[r].pc \in {"fn", "update"}, Goto(r, p),
               UNCHANGED <<row, ledger, excl, shared>>
        PROVE  IdemInv'
    BY <1>0, <2>2, MoveStep DEF Places, Working
  <2> QED
    BY <1>7, <2>1, <2>2 DEF RunFn, MarkCommitted
<1>8. ASSUME NEW r \in Requests, Abort(r) PROVE IdemInv'
  BY <1>8, ReturnStep DEF Abort, Errors
<1>9. ASSUME NEW r \in Requests, Invalidate(r) \/ CallerDies(r) PROVE IdemInv'
  <2>1. UNCHANGED <<row, ledger, excl, shared>> /\ req[r].pc = "ok"
    BY <1>9 DEF Invalidate, CallerDies
  <2>2. Goto(r, "done") \/ Goto(r, "error")
    BY <1>9 DEF Invalidate, CallerDies
  <2> QED
    BY <1>0, <2>1, <2>2, MoveStep DEF Places, Errors, Working
<1>10. CASE IdemNext
  BY <1>2, <1>3, <1>4, <1>5, <1>6, <1>7, <1>8, <1>10, InsertRowStep, SelectStep, CommitStep
     DEF IdemNext, IdemStep
<1> QED
  BY <1>1, <1>9, <1>10 DEF Next, vars, IdemPart, CachePart, idemVars

\* Whatever is retried, aborted or rolled back, an effect happens once per key and
\* exactly when the key's row is committed (DoOnceTx).
THEOREM EffectsHappenOnce == Spec => []EffectOnce
<1>1. IdemInv /\ [Next]_vars => IdemInv'
  BY NextIdemInv
<1>2. IdemInv => EffectOnce
  BY DEF IdemInv
<1> QED
  BY InitIdemInv, <1>1, <1>2, PTL DEF Spec

\* A caller that got a result, fresh or replayed, has its own effect in the database.
THEOREM AnswersAreTrue == Spec => []AnswerIsTrue
<1>1. IdemInv /\ [Next]_vars => IdemInv'
  BY NextIdemInv
<1>2. IdemInv => AnswerIsTrue
  BY DEF IdemInv
<1> QED
  BY InitIdemInv, <1>1, <1>2, PTL DEF Spec

-----------------------------------------------------------------------------
(* The cache *)

\* Everything that is cached, read, announced or due for deletion is a version the
\* database has had.
Flights == [stage : {"none", "check", "read", "set"}, val : Nat \cup {NoEntry}]
KnownVersions ==
  /\ IsFiniteSet(ledger)
  /\ flight \in Flights
  /\ cache \in 0..Version \cup {NoEntry}
  /\ flight.stage = "set" => flight.val \in 0..Version
  /\ handler \in [Handlers -> [v : 0..Version \cup {NoEntry}, ok : BOOLEAN]]
  /\ \A h \in Handlers : handler[h] # NoHandler => handler[h].v \in 0..Version
  /\ timers \subseteq 0..Version
  /\ fired \in 0..Version
  /\ late \in BOOLEAN

\* Once every update's caller has deleted, the second delete of the newest version
\* is due or done, or has died with its process.
NewestDeleted == ~Undeleted => fired = Version \/ Version \in timers \/ Version \in lost

\* An entry that was not set too late is no older than the last second delete.
NotOlderThanFired == ~late /\ cache # NoEntry => cache >= fired

CacheInv == KnownVersions /\ NewestDeleted /\ NotOlderThanFired

LEMMA InitCacheInv == Init => CacheInv
<1> SUFFICES ASSUME Init PROVE CacheInv
  OBVIOUS
<1>1. IsFiniteSet(ledger) /\ Version = 0
  BY FS_EmptySet DEF Init, IdemInit, Version
<1>2. KnownVersions
  <2>1. /\ NoHandler \in [v : 0..Version \cup {NoEntry}, ok : BOOLEAN]
        /\ NoFlight \in Flights /\ NoFlight.stage # "set"
    BY DEF NoHandler, NoFlight, Flights
  <2>2. handler \in [Handlers -> [v : 0..Version \cup {NoEntry}, ok : BOOLEAN]]
        /\ \A h \in Handlers : handler[h] = NoHandler
    BY <2>1 DEF Init, CacheInit
  <2>3. /\ cache = NoEntry /\ flight = NoFlight /\ timers = {} /\ fired = 0
        /\ late \in BOOLEAN
    BY DEF Init, CacheInit
  <2> QED
    BY <1>1, <2>1, <2>2, <2>3 DEF KnownVersions
<1> QED
  BY <1>1, <1>2 DEF Init, CacheInit, CacheInv, NewestDeleted, NotOlderThanFired

\* The version never decreases, and only a commit changes it.
LEMMA VersionGrows ==
  ASSUME IdemInv, CacheInv, [Next]_vars
  PROVE  /\ IsFiniteSet(ledger') /\ Version \in Nat /\ Version' \in Nat /\ Version <= Version'
         /\ ledger' = ledger => Version' = Version
<1>1. IsFiniteSet(ledger) /\ Version \in Nat
  BY FS_CardinalityType DEF CacheInv, KnownVersions, Version
<1>2. ledger' = ledger \/ \E e : ledger' = ledger \cup {e}
  BY DEF Next, vars, IdemPart, CachePart, IdemNext, IdemStep, BeginTx, InsertRow, InsertWaits,
     InsertShared, SelectForUpdate, DeadlockVictim, LockWaitTimeout, RunFn, MarkCommitted, Commit,
     Abort, Return, Invalidate, CallerDies, idemVars
<1>3. CASE ledger' = ledger
  BY <1>1, <1>3 DEF Version
<1>4. ASSUME NEW e, ledger' = ledger \cup {e}
      PROVE  IsFiniteSet(ledger') /\ Version' \in Nat /\ Version <= Version'
  BY <1>1, <1>4, FS_AddElement DEF Version
<1> QED
  BY <1>1, <1>2, <1>3, <1>4 DEF Version

\* A step of DoOnceTx leaves the cache alone; if it commits, the committing call has
\* still to delete.
LEMMA IdemPartCacheInv ==
  ASSUME IdemInv, CacheInv, IdemPart
  PROVE  CacheInv'
<1>1. [Next]_vars
  BY DEF Next
<1>2. /\ IsFiniteSet(ledger') /\ Version \in Nat /\ Version' \in Nat /\ Version <= Version'
      /\ ledger' = ledger => Version' = Version
  BY <1>1, VersionGrows
<1>3. UNCHANGED cacheVars
  BY DEF IdemPart
<1>4. KnownVersions'
  BY <1>2, <1>3 DEF CacheInv, KnownVersions, cacheVars
<1>5. NotOlderThanFired'
  BY <1>3 DEF CacheInv, NotOlderThanFired, cacheVars
<1>6. \/ \E r \in Requests : Commit(r)
      \/ ledger' = ledger /\ \A r \in Requests : req[r].pc # "done" => req'[r].pc # "done"
  <2>1. PICK r \in Requests : BeginTx(r) \/ IdemStep(r) \/ LockWaitTimeout(r) \/ Abort(r)
    BY DEF IdemPart, IdemNext
  <2>2. CASE Commit(r)
    BY <2>2
  <2>3. CASE BeginTx(r)
    BY <2>3, Begun DEF BeginTx, IdemInv
  <2>4. ASSUME NEW p \in Places, p # "done", Goto(r, p), ledger' = ledger
        PROVE  ledger' = ledger /\ \A s \in Requests : req[s].pc # "done" => req'[s].pc # "done"
    BY <2>4, MovedOn DEF Goto, IdemInv
  <2>5. Answer(r, row[req[r].key]) \in {"ok", "error", "conflict", "inProgress"}
    BY DEF Answer
  <2>6. CASE ~Commit(r) /\ ~BeginTx(r)
    <3>1. \E p \in Places : p # "done" /\ Goto(r, p) /\ ledger' = ledger
      BY <2>1, <2>5, <2>6 DEF IdemStep, InsertRow, InsertWaits, InsertShared, SelectForUpdate,
         DeadlockVictim, LockWaitTimeout, RunFn, MarkCommitted, Abort, Return, Places, Waiting,
         Errors
    <3> QED
      BY <2>4, <3>1
  <2> QED
    BY <2>2, <2>3, <2>6
<1>7. ASSUME NEW r \in Requests, Commit(r) PROVE Undeleted'
  <2>1. PICK p \in {"ok", "error"} : Goto(r, p)
    BY <1>7 DEF Commit
  <2>2. req'[r].pc = p
    BY <2>1, MovedOn DEF Goto, IdemInv, Places, Errors
  <2>3. \E e \in ledger' : e.by = r
    <3> DEFINE e == [key |-> req[r].key, hash |-> req[r].hash, by |-> r, try |-> req[r].tries]
    <3>1. e \in ledger' /\ e.by = r
      BY <1>7 DEF Commit
    <3> QED
      BY <3>1
  <2> QED
    BY <2>2, <2>3 DEF Undeleted
<1>8. NewestDeleted'
  <2>1. CASE \E r \in Requests : Commit(r)
    BY <1>7, <2>1 DEF NewestDeleted
  <2>2. CASE ledger' = ledger /\ \A r \in Requests : req[r].pc # "done" => req'[r].pc # "done"
    <3>1. ~Undeleted' => ~Undeleted
      BY <2>2 DEF Undeleted, IdemInv, TypeOK, Effect
    <3> QED
      BY <1>2, <1>3, <2>2, <3>1 DEF NewestDeleted, CacheInv, cacheVars
  <2> QED
    BY <1>6, <2>1, <2>2
<1> QED
  BY <1>4, <1>5, <1>8 DEF CacheInv

\* The caller's delete empties the cache and starts the timer of the version that
\* is the newest now.
LEMMA InvalidateCacheInv ==
  ASSUME IdemInv, CacheInv, NEW r \in Requests, Invalidate(r)
  PROVE  CacheInv'
<1>1. [Next]_vars /\ ledger' = ledger
  BY DEF Next, Invalidate
<1>2. IsFiniteSet(ledger') /\ Version \in Nat /\ Version' = Version
  BY <1>1, VersionGrows
<1>3. /\ cache' = NoEntry /\ timers' = timers \cup {Version}
      /\ UNCHANGED <<flight, reader, handler, nevents, fired, late>>
  BY DEF Invalidate, UpdateBalance_DoubleDelete
<1>4. KnownVersions'
  BY <1>2, <1>3 DEF CacheInv, KnownVersions
<1> QED
  BY <1>2, <1>3, <1>4 DEF CacheInv, NewestDeleted, NotOlderThanFired

LEMMA CallerDiesCacheInv ==
  ASSUME IdemInv, CacheInv, NEW r \in Requests, CallerDies(r)
  PROVE  CacheInv'
<1>1. [Next]_vars /\ ledger' = ledger /\ UNCHANGED cacheVars
  BY DEF Next, CallerDies
<1>2. IsFiniteSet(ledger') /\ Version' = Version
  BY <1>1, VersionGrows
<1>3. req'[r].pc = "error" /\ \A s \in Requests \ {r} : req'[s] = req[s]
  BY MovedOn DEF CallerDies, Goto, IdemInv, Places, Errors
<1>4. ~Undeleted' => ~Undeleted
  BY <1>1, <1>3 DEF Undeleted, IdemInv, TypeOK, Effect
<1> QED
  BY <1>1, <1>2, <1>4 DEF CacheInv, KnownVersions, NewestDeleted, NotOlderThanFired, cacheVars

\* Readers, timers, expiry and event handlers.
LEMMA CachePartCacheInv ==
  ASSUME IdemInv, CacheInv, CachePart
  PROVE  CacheInv'
<1>1. [Next]_vars /\ UNCHANGED idemVars
  BY DEF Next, CachePart
<1>2. IsFiniteSet(ledger') /\ Version \in Nat /\ Version' = Version /\ Undeleted' = Undeleted
  BY <1>1, VersionGrows DEF idemVars, Undeleted
<1> USE DEF CacheInv, rest
<1>3. ASSUME UNCHANGED <<cache, rest, late>>, flight' \in Flights, flight'.stage # "set"
      PROVE  CacheInv'
  BY <1>2, <1>3 DEF KnownVersions, NewestDeleted, NotOlderThanFired
<1>4. ASSUME NEW c \in Readers, Lookup(c) PROVE CacheInv'
  BY <1>2, <1>4 DEF Lookup, KnownVersions, NewestDeleted, NotOlderThanFired
<1>5. ASSUME NEW c \in Readers, Do(c) PROVE CacheInv'
  <2>1. flight' = flight \/ flight' = [NoFlight EXCEPT !.stage = "check"]
    BY <1>5 DEF Do
  <2>2. flight' \in Flights /\ (flight'.stage = "set" => flight' = flight)
    BY <2>1 DEF NoFlight, KnownVersions, Flights
  <2>3. UNCHANGED <<cache, timers, lost, handler, nevents, fired, late>>
    BY <1>5 DEF Do
  <2>4. KnownVersions'
    BY <1>2, <2>2, <2>3 DEF KnownVersions
  <2> QED
    BY <1>2, <2>3, <2>4 DEF NewestDeleted, NotOlderThanFired
<1>6. CASE Check
  <2>1. flight' = NoFlight \/ flight' = [flight EXCEPT !.stage = "read"]
    BY <1>6 DEF Check, Land
  <2>2. flight' \in Flights /\ flight'.stage # "set"
    BY <2>1 DEF NoFlight, KnownVersions, Flights
  <2> QED
    BY <1>3, <1>6, <2>2 DEF Check
<1>7. CASE ReadDB(Version)
  <2>1. flight' = NoFlight \/ flight' = [stage |-> "set", val |-> Version]
    BY <1>7 DEF ReadDB, Land
  <2>2. flight' \in Flights /\ (flight'.stage = "set" => flight'.val \in 0..Version)
    BY <1>2, <2>1 DEF NoFlight, Flights
  <2> QED
    BY <1>2, <1>7, <2>2 DEF ReadDB, KnownVersions, NewestDeleted, NotOlderThanFired
<1>8. CASE SetEntry
  <2>1. flight.val \in 0..Version /\ cache' = flight.val /\ UNCHANGED rest
    BY <1>8 DEF SetEntry, KnownVersions
  <2>2. /\ flight' \in Flights /\ flight'.stage # "set" /\ late' \in BOOLEAN
        /\ ~late' => ~late /\ ~(flight.val < fired)
    BY <1>8 DEF SetEntry, Land, NoFlight, Flights
  <2>3. KnownVersions'
    BY <1>2, <2>1, <2>2 DEF KnownVersions
  <2>4. NotOlderThanFired'
    BY <1>2, <2>1, <2>2 DEF NotOlderThanFired, KnownVersions
  <2> QED
    BY <1>2, <2>1, <2>3, <2>4 DEF NewestDeleted
<1>9. CASE Expire
  BY <1>2, <1>9 DEF Expire, KnownVersions, NewestDeleted, NotOlderThanFired
<1>10. ASSUME NEW v \in timers, SecondDelete(v) PROVE CacheInv'
  <2>1. /\ v \in 0..Version /\ cache' = NoEntry /\ timers' = timers \ {v}
        /\ fired' = IF v > fired THEN v ELSE fired
        /\ UNCHANGED <<flight, reader, lost, handler, nevents, late>>
    BY <1>10 DEF SecondDelete, KnownVersions
  <2>2. KnownVersions'
    BY <1>2, <2>1 DEF KnownVersions
  <2>3. NewestDeleted'
    BY <1>2, <2>1 DEF NewestDeleted, KnownVersions
  <2> QED
    BY <2>1, <2>2, <2>3 DEF NotOlderThanFired
<1>11. ASSUME NEW h \in Handlers, NEW v \in 1..Version, EventGet(h, v) PROVE CacheInv'
  <2>1. /\ handler' = [handler EXCEPT ![h] = [v |-> v, ok |-> cache = NoEntry \/ v >= cache]]
        /\ UNCHANGED <<cache, flight, reader, timers, lost, fired, late>>
    BY <1>11 DEF EventGet
  <2>2. KnownVersions'
    BY <1>2, <2>1 DEF KnownVersions
  <2> QED
    BY <1>2, <2>1, <2>2 DEF NewestDeleted, NotOlderThanFired
<1>12. ASSUME NEW h \in Handlers, EventSet(h) PROVE CacheInv'
  <2>1. /\ handler[h].v \in 0..Version /\ handler' = [handler EXCEPT ![h] = NoHandler]
        /\ UNCHANGED <<flight, reader, timers, lost, nevents, fired>>
    BY <1>12 DEF EventSet, KnownVersions
  <2>2. \/ /\ cache' = handler[h].v /\ late' \in BOOLEAN
           /\ ~late' => ~late /\ ~(handler[h].v < fired)
        \/ UNCHANGED <<cache, late>>
    BY <1>12 DEF EventSet
  <2>3. NoHandler \in [v : 0..Version \cup {NoEntry}, ok : BOOLEAN]
    BY DEF NoHandler
  <2>4. KnownVersions'
    BY <1>2, <2>1, <2>2, <2>3 DEF KnownVersions
  <2>5. NotOlderThanFired'
    BY <1>2, <2>1, <2>2 DEF NotOlderThanFired, KnownVersions
  <2> QED
    BY <1>2, <2>1, <2>4, <2>5 DEF NewestDeleted
<1>13. ASSUME NEW v \in timers, TimerDies(v) PROVE CacheInv'
  BY <1>2, <1>13 DEF TimerDies, KnownVersions, NewestDeleted, NotOlderThanFired
<1> QED
  BY <1>4, <1>5, <1>6, <1>7, <1>8, <1>9, <1>10, <1>11, <1>12, <1>13
     DEF CachePart, CacheNext, Flight, EventHandler

\* UpdateBalance_DoubleDelete: with no delete outstanding, the cache holds the
\* newest version or nothing, unless the newest version's second delete died with
\* its process or an old value was set after a second delete.
THEOREM DoubleDeleteWorks == Spec => []FreshAtRest
<1>1. IdemInv /\ [Next]_vars => IdemInv'
  BY NextIdemInv
<1>2. IdemInv /\ CacheInv /\ [Next]_vars => CacheInv'
  <2> SUFFICES ASSUME IdemInv, CacheInv, [Next]_vars PROVE CacheInv'
    OBVIOUS
  <2>1. CASE UNCHANGED vars
    <3>1. Version' = Version /\ Undeleted' = Undeleted
      BY <2>1 DEF vars, idemVars, Version, Undeleted
    <3> QED
      BY <2>1, <3>1 DEF vars, idemVars, cacheVars, CacheInv, KnownVersions, NewestDeleted,
         NotOlderThanFired
  <2> QED
    BY <2>1, IdemPartCacheInv, CachePartCacheInv, InvalidateCacheInv, CallerDiesCacheInv DEF Next
<1>3. IdemInv /\ CacheInv => FreshAtRest
  <2> SUFFICES ASSUME CacheInv, timers = {}, ~Undeleted, Version \notin lost, ~late, cache # NoEntry
               PROVE  cache = Version
    BY DEF FreshAtRest, AtRest
  <2>1. fired = Version /\ Version \in Nat
    BY FS_CardinalityType DEF CacheInv, NewestDeleted, KnownVersions, Version
  <2> QED
    BY <2>1 DEF CacheInv, KnownVersions, NotOlderThanFired
<1> QED
  BY InitIdemInv, InitCacheInv, <1>1, <1>2, <1>3, PTL DEF Spec
=============================================================================
