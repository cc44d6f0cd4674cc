---------------------------- MODULE Idempotency -----------------------------
(***************************************************************************)
(* DoOnceTx: a request takes its key with an INSERT inside a transaction,  *)
(* runs fn in that transaction, stores the response in the key's row and   *)
(* commits.  A request that finds the key taken waits, reads the row and   *)
(* answers from it.  The row locks are InnoDB's: an INSERT waits for a     *)
(* shared lock on a key another transaction holds, keeps that lock when    *)
(* the key turns out to be a duplicate, and of two holders that both want  *)
(* the row exclusively one is rolled back.                                 *)
(***************************************************************************)
EXTENDS Naturals, FiniteSets

CONSTANTS Requests,   \* concurrent callers of DoOnceTx
          Keys,       \* (scope, requestID) pairs
          Hashes,     \* request hashes
          Unencodable,\* hashes whose result json.Marshal refuses
          MaxTries,   \* bound on the calls of one caller
          NoRow       \* no committed row for a key

ASSUME TriesAssumption == MaxTries \in Nat \ {0}
ASSUME HashAssumption  == Unencodable \subseteq Hashes

VARIABLES row,     \* row[k]: the committed idempotency row of key k, or NoRow
          ledger,  \* the effects fn committed: a set of [key, hash, by, try]
          req,     \* req[r]: the call of DoOnceTx caller r is in, or its result
          excl,    \* excl[k]: the transactions holding the row exclusively
          shared   \* shared[k]: the transactions holding it shared

idemVars == <<row, ledger, req, excl, shared>>

\* readIdem returns the same columns; resp is response_json, FALSE for NULL.
Row == [hash : Hashes, resp : BOOLEAN]
ASSUME NoRowAssumption == NoRow \notin Row

Waiting == {"insert", "queued", "insertX", "select", "selectAuto"}
Errors  == {"error", "conflict", "inProgress"}
Places  == {"idle", "fn", "update", "commit", "ok", "done"} \cup Waiting \cup Errors
Req == [pc : Places, key : Keys, hash : Hashes, tries : 0..MaxTries]

IdemInit ==
  /\ row = [k \in Keys |-> NoRow]
  /\ ledger = {}
  /\ req \in [Requests -> {[pc |-> "idle", key |-> k, hash |-> h, tries |-> 0] :
                             k \in Keys, h \in Hashes}]
  /\ excl = [k \in Keys |-> {}]
  /\ shared = [k \in Keys |-> {}]

Goto(r, p) == req' = [req EXCEPT ![r].pc = p]

\* Commit and rollback release every lock of the transaction.
Release(r) ==
  /\ excl' = [k \in Keys |-> excl[k] \ {r}]
  /\ shared' = [k \in Keys |-> shared[k] \ {r}]

\* The deferred tx.Rollback, and the rollback of a dropped connection.
Return(r, p) == Goto(r, p) /\ Release(r) /\ UNCHANGED <<row, ledger>>

\* A caller begins, or retries with the same key and parameters after an error.
\* A retry is free to find the key taken by its own earlier commit.
BeginTx(r) ==
  /\ req[r].pc \in {"idle"} \cup Errors
  /\ req[r].tries < MaxTries
  /\ req' = [req EXCEPT ![r].pc = "insert", ![r].tries = @ + 1]
  /\ UNCHANGED <<row, ledger, excl, shared>>

\* Mutant of InsertRow: a duplicate key is overwritten.
InsertRowUpsert(r) ==
  LET k == req[r].key
  IN  /\ req[r].pc \in {"insert", "insertX"}
      /\ (excl[k] \cup shared[k]) \subseteq {r}
      /\ excl' = [excl EXCEPT ![k] = {r}]
      /\ Goto(r, "fn")
      /\ UNCHANGED <<row, ledger, shared>>

\* INSERT: no row and no lock in the way, the key is ours.
InsertRow(r) ==
  LET k == req[r].key
  IN  /\ req[r].pc \in {"insert", "insertX"}
      /\ row[k] = NoRow
      /\ (excl[k] \cup shared[k]) \subseteq {r}
      /\ excl' = [excl EXCEPT ![k] = {r}]
      /\ Goto(r, "fn")
      /\ UNCHANGED <<row, ledger, shared>>

\* INSERT meets a key that another transaction has just inserted: it queues for a
\* shared lock.
InsertWaits(r) ==
  /\ req[r].pc = "insert"
  /\ excl[req[r].key] # {}
  /\ Goto(r, "queued")
  /\ UNCHANGED <<row, ledger, excl, shared>>

\* The shared lock is granted, to all that queued.  A committed row means the
\* duplicate error; after a rollback the INSERT wants the row exclusively.
InsertShared(r) ==
  LET k == req[r].key
  IN  /\ \/ req[r].pc = "queued"
         \/ req[r].pc = "insert" /\ (row[k] # NoRow \/ shared[k] # {})
      /\ excl[k] = {}
      /\ shared' = [shared EXCEPT ![k] = @ \cup {r}]
      /\ Goto(r, IF row[k] = NoRow THEN "insertX" ELSE "select")
      /\ UNCHANGED <<row, ledger, excl>>

\* Mutant of Answer: the stored hash is not compared.
AnswerAnyHash(r, w) ==
  IF w = NoRow THEN "error" ELSE IF w.resp THEN "ok" ELSE "inProgress"

\* SELECT ... FOR UPDATE after the failed INSERT: it needs the row exclusively,
\* or finds none (sql.ErrNoRows).  What the code does with the row follows.
Answer(r, w) ==
  IF w = NoRow THEN "error"
  ELSE IF w.hash # req[r].hash THEN "conflict"
  ELSE IF w.resp THEN "ok" ELSE "inProgress"

SelectForUpdate(r) ==
  LET k == req[r].key
  IN  /\ req[r].pc \in {"select", "selectAuto"}
      /\ (excl[k] \cup shared[k]) \subseteq {r}
      /\ Return(r, Answer(r, row[k]))

\* Two transactions hold the key shared and both want it exclusively: InnoDB
\* rolls one of them back.  A victim inside the INSERT takes the error for a
\* duplicate and goes on to the SELECT, now outside any transaction.
WantsExcl(r) == req[r].pc \in {"insertX", "select"} /\ r \in shared[req[r].key]

DeadlockVictim(r) ==
  /\ WantsExcl(r)
  /\ \E s \in Requests \ {r} : req[s].key = req[r].key /\ WantsExcl(s)
  /\ Return(r, IF req[r].pc = "insertX" THEN "selectAuto" ELSE "error")

\* innodb_lock_wait_timeout: only the statement is rolled back, so an INSERT that
\* gave up is followed by the SELECT in the same transaction.
LockWaitTimeout(r) ==
  /\ req[r].pc \in Waiting
  /\ (excl[req[r].key] \cup shared[req[r].key]) \ {r} # {}
  /\ IF req[r].pc \in {"insert", "queued", "insertX"}
     THEN Goto(r, "select") /\ UNCHANGED <<row, ledger, excl, shared>>
     ELSE Return(r, "error")

\* fn does its database work in the transaction, or fails and all is rolled back.
RunFn(r) ==
  /\ req[r].pc = "fn"
  /\ \/ Goto(r, "update") /\ UNCHANGED <<row, ledger, excl, shared>>
     \/ Return(r, "error")

\* UPDATE ... SET status=2: the response joins the row in the transaction.
MarkCommitted(r) ==
  /\ req[r].pc = "update"
  /\ \/ Goto(r, "commit") /\ UNCHANGED <<row, ledger, excl, shared>>
     \/ Return(r, "error")

\* Commit makes row and effect visible together.  json.Marshal's error is
\* dropped: the response of an unencodable result is stored as NULL.  The reply
\* to a successful commit may be lost.
Commit(r) ==
  LET c == req[r]
  IN  /\ c.pc = "commit"
      /\ row' = [row EXCEPT ![c.key] = [hash |-> c.hash, resp |-> c.hash \notin Unencodable]]
      /\ ledger' = ledger \cup {[key |-> c.key, hash |-> c.hash, by |-> r, try |-> c.tries]}
      /\ \E p \in {"ok", "error"} : Goto(r, p)
      /\ Release(r)

\* The context ends or the process dies: the transaction is rolled back.
Abort(r) ==
  /\ req[r].pc \in {"fn", "update", "commit"} \cup Waiting
  /\ Return(r, "error")

IdemStep(r) ==
  \/ InsertRow(r) \/ InsertWaits(r) \/ InsertShared(r)
  \/ SelectForUpdate(r) \/ DeadlockVictim(r)
  \/ RunFn(r) \/ MarkCommitted(r) \/ Commit(r)

IdemNext == \E r \in Requests : BeginTx(r) \/ IdemStep(r) \/ LockWaitTimeout(r) \/ Abort(r)
=============================================================================
