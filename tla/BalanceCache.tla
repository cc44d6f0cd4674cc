---------------------------- MODULE BalanceCache ----------------------------
(***************************************************************************)
(* One key of the account service's balance cache: GetBalance with its     *)
(* singleflight, the two deletes of UpdateBalance_DoubleDelete, and        *)
(* OnBalanceChangedEvent.  A balance is its version: version n is what the *)
(* n-th committed update wrote.  The cache interface's Get, Set and Del    *)
(* are single steps; an entry expires at any time, and the second delete   *)
(* is a timer of the process that made the first one and dies with it.     *)
(***************************************************************************)
EXTENDS Naturals, FiniteSets

CONSTANTS Readers,    \* callers of GetBalance
          Handlers,   \* goroutines running OnBalanceChangedEvent
          MaxEvents,  \* bound on the events delivered
          NoEntry     \* no cache entry, no value

ASSUME NoEntryAssumption == NoEntry \notin Nat
ASSUME EventsAssumption  == MaxEvents \in Nat

VARIABLES cache,    \* the cached version, or NoEntry
          flight,   \* the singleflight call: stage and the value read
          reader,   \* reader[c]: "idle", "missed" or "joined"
          timers,   \* the pending second deletes, by the version they were started at
          lost,     \* those whose process has died before they fired
          handler,  \* handler[h]: the event version and the entry it compared with
          nevents,  \* events delivered so far
          fired,    \* history: the newest update whose second delete has fired
          late      \* history: a version older than fired was set

cacheVars == <<cache, flight, reader, timers, lost, handler, nevents, fired, late>>

NoFlight  == [stage |-> "none", val |-> NoEntry]
NoHandler == [v |-> NoEntry, ok |-> FALSE]

CacheInit ==
  /\ cache = NoEntry
  /\ flight = NoFlight
  /\ reader = [c \in Readers |-> "idle"]
  /\ timers = {} /\ lost = {}
  /\ handler = [h \in Handlers |-> NoHandler]
  /\ nevents = 0
  /\ fired = 0
  /\ late = FALSE

rest == <<timers, lost, handler, nevents, fired>>

\* GetBalance's first cache.Get; a hit returns at once.
Lookup(c) ==
  /\ reader[c] = "idle"
  /\ cache = NoEntry
  /\ reader' = [reader EXCEPT ![c] = "missed"]
  /\ UNCHANGED <<cache, flight, rest, late>>

\* sf.Do: the first caller runs the function, callers that come while it runs
\* share its result.
Do(c) ==
  /\ reader[c] = "missed"
  /\ reader' = [reader EXCEPT ![c] = "joined"]
  /\ flight' = IF flight = NoFlight THEN [flight EXCEPT !.stage = "check"] ELSE flight
  /\ UNCHANGED <<cache, rest, late>>

\* The function returns: every joined caller has its answer.
Land ==
  /\ flight' = NoFlight
  /\ reader' = [c \in Readers |-> IF reader[c] = "joined" THEN "idle" ELSE reader[c]]

\* The double check in front of the database.
Check ==
  /\ flight.stage = "check"
  /\ IF cache # NoEntry THEN Land
     ELSE flight' = [flight EXCEPT !.stage = "read"] /\ UNCHANGED reader
  /\ UNCHANGED <<cache, rest, late>>

\* GetBalanceFromDB, which may fail.
ReadDB(version) ==
  /\ flight.stage = "read"
  /\ \/ flight' = [stage |-> "set", val |-> version] /\ UNCHANGED reader
     \/ Land
  /\ UNCHANGED <<cache, rest, late>>

\* cache.Set and return.
SetEntry ==
  /\ flight.stage = "set"
  /\ cache' = flight.val
  /\ late' = (late \/ flight.val < fired)
  /\ Land
  /\ UNCHANGED rest

\* Mutant of Expire: entries are set without a TTL.
ExpireNever ==
  /\ FALSE
  /\ UNCHANGED cacheVars

\* The entry's TTL ends.
Expire ==
  /\ cache # NoEntry
  /\ cache' = NoEntry
  /\ UNCHANGED <<flight, reader, rest, late>>

\* Mutant of UpdateBalance_DoubleDelete: no second delete.
SingleDelete(v) ==
  /\ cache' = NoEntry
  /\ UNCHANGED <<flight, reader, timers, lost, handler, nevents, fired, late>>

\* UpdateBalance_DoubleDelete when the database is at version v: delete now, and
\* once more when the timer fires.  (Timers started at one version are one timer.)
UpdateBalance_DoubleDelete(v) ==
  /\ cache' = NoEntry
  /\ timers' = timers \cup {v} /\ lost' = lost \ {v}
  /\ UNCHANGED <<flight, reader, handler, nevents, fired, late>>

SecondDelete(v) ==
  /\ v \in timers
  /\ cache' = NoEntry
  /\ timers' = timers \ {v}
  /\ fired' = IF v > fired THEN v ELSE fired
  /\ UNCHANGED <<flight, reader, lost, handler, nevents, late>>

\* The process of the timer dies within the 500 milliseconds: time.AfterFunc is
\* nowhere but in its memory.
TimerDies(v) ==
  /\ v \in timers
  /\ timers' = timers \ {v} /\ lost' = lost \cup {v}
  /\ UNCHANGED <<cache, flight, reader, handler, nevents, fired, late>>

\* OnBalanceChangedEvent reads the entry ...
EventGet(h, v) ==
  /\ handler[h] = NoHandler
  /\ nevents < MaxEvents
  /\ nevents' = nevents + 1
  /\ handler' = [handler EXCEPT ![h] =
                   [v |-> v, ok |-> cache = NoEntry \/ v >= cache]]
  /\ UNCHANGED <<cache, flight, reader, timers, lost, fired, late>>

\* ... and then sets it, by what it read.
EventSet(h) ==
  /\ handler[h] # NoHandler
  /\ IF handler[h].ok
     THEN /\ cache' = handler[h].v
          /\ late' = (late \/ handler[h].v < fired)
     ELSE UNCHANGED <<cache, late>>
  /\ handler' = [handler EXCEPT ![h] = NoHandler]
  /\ UNCHANGED <<flight, reader, timers, lost, nevents, fired>>

Flight(version) ==
  (\E c \in Readers : Do(c)) \/ Check \/ ReadDB(version) \/ SetEntry

EventHandler == \E h \in Handlers : EventSet(h)

CacheNext(version) ==
  \/ \E c \in Readers : Lookup(c)
  \/ Flight(version)
  \/ Expire
  \/ \E v \in timers : SecondDelete(v) \/ TimerDies(v)
  \/ \E h \in Handlers, v \in 1..version : EventGet(h, v)
  \/ EventHandler
=============================================================================
