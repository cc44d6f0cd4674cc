----------------------------- MODULE FundsCalls -----------------------------
(***************************************************************************)
(* A GetBalances call on its way through the interceptors: the client's    *)
(* circuit breaker and timeout, the server's rate limiter, Sentinel and    *)
(* error mapping, and FundsService.GetBalances, whose concurrent calls     *)
(* share one database query run by the first of them (the leader), with    *)
(* the leader's context.                                                   *)
(*                                                                         *)
(* Trouble is a database that fails or hangs and a Redis that hangs.       *)
(* Redis may return errors, callers may hang up and arrive faster than the *)
(* limiter admits at any time.                                             *)
(***************************************************************************)
EXTENDS Breakers, ErrorCodes, RateStore

CONSTANTS Callers,   \* slots for concurrent calls
          Guarded,   \* those whose connection mounts the breaker interceptor
          NoCaller

ASSUME CallsAssumption == Guarded \subseteq Callers /\ NoCaller \notin Callers

VARIABLES pc,        \* per call: where its handler is
          left,      \* calls whose client has gone: their context is done
          err,       \* per call: what the handler returned
          leader,    \* who runs the query, or NoCaller
          breaker,   \* the client's breaker of the method
          counted,   \* guarded calls that count in the breaker's generation
          sentinel,  \* the server's breaker of the resource
          storing,   \* the leader has its rows and sets the cache
          trouble,   \* which of the services is failing or hanging
          blamed,    \* history: who can be blamed for errors
          failed     \* history: a client has been told of an error

callVars == <<pc, left, err, leader, storing>>
worldVars == <<trouble, blamed, failed>>
vars == <<callVars, breaker, counted, sentinel, worldVars, rateVars>>

Init ==
  /\ pc = [c \in Callers |-> "idle"]
  /\ left = {}
  /\ err = [c \in Callers |-> None]
  /\ leader = NoCaller /\ storing = FALSE
  /\ breaker = Generation("closed") /\ counted = {}
  /\ sentinel = NewSentinel("closed")
  /\ trouble = {} /\ blamed = "nobody" /\ failed = FALSE
  /\ RateInit

-----------------------------------------------------------------------------
(* The client.                                                             *)

Tell(e) == failed' = (failed \/ e # None)

\* Once the services have failed a call, whatever follows may be their doing.
Blame(who) == blamed' = IF blamed = "services" THEN blamed ELSE who

\* cb.Execute's end: the result counts if no other generation has begun since.
AfterRequest(c, e) ==
  LET b == IF c \notin counted THEN breaker
           ELSE IF isSuccessfulForBreaker(e) THEN OnSuccess(breaker) ELSE OnFailure(breaker)
  IN  /\ breaker' = b
      /\ counted' = IF b.state # breaker.state THEN {} ELSE counted \ {c}

\* CiruiteBreakUnaryClient refuses without calling; the client may ask again.
Refuse(c) ==
  /\ pc[c] = "idle" /\ c \in Guarded
  /\ ~Admits(breaker)
  /\ pc' = [pc EXCEPT ![c] = "refused"]
  /\ Tell(Xerr("Unavailable"))
  /\ UNCHANGED <<left, err, leader, storing, breaker, counted, sentinel, trouble, blamed, rateVars>>

Again(c) ==
  /\ pc[c] = "refused"
  /\ pc' = [pc EXCEPT ![c] = "idle"]
  /\ UNCHANGED <<left, err, leader, storing, breaker, counted, sentinel, worldVars, rateVars>>

\* The call goes out and passes RateLimitByMethodUnary.
Call(c) ==
  /\ pc[c] = "idle"
  /\ c \in Guarded => Admits(breaker)
  /\ breaker' = IF c \in Guarded THEN OnRequest(breaker) ELSE breaker
  /\ counted' = IF c \in Guarded THEN counted \union {c} ELSE counted
  /\ Allow
  /\ pc' = [pc EXCEPT ![c] = "entry"]
  /\ UNCHANGED <<left, err, leader, storing, sentinel, worldVars>>

\* A burst of calls: the limiter refuses this one.  gobreaker counts the request
\* before and after.
RateLimited(c) ==
  LET e == ErrorUnary(Xerr("ResourceExhausted"))
      b == OnRequest(breaker)
      after == IF isSuccessfulForBreaker(e) THEN OnSuccess(b) ELSE OnFailure(b)
  IN  /\ pc[c] = "idle"
      /\ c \in Guarded => Admits(breaker)
      /\ Deny
      /\ Tell(e) /\ Blame("callers")
      /\ breaker' = IF c \in Guarded THEN after ELSE breaker
      /\ counted' = IF breaker'.state # breaker.state THEN {} ELSE counted
      /\ UNCHANGED <<callVars, sentinel, trouble>>

\* The client gives up; from now on the call's context is done.
GiveUp(c, e) ==
  /\ pc[c] \notin {"idle", "refused"} /\ c \notin left
  /\ left' = left \union {c}
  /\ Tell(e)
  /\ AfterRequest(c, e)
  /\ UNCHANGED <<pc, err, leader, storing, sentinel, trouble, rateVars>>

\* TimeOutInterceptor's deadline passes while a service hangs, the database or
\* Redis: newRedis sets no timeout, and the deadline covers the cache read as well.
TimeOut(c) ==
  /\ trouble # {}
  /\ GiveUp(c, Status("DeadlineExceeded"))
  /\ Blame("services")

\* Whoever asked the client hangs up.
HangUp(c) == GiveUp(c, Status("Canceled")) /\ Blame("callers")

-----------------------------------------------------------------------------
(* The server.                                                             *)

\* What leaves ErrorUnary reaches the client if it is still there.
Respond(c, e) ==
  /\ pc' = [pc EXCEPT ![c] = "idle"]
  /\ left' = left \ {c}
  /\ err' = [err EXCEPT ![c] = None]
  /\ IF c \in left THEN UNCHANGED <<failed, breaker, counted>>
     ELSE /\ Tell(ErrorUnary(e))
          /\ AfterRequest(c, ErrorUnary(e))

\* SentinelUnaryServerInterceptor: Entry, and the answer when it is blocked.
Enter(c) ==
  /\ pc[c] = "entry"
  /\ \/ /\ TryPass(sentinel)
        /\ sentinel' = Passed(sentinel)
        /\ pc' = [pc EXCEPT ![c] = "cache"]
        /\ UNCHANGED <<left, err, failed, breaker, counted>>
     \/ /\ ~TryPass(sentinel)
        /\ Respond(c, Status("ResourceExhausted"))
        /\ UNCHANGED sentinel
  /\ UNCHANGED <<leader, storing, trouble, blamed, rateVars>>

\* GetBalances: a cached answer is returned, a miss joins or leads the query.
CacheHit(c) ==
  /\ pc[c] = "cache" /\ "redis" \notin trouble
  /\ pc' = [pc EXCEPT ![c] = "exit"]
  /\ UNCHANGED <<left, err, leader, storing, breaker, counted, sentinel, worldVars, rateVars>>

Join(c) ==
  /\ pc' = [pc EXCEPT ![c] = "flight"]
  /\ leader' = IF leader = NoCaller THEN c ELSE leader
  /\ UNCHANGED <<left, err, storing, breaker, counted, sentinel, worldVars, rateVars>>

CacheMiss(c) == pc[c] = "cache" /\ "redis" \notin trouble /\ Join(c)

\* Mutant: an error of the cache is the call's error.
CacheErrorReturned(c) ==
  /\ pc[c] = "cache"
  /\ pc' = [pc EXCEPT ![c] = "exit"]
  /\ err' = [err EXCEPT ![c] = Status("Internal")]
  /\ UNCHANGED <<left, leader, storing, breaker, counted, sentinel, worldVars, rateVars>>

\* A Redis error, the end of a hanging read (the client's own limit, or the call's
\* context), or a value that does not decode, is a miss as well.
CacheError(c) == pc[c] = "cache" /\ Join(c)

\* The query ends; everyone in the flight gets its result.
Land(e) ==
  /\ leader' = NoCaller /\ storing' = FALSE
  /\ pc' = [c \in Callers |-> IF pc[c] = "flight" THEN "exit" ELSE pc[c]]
  /\ err' = [c \in Callers |-> IF pc[c] = "flight" THEN e ELSE err[c]]
  /\ UNCHANGED <<left, breaker, counted, sentinel, worldVars, rateVars>>

\* The rows have come; the leader sets the cache before it shares them.
QueryOk ==
  /\ leader # NoCaller /\ ~storing
  /\ storing' = TRUE
  /\ UNCHANGED <<pc, left, err, leader, breaker, counted, sentinel, worldVars, rateVars>>

\* SetBalances ends; its error is dropped.
Stored == storing /\ Land(None)

\* The database fails, or the leader's context ends the query.
QueryFails ==
  /\ leader # NoCaller /\ ~storing
  /\ "database" \in trouble \/ leader \in left
  /\ Land(Status("Internal"))

\* Mutant: the deferred Exit is forgotten on success.
ExitOnlyErrors(c) ==
  /\ pc[c] = "exit"
  /\ sentinel' = IF isSystemError(err[c]) THEN Completed(sentinel, TRUE) ELSE sentinel
  /\ Respond(c, err[c])
  /\ UNCHANGED <<leader, storing, trouble, blamed, rateVars>>

\* entry.Exit, after TraceError for what isSystemError says.
Exit(c) ==
  /\ pc[c] = "exit"
  /\ sentinel' = Completed(sentinel, isSystemError(err[c]))
  /\ Respond(c, err[c])
  /\ UNCHANGED <<leader, storing, trouble, blamed, rateVars>>

-----------------------------------------------------------------------------
(* Time, and the world.                                                    *)

\* gobreaker currentState: Timeout ends open, Interval clears the closed counts.
BreakerTimeout ==
  /\ breaker.state = "open"
  /\ breaker' = Generation("half") /\ counted' = {}
  /\ UNCHANGED <<callVars, sentinel, worldVars, rateVars>>
BreakerInterval ==
  /\ breaker.state = "closed" /\ breaker.failures > 0
  /\ breaker' = Generation("closed") /\ counted' = {}
  /\ UNCHANGED <<callVars, sentinel, worldVars, rateVars>>

\* Sentinel's retry timeout and statistics window.
RetryTimeout ==
  /\ sentinel.state = "open" /\ ~sentinel.retry
  /\ sentinel' = [sentinel EXCEPT !.retry = TRUE]
  /\ UNCHANGED <<callVars, breaker, counted, worldVars, rateVars>>
StatInterval ==
  /\ sentinel.state = "closed" /\ sentinel.total > 0
  /\ sentinel' = NewSentinel("closed")
  /\ UNCHANGED <<callVars, breaker, counted, worldVars, rateVars>>

\* The limiter's clock and its janitor.
Limiter ==
  /\ Tick \/ cleanup
  /\ UNCHANGED <<callVars, breaker, counted, sentinel, worldVars>>

\* A service begins to fail or hang, or recovers.  A Redis that hangs is not blamed
\* before a deadline has passed: its errors and its silence ought to stay hidden.
World ==
  \E s \in {"database", "redis"} :
     /\ trouble' = IF s \in trouble THEN trouble \ {s} ELSE trouble \union {s}
     /\ IF s = "database" THEN Blame("services") ELSE UNCHANGED blamed
     /\ UNCHANGED <<callVars, failed, breaker, counted, sentinel, rateVars>>

Next ==
  \/ \E c \in Callers : \/ Refuse(c) \/ Again(c) \/ Call(c) \/ RateLimited(c)
                        \/ TimeOut(c) \/ HangUp(c)
                        \/ Enter(c) \/ CacheHit(c) \/ CacheMiss(c) \/ CacheError(c) \/ Exit(c)
  \/ QueryOk \/ QueryFails \/ Stored
  \/ BreakerTimeout \/ BreakerInterval \/ RetryTimeout \/ StatInterval
  \/ Limiter \/ World

Spec == Init /\ [][Next]_vars

\* Handlers run on, clocks advance, a cache read ends with an answer or an error,
\* and so does a query: the database answers or the leader's deadline passes.
Fairness ==
  /\ \A c \in Callers : /\ WF_vars(Enter(c)) /\ WF_vars(Exit(c))
                        /\ WF_vars(CacheHit(c) \/ CacheMiss(c) \/ CacheError(c))
  /\ WF_vars(QueryOk \/ QueryFails \/ Stored)
  /\ WF_vars(BreakerTimeout) /\ WF_vars(RetryTimeout)
  /\ WF_vars(Limiter)
FairSpec == Spec /\ Fairness
-----------------------------------------------------------------------------
(* Properties.                                                             *)

\* Store.Allow and cleanup: forgetting a bucket never admits more calls than
\* one bucket that had been kept would have.
ForgettingIsFree == InBucket <= ideal

\* GetBalances hides the cache's errors, and its silence as long as nobody's deadline
\* passes in it, from the caller and from both breakers: until the database fails, a
\* deadline passes or a caller hangs up or is refused, no call fails, and neither
\* breaker has opened or counts an error.
CacheErrorsAreHidden ==
  blamed = "nobody" => /\ ~failed
                       /\ breaker = Generation("closed")
                       /\ sentinel.state = "closed" /\ sentinel.errors = 0

\* The two breakers in series do not keep each other open: once the services answer
\* and callers neither hang up nor come in bursts, and guarded calls are attempted
\* again and again, refused or not, both close and stay closed.
BreakersRecover ==
  /\ <>[](trouble = {})
  /\ <>[][\A c \in Callers : ~HangUp(c) /\ ~RateLimited(c)]_vars
  /\ \A c \in Guarded : []<><<Refuse(c) \/ Call(c)>>_vars
  => <>[](breaker.state = "closed" /\ sentinel.state = "closed")
=============================================================================
