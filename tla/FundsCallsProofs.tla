-------------------------- MODULE FundsCallsProofs --------------------------
(***************************************************************************)
(* Two promises about a call of the funds service, for any number of       *)
(* callers and any parameters: the limiter's janitor gives nobody an extra *)
(* token, and errors of the cache stay inside GetBalances, with its silence *)
(* as long as no deadline passes in it.                                    *)
(***************************************************************************)
EXTENDS FundsCalls, TLAPS

-----------------------------------------------------------------------------
(* The limiter *)

\* A bucket has had Rate tokens for every tick it was unused, so that one which is
\* old enough to be forgotten is full.
BucketInv ==
  /\ tokens \in 0..Burst \cup {NoBucket}
  /\ ideal \in 0..Burst
  /\ unused \in Nat
  /\ ideal = Burst \/ (unused <= TTL /\ ideal >= Rate * unused)
  /\ InBucket <= ideal

LEMMA InitBucketInv == Init => BucketInv
BY RateAssumption DEF Init, RateInit, BucketInv, InBucket

LEMMA AllowBucketInv ==
  ASSUME BucketInv, Allow
  PROVE  BucketInv'
<1>1. InBucket \in 1..Burst /\ ideal \in 1..Burst
  BY RateAssumption DEF BucketInv, InBucket, Allow
<1>2. tokens' \in 0..Burst /\ ideal' = ideal - 1 /\ unused' = 0 /\ tokens' <= ideal'
  BY <1>1, RateAssumption DEF Allow, BucketInv
<1>3. InBucket' <= ideal' /\ Rate * unused' = 0
  BY <1>2, RateAssumption DEF InBucket
<1> QED
  BY <1>1, <1>2, <1>3, RateAssumption DEF BucketInv

LEMMA DenyBucketInv ==
  ASSUME BucketInv, Deny
  PROVE  BucketInv'
<1>1. unused' = 0 /\ Rate * unused' = 0 /\ UNCHANGED <<tokens, ideal>>
  BY RateAssumption DEF Deny
<1> QED
  BY <1>1, RateAssumption DEF BucketInv, InBucket

LEMMA TickBucketInv ==
  ASSUME BucketInv, Tick
  PROVE  BucketInv'
<1>1. ideal' \in 0..Burst /\ unused' \in Nat /\ tokens' \in 0..Burst \cup {NoBucket}
  BY RateAssumption DEF Tick, BucketInv, Full
<1>2. InBucket' <= ideal'
  <2>1. CASE tokens = NoBucket
    <3>1. ideal = Burst /\ tokens' = NoBucket
      BY <2>1, RateAssumption DEF Tick, BucketInv, InBucket
    <3> QED
      BY <3>1, RateAssumption DEF Tick, Full, InBucket
  <2>2. CASE tokens # NoBucket
    <3>1. tokens \in 0..Burst /\ tokens <= ideal /\ tokens' = Full(tokens + Rate)
      BY <2>2 DEF Tick, BucketInv, InBucket
    <3>2. tokens' \in Nat /\ tokens' <= ideal'
      BY <3>1, RateAssumption DEF Tick, Full, BucketInv
    <3> QED
      BY <3>2, RateAssumption DEF InBucket
  <2> QED
    BY <2>1, <2>2
<1>3. ideal' = Burst \/ (unused' <= TTL /\ ideal' >= Rate * unused')
  <2>1. CASE ideal = Burst
    BY <2>1, RateAssumption DEF Tick, Full
  <2>2. CASE unused <= TTL /\ ideal >= Rate * unused
    <3>1. unused' = unused + 1 /\ Rate * unused' = Rate * unused + Rate
      BY <2>2, RateAssumption DEF Tick, BucketInv
    <3>2. CASE unused = TTL
      BY <2>2, <3>2, RateAssumption DEF Tick, Full, BucketInv
    <3>3. CASE unused # TTL
      <4>1. Rate * unused \in Nat
        BY RateAssumption DEF BucketInv
      <4> QED
        BY <2>2, <3>1, <3>3, <4>1, RateAssumption DEF Tick, Full, BucketInv
    <3> QED
      BY <3>2, <3>3
  <2> QED
    BY <2>1, <2>2 DEF BucketInv
<1> QED
  BY <1>1, <1>2, <1>3 DEF BucketInv

LEMMA CleanupBucketInv ==
  ASSUME BucketInv, cleanup
  PROVE  BucketInv'
<1>1. tokens' = NoBucket /\ UNCHANGED <<unused, ideal>> /\ unused > TTL
  BY DEF cleanup
<1>2. ideal = Burst
  BY <1>1, RateAssumption DEF BucketInv
<1> QED
  BY <1>1, <1>2, RateAssumption DEF BucketInv, InBucket

\* Store.Allow and cleanup: what the janitor forgets would have been full.
THEOREM JanitorIsFree == Spec => []ForgettingIsFree
<1>1. BucketInv /\ [Next]_vars => BucketInv'
  <2> SUFFICES ASSUME BucketInv, [Next]_vars PROVE BucketInv'
    OBVIOUS
  <2>1. CASE UNCHANGED rateVars
    BY <2>1 DEF BucketInv, InBucket, rateVars
  <2>2. UNCHANGED rateVars \/ Allow \/ Deny \/ Tick \/ cleanup
    BY DEF Next, vars, Refuse, Again, Call, RateLimited, TimeOut, HangUp, GiveUp, Enter,
       CacheHit, CacheMiss, CacheError, Join, Exit, QueryOk, QueryFails, Stored, Land,
       BreakerTimeout, BreakerInterval, RetryTimeout, StatInterval, Limiter, World
  <2> QED
    BY <2>1, <2>2, AllowBucketInv, DenyBucketInv, TickBucketInv, CleanupBucketInv
<1>2. BucketInv => ForgettingIsFree
  BY DEF BucketInv, ForgettingIsFree
<1> QED
  BY InitBucketInv, <1>1, <1>2, PTL DEF Spec

-----------------------------------------------------------------------------
(* The cache's errors *)

\* A Sentinel that has counted calls, but no error.
Unharmed(s) ==
  /\ DOMAIN s = {"state", "errors", "total", "retry"}
  /\ s.state = "closed" /\ s.errors = 0 /\ s.total \in Nat /\ s.retry = FALSE

\* As long as nobody can be blamed no client has left, the database is well, no
\* handler has an error, and neither breaker has seen one.
CalmInv ==
  /\ err \in [Callers -> {None, Status("Internal")}]
  /\ blamed \in {"nobody", "callers", "services"}
  /\ blamed = "nobody" => /\ left = {}
                          /\ "database" \notin trouble
                          /\ \A c \in Callers : err[c] = None
                          /\ ~failed
                          /\ breaker = Generation("closed")
                          /\ Unharmed(sentinel)

LEMMA InitCalmInv == Init => CalmInv
BY DEF Init, CalmInv, Unharmed, NewSentinel

\* A success leaves the client's breaker as it is when it has seen nothing else.
LEMMA SuccessIsUnseen ==
  /\ OnRequest(Generation("closed")) = Generation("closed")
  /\ OnSuccess(Generation("closed")) = Generation("closed")
  /\ Admits(Generation("closed"))
<1>1. OnRequest(Generation("closed")) = Generation("closed") /\ Admits(Generation("closed"))
  BY DEF OnRequest, Generation, Admits
<1>2. OnSuccess(Generation("closed")) = Generation("closed")
  BY DEF OnSuccess, Generation
<1> QED
  BY <1>1, <1>2

\* Sentinel counts a success, but no rule trips on successes alone.
LEMMA SuccessIsCounted ==
  ASSUME NEW s, Unharmed(s)
  PROVE  TryPass(s) /\ Passed(s) = s /\ Unharmed(Completed(s, FALSE))
<1>1. TryPass(s) /\ Passed(s) = s
  BY DEF Unharmed, TryPass, Passed
<1>2. Unharmed(Counted(s, FALSE))
  BY DEF Unharmed, Counted, NewSentinel
<1>3. ASSUME NEW n \in Nat \ {0}, NEW r \in ErrorRules PROVE ~Trips(r, 0, n)
  <2>1. /\ r.threshold \in Nat \ {0}
        /\ r.strategy = "ErrorCount" => r.threshold >= 100
    BY ThresholdAssumption
  <2>2. ~(100 * 0 >= r.threshold * n)
    <3>1. ASSUME NEW t \in Nat \ {0} PROVE t * n > 0
      OBVIOUS
    <3>2. r.threshold * n \in Int /\ r.threshold * n > 0
      BY <2>1, <3>1
    <3> QED
      BY <3>2
  <2>3. r.strategy = "ErrorCount" => ~(0 >= r.threshold \div 100)
    BY <2>1
  <2> QED
    BY <2>2, <2>3, Zenon DEF Trips
<1>4. Counted(s, FALSE).errors = 0 /\ Counted(s, FALSE).total \in Nat \ {0}
  BY DEF Unharmed, Counted, NewSentinel
<1>5. ~ \E r \in ErrorRules : Trips(r, Counted(s, FALSE).errors, Counted(s, FALSE).total)
  BY <1>3, <1>4
<1>6. Completed(s, FALSE) = Counted(s, FALSE)
  BY <1>5 DEF Unharmed, Completed
<1> QED
  BY <1>1, <1>2, <1>6

\* An answer without an error that reaches its client changes nothing but the call.
LEMMA CalmAnswer ==
  ASSUME CalmInv, blamed = "nobody", NEW c \in Callers, NEW e, e = None, Respond(c, e),
         Unharmed(sentinel'), UNCHANGED <<trouble, blamed>>
  PROVE  CalmInv'
<1>1. /\ left = {} /\ breaker = Generation("closed") /\ ~failed
      /\ left' = left \ {c} /\ err' = [err EXCEPT ![c] = None]
      /\ Tell(ErrorUnary(e)) /\ AfterRequest(c, ErrorUnary(e))
  BY DEF CalmInv, Respond
<1>2. ErrorUnary(e) = None
  BY DEF ErrorUnary, None, FromErrorOk, GRPCStatus, Codes
<1>3. isSuccessfulForBreaker(None)
  BY DEF isSuccessfulForBreaker
<1>4. breaker' = Generation("closed")
  BY <1>1, <1>2, <1>3, SuccessIsUnseen DEF AfterRequest
<1>5. ~failed'
  BY <1>1, <1>2 DEF Tell
<1> QED
  BY <1>1, <1>4, <1>5 DEF CalmInv

\* Once somebody can be blamed, only the types are left to keep.
LEMMA BlamedStep ==
  ASSUME CalmInv, blamed' \in {"callers", "services"},
         err' \in [Callers -> {None, Status("Internal")}]
  PROVE  CalmInv'
BY DEF CalmInv

LEMMA NextCalmInv ==
  ASSUME CalmInv, [Next]_vars
  PROVE  CalmInv'
<1> USE DEF callVars, worldVars
<1>1. /\ err' \in [Callers -> {None, Status("Internal")}]
      /\ blamed' = blamed \/ blamed' \in {"callers", "services"}
      /\ blamed # "nobody" => blamed' # "nobody"
  <2>1. err' \in [Callers -> {None, Status("Internal")}]
    BY DEF CalmInv, Next, vars, Refuse, Again, Call, RateLimited, TimeOut, HangUp, GiveUp,
       Enter, Respond, CacheHit, CacheMiss, CacheError, Join, Exit, QueryOk, QueryFails,
       Stored, Land, BreakerTimeout, BreakerInterval, RetryTimeout, StatInterval, Limiter, World
  <2>2. UNCHANGED blamed \/ Blame("callers") \/ Blame("services")
    BY DEF Next, vars, Refuse, Again, Call, RateLimited, TimeOut, HangUp, GiveUp, Enter,
       CacheHit, CacheMiss, CacheError, Join, Exit, QueryOk, QueryFails, Stored, Land,
       BreakerTimeout, BreakerInterval, RetryTimeout, StatInterval, Limiter, World
  <2> QED
    BY <2>1, <2>2 DEF CalmInv, Blame
<1>2. CASE blamed' # "nobody"
  BY <1>1, <1>2, BlamedStep DEF CalmInv
<1>3. CASE blamed' = "nobody"
  <2>1. /\ blamed = "nobody" /\ blamed' = blamed
        /\ left = {} /\ (\A c \in Callers : err[c] = None) /\ ~failed
        /\ "database" \notin trouble
        /\ breaker = Generation("closed") /\ Unharmed(sentinel)
    BY <1>1, <1>3 DEF CalmInv
  <2>2. ASSUME UNCHANGED <<left, err, failed, breaker, sentinel, trouble>>
        PROVE  CalmInv'
    BY <1>1, <2>1, <2>2 DEF CalmInv
  <2>3. ASSUME NEW c \in Callers, Call(c) PROVE CalmInv'
    <3>1. breaker' = breaker
      BY <2>1, <2>3, SuccessIsUnseen DEF Call
    <3> QED
      BY <2>2, <2>3, <3>1 DEF Call
  <2>4. ASSUME NEW c \in Callers, Refuse(c) \/ RateLimited(c) \/ TimeOut(c) \/ HangUp(c)
        PROVE  FALSE
    BY <1>3, <2>1, <2>4, SuccessIsUnseen DEF Refuse, RateLimited, TimeOut, HangUp, Blame
  <2>5. ASSUME NEW c \in Callers, Enter(c) PROVE CalmInv'
    <3>1. UNCHANGED <<left, err, failed, breaker, trouble>> /\ sentinel' = sentinel
      BY <2>1, <2>5, SuccessIsCounted DEF Enter
    <3> QED
      BY <2>2, <3>1
  <2>6. ASSUME NEW c \in Callers, Again(c) \/ CacheHit(c) \/ CacheMiss(c) \/ CacheError(c)
        PROVE  CalmInv'
    BY <2>2, <2>6 DEF Again, CacheHit, CacheMiss, CacheError, Join
  <2>7. ASSUME NEW c \in Callers, Exit(c) PROVE CalmInv'
    <3>1. isSystemError(err[c]) = FALSE /\ err[c] = None
      BY <2>1 DEF isSystemError
    <3>2. Unharmed(sentinel')
      BY <2>1, <2>7, <3>1, SuccessIsCounted DEF Exit
    <3>3. Respond(c, err[c]) /\ UNCHANGED <<trouble, blamed>>
      BY <2>7 DEF Exit
    <3> QED
      BY <2>1, <3>1, <3>2, <3>3, CalmAnswer
  <2>8. ASSUME Stored PROVE CalmInv'
    <3>1. \A c \in Callers : err'[c] = None
      BY <2>1, <2>8 DEF Stored, Land
    <3> QED
      BY <1>1, <2>1, <2>8, <3>1 DEF Stored, Land, CalmInv
  <2>9. ASSUME QueryFails PROVE FALSE
    BY <2>1, <2>9 DEF QueryFails
  <2>10. ASSUME BreakerTimeout \/ BreakerInterval \/ RetryTimeout PROVE FALSE
    BY <2>1, <2>10 DEF BreakerTimeout, BreakerInterval, RetryTimeout, Generation, Unharmed
  <2>11. ASSUME StatInterval PROVE CalmInv'
    BY <1>1, <2>1, <2>11 DEF StatInterval, CalmInv, Unharmed, NewSentinel
  <2>12. ASSUME World PROVE CalmInv'
    <3>1. PICK s \in {"database", "redis"} :
             /\ trouble' = IF s \in trouble THEN trouble \ {s} ELSE trouble \union {s}
             /\ IF s = "database" THEN Blame("services") ELSE UNCHANGED blamed
             /\ UNCHANGED <<callVars, failed, breaker, counted, sentinel, rateVars>>
      BY <2>12 DEF World
    <3>2. s = "redis"
      BY <1>3, <2>1, <3>1 DEF Blame
    <3>3. "database" \notin trouble'
      BY <2>1, <3>1, <3>2
    <3> QED
      BY <1>1, <2>1, <3>1, <3>3 DEF CalmInv
  <2>13. CASE QueryOk \/ Limiter \/ UNCHANGED vars
    BY <2>2, <2>13 DEF QueryOk, Limiter, vars
  <2> QED
    BY <2>3, <2>4, <2>5, <2>6, <2>7, <2>8, <2>9, <2>10, <2>11, <2>12, <2>13 DEF Next
<1> QED
  BY <1>2, <1>3

\* GetBalances: whatever errors Redis returns and however long it is silent, until the
\* database fails, a deadline passes, or a caller hangs up or is refused, no client is
\* told of an error and neither breaker moves or counts one.
THEOREM CacheErrorsStayInside == Spec => []CacheErrorsAreHidden
<1>1. CalmInv /\ [Next]_vars => CalmInv'
  BY NextCalmInv
<1>2. CalmInv => CacheErrorsAreHidden
  BY DEF CalmInv, CacheErrorsAreHidden, Unharmed
<1> QED
  BY InitCalmInv, <1>1, <1>2, PTL DEF Spec
=============================================================================
