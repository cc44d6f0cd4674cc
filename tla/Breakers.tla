------------------------------ MODULE Breakers ------------------------------
(***************************************************************************)
(* The two circuit breakers a call of the funds service passes: the one of *)
(* the client's interceptor (pkg/ratelimit.Manager over gobreaker), and    *)
(* the one of the server's Sentinel interceptor with the rule that the     *)
(* configuration loads for the method.                                     *)
(***************************************************************************)
EXTENDS Naturals, Sequences, SequencesExt

CONSTANTS DefaultRule,   \* NewManager's argument: fields maxRequests, consecutive
          SentinelCfg,   \* the sentinel section: fields enabled, breaker and rules
          StatMax        \* bound: calls in one statistics window

-----------------------------------------------------------------------------
(* The client's breaker.  Counters are those of the current generation.    *)

\* NewManager: what is left out gets a default (5 probes, 10 failures).
Rule == [maxRequests |-> IF DefaultRule.maxRequests = 0 THEN 5 ELSE DefaultRule.maxRequests,
         consecutive |-> IF DefaultRule.consecutive = 0 THEN 10 ELSE DefaultRule.consecutive]

Generation(s) == [state |-> s, requests |-> 0, failures |-> 0, successes |-> 0]

\* Get's ReadyToTrip, with the default rule (no failure rate).
ReadyToTrip(b) == b.failures >= Rule.consecutive

\* gobreaker beforeRequest: requests are only limited, so only counted, half-open.
Admits(b) == b.state = "closed" \/ (b.state = "half" /\ b.requests < Rule.maxRequests)
OnRequest(b) == IF b.state = "half" THEN [b EXCEPT !.requests = @ + 1] ELSE b

\* gobreaker afterRequest, for a request of the current generation.
OnFailure(b) ==
  LET f == [b EXCEPT !.failures = @ + 1, !.successes = 0] IN
  IF b.state = "half" \/ ReadyToTrip(f) THEN Generation("open") ELSE f
OnSuccess(b) ==
  CASE b.state = "closed"                                         -> [b EXCEPT !.failures = 0]
    [] b.state = "half" /\ b.successes + 1 >= Rule.maxRequests    -> Generation("closed")
    [] b.state = "half" /\ b.successes + 1 < Rule.maxRequests     ->
         [b EXCEPT !.successes = @ + 1, !.failures = 0]

-----------------------------------------------------------------------------
(* Sentinel's breaker for one resource.                                    *)

\* initSentinel / InitSentinelFromCfg: which breaker rules are loaded, and with
\* which strategy; rules without a resource are skipped.
Strategy(name) ==
  CASE name = "error_count"        -> "ErrorCount"
    [] name = "slow_request_ratio" -> "SlowRequestRatio"
    [] OTHER                       -> "ErrorRatio"
LoadedRules ==
  IF ~(SentinelCfg.enabled \/ SentinelCfg.breaker) \/ ~SentinelCfg.breaker THEN {}
  ELSE {[resource |-> r.resource, strategy |-> Strategy(r.strategy),
         threshold |-> r.threshold, min |-> r.min] :
          r \in {r \in ToSet(SentinelCfg.rules) : r.resource # ""}}

\* The rules of the method that look at errors; SlowRequestRatio counts slow calls
\* instead, and no length of a call is modelled.
ErrorRules == {r \in LoadedRules : /\ r.resource = "GetBalances"
                                   /\ r.strategy \in {"ErrorCount", "ErrorRatio"}}

\* Thresholds are hundredths.  With a ratio of 0, or a count below 1, a success
\* would already open the breaker.
ASSUME ThresholdAssumption ==
  /\ StatMax \in Nat \ {0}
  /\ \A r \in ErrorRules : /\ r.threshold \in Nat \ {0} /\ r.min \in Nat
                           /\ r.strategy = "ErrorCount" => r.threshold >= 100

\* retry: the retry timeout has passed since the breaker opened.
NewSentinel(s) == [state |-> s, errors |-> 0, total |-> 0, retry |-> FALSE]

\* TryPass: closed, or open for long enough: then this entry is the probe.
TryPass(s) == s.state = "closed" \/ (s.state = "open" /\ s.retry)
Passed(s) == IF s.state = "open" THEN NewSentinel("half") ELSE s

\* A rule asks for MinRequestAmount calls, then for errors or for their ratio.
Trips(r, errors, total) ==
  /\ total >= r.min
  /\ \/ r.strategy = "ErrorCount" /\ errors >= r.threshold \div 100
     \/ r.strategy = "ErrorRatio" /\ 100 * errors >= r.threshold * total

\* The call is counted in the statistics window; StatMax bounds a window's calls.
Counted(s, isErr) ==
  LET w == IF s.total >= StatMax THEN NewSentinel("closed") ELSE s
  IN  [w EXCEPT !.total = @ + 1, !.errors = IF isErr THEN @ + 1 ELSE @]

\* OnRequestComplete: half-open, whatever completes first decides.
Completed(s, isErr) ==
  LET n == Counted(s, isErr) IN
  CASE s.state = "open"   -> s
    [] s.state = "half"   -> NewSentinel(IF isErr THEN "open" ELSE "closed")
    [] s.state = "closed" ->
         IF \E r \in ErrorRules : Trips(r, n.errors, n.total) THEN NewSentinel("open") ELSE n
=============================================================================
