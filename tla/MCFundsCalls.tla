---- MODULE MCFundsCalls ----
EXTENDS FundsCalls

\* Two probes to close again, two failures in a row to trip, and a rule file with
\* the configured rule (half of the calls, of at least two), one for another method
\* and one without a resource.
MCRule == [maxRequests |-> 2, consecutive |-> 2]
MCSentinel ==
  [enabled |-> FALSE, breaker |-> TRUE,
   rules |-> << [resource |-> "", strategy |-> "error_count", threshold |-> 0, min |-> 0],
                [resource |-> "GetBalances", strategy |-> "error_ratio", threshold |-> 50, min |-> 2],
                [resource |-> "Reserve", strategy |-> "error_count", threshold |-> 100, min |-> 0] >>]
====
