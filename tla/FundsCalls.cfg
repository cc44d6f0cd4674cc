CONSTANTS
  DefaultRule <- MCRule
  SentinelCfg <- MCSentinel
  StatMax = 2
  Callers = {a, b}
  Guarded = {a, b}
  NoCaller = NoCaller
  Rate = 1
  Burst = 1
  TTL = 1
  NoBucket = NoBucket
SPECIFICATION FairSpec
INVARIANTS
  ForgettingIsFree
  CacheErrorsAreHidden
PROPERTY BreakersRecover
