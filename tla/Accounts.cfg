SPECIFICATION FairSpec
CONSTANTS
  Requests = {r1, r2}
  Keys = {k1, k2}
  Hashes = {h1, h2}
  Unencodable = {h2}
  MaxTries = 2
  NoRow = NoRow
  Readers = {c1}
  Handlers = {e1}
  MaxEvents = 1
  NoEntry = NoEntry
CHECK_DEADLOCK FALSE
INVARIANTS
  EffectOnce
  AnswerIsTrue
  FreshAtRest
PROPERTIES
  EventuallyFresh
