SPECIFICATION FairSpec
CONSTANTS
  Conns = {c1}
  Topics = {t1, t2}
  MaxFlush = 2
  ChanSize = 1
  MaxPub = 2
  MaxOps = 2
CHECK_DEADLOCK FALSE
INVARIANTS
  TokenForPayload
  FreshWithoutRace
PROPERTIES
  PumpsEnd
  PayloadIsWritten
