SPECIFICATION FairSpec
CONSTANTS
  Workers = {w1}
  Handlers = {h1}
  Step = 1
  DepositBlocks = {1, 3}
  ReadCount = 2
  RpcSize = 1
  AckSize = 1
  MaxHeight = 4
  MaxFaults = 0
  NoEntry = NoEntry
CHECK_DEADLOCK FALSE
PROPERTIES
  FullIsRetried
