SPECIFICATION FairSpec
CONSTANTS
  Intervals <- MCIntervals
  Offset = 1
  Window = 3
  FillGaps = {2, 3}
  Times <- MCTimes
  Prices = {1, 2}
  Sizes = {1}
  BadTrade = BadTrade
  NoBar = NoBar
  InboxSize = 1
  DropWhenFull = TRUE
  OutSize = 2
  MaxTrades = 3
CHECK_DEADLOCK FALSE
INVARIANTS
  InOrder
  BarsAreTrades
  RollupsAgree
  FlushedInFull
PROPERTIES
  CloseReturns
