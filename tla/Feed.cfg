CONSTANTS
  Coinbase = {cb}
  Binance = {bn}
  Messages <- MCMessages
  OutSize = 2
  ErrSize = 1
  BaseBackoff = 1
  MaxBackoff = 3
SPECIFICATION FairSpec
PROPERTIES
  StopsOnCancel
  Reconnects
CHECK_DEADLOCK FALSE
