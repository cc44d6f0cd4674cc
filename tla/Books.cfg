SPECIFICATION BooksSpec
CONSTANTS
  o1 = o1
  o2 = o2
  o3 = o3
  OrderIds = {o1, o2, o3}
  Prices <- MCPrices
  LvIds <- MCLvIds
  MaxQty = 2
  MaxCommands = 5
  ReusedSides = {}
  NoLv = NoLv
  NoNode = NoNode
  NoTaker = NoTaker
SYMMETRY Symmetry
INVARIANTS
  IndexMatchesLevels
  SoundUntilMisplaced
  BooksAgree
PROPERTIES
  PriceTimePriority
