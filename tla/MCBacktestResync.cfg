\* The same replay, asked what a resync leaves in the engine's book.
CONSTANTS
  TopPrice = 6
  Books <- MCBooks
  Changes <- MCChanges
  SpreadTicks = 1
  MaxSkew = 1
  Window = 2
  MaxEvents = 4
  MaxTrades = 0
  MaxOrders = 0
  MaxFill = 1
SPECIFICATION Spec
PROPERTY ResyncCovers
CHECK_DEADLOCK FALSE
