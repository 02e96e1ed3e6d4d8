\* A replay of a few events with the market maker on it.
CONSTANTS
  TopPrice = 6
  Books <- MCBooks
  Changes <- MCChanges
  SpreadTicks = 1
  MaxSkew = 1
  Window = 2
  MaxEvents = 4
  MaxTrades = 1
  MaxOrders = 6
  MaxFill = 3
SPECIFICATION Spec
INVARIANTS
  EnginesReplayCapture
  OneOrderPerSide
  OrdersInv
  PositionIsFills
  PostOnlyOnlyLags
CHECK_DEADLOCK FALSE
