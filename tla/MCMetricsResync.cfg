\* A bar that opens with a resync is kept.
SPECIFICATION Spec
CONSTANTS
  NaN = NaN
  None = None
  NoPrice = NoPrice
  Levels = 2
  Window = 2
  BucketSize = 300
  Tol = 10
  BarLength = 4
  VpinWindow = 2
  Phi <- MCPhi
  Books <- MCBooks
  Trades <- MCTrades
  Steps <- MCSteps
  Clock <- MCClock
  MaxEvents = 4
INVARIANTS
  ResyncBarsDropped
CHECK_DEADLOCK FALSE
