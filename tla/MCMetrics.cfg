\* Streaming and batch metrics over every short tape.
SPECIFICATION Spec
CONSTANTS
  NaN = NaN
  None = None
  NoPrice = NoPrice
  Levels = 2
  Window = 2
  BucketSize = 300
  Tol = 10
  BarLength = 4
  VpinWindow = 2
  Phi <- MCPhi
  Books <- MCBooks
  Trades <- MCTrades
  Steps <- MCSteps
  Clock <- MCClock
  MaxEvents = 4
INVARIANTS
  StreamAgainstBatch
  FlowIsSound
  BarsAreExact
  BarsAroundResyncs
  TradeStreamIsBatch
CHECK_DEADLOCK FALSE
