\* Two runs over one tape, each ended anywhere by a signal, a failed write, a full
\* disk or a crash; after the last run nothing happens any more.
SPECIFICATION RSpec
CONSTANTS
  near = near
  deep = deep
  Level <- MCLevel
  History <- MCHistory
  Visible <- MCVisible
  MaxId = 2
  RestLag = 1
  MaxTrades = 1
  BufferSize = 2
  Periodic = TRUE
  MaxQueue = 1
  MaxAnswers = 2
  MaxRuns = 2
INVARIANTS
  TapeReplays
  TapeInOrder
  RebuiltIsFaithful
  RecorderInv
PROPERTY
  NothingAfterAHole
CHECK_DEADLOCK FALSE
