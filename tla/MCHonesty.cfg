\* The report of the honesty check against a live feed, with trades and
\* unreadable frames, a 429 and answers that lag.
SPECIFICATION HSpec
CONSTANTS
  near = near
  next = next
  deep = deep
  Level <- MCLevel
  History <- MCHistory
  Visible <- MCVisible
  Rank <- MCRank
  TopN = 1
  MaxId = 2
  MaxBuffer = 1
  MaxWire = 1
  RawMax = 1
  QueueMax = 1
  MaxRetries = 1
  RestLag = 1
  Extras = {"trade", "garbled"}
INVARIANTS
  CopyFaithful
  LiveFaithful
  ReportInv
