\* stop() whose cancellation is swallowed, or replaced by the socket's error.
SPECIFICATION FairSpec
CONSTANTS
  near = near
  deep = deep
  Level <- MCLevel
  History <- MCHistory
  Visible <- MCVisible
  MaxId = 1
  MaxBuffer = 1
  MaxWire = 1
  RawMax = 1
  QueueMax = 1
  MaxRetries = 0
  RestLag = 0
  Extras = {}
PROPERTY
  StopEnds
