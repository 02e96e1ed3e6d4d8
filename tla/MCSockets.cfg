\* Two sockets of two frames, queues of one.
SPECIFICATION FairSpec
CONSTANTS
  MaxFrames = 2
  MergedMax = 1
  RawMax = 1
INVARIANT
  StreamIsWhole
PROPERTIES
  EndArrives
  CleanUnwindEnds
\* A cancelled session can wait for ever (see UnwindEnds): the system really stops.
CHECK_DEADLOCK FALSE
