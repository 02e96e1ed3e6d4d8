\* A cancellation that meets the error of a socket.
SPECIFICATION FairSpec
CONSTANTS
  MaxFrames = 1
  MergedMax = 1
  RawMax = 1
PROPERTY
  UnwindEnds
\* A cancelled session can wait for ever (see UnwindEnds): the system really stops.
CHECK_DEADLOCK FALSE
