\* The feed, consumed and fair: its two books, its queue and its liveness.
SPECIFICATION FairPSpec
CONSTANTS
  near = near
  deep = deep
  Level <- MCLevel
  History <- MCHistory
  Visible <- MCVisible
  MaxId = 3
  MaxBuffer = 1
  MaxWire = 1
  RawMax = 1
  QueueMax = 1
  MaxRetries = 0
  RestLag = 0
  Extras = {"list"}
INVARIANTS
  TypeOK
  BookFaithful
  ReplicaFaithful
  StreamReplays
  Lockstep
  IInv
PROPERTIES
  LiveBookIsReplica
  ConsumerBookIsReplica
  QueueKeepsItsPromise
  Resyncs
  WireDrains
  CancelEnds
