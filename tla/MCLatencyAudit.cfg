\* An audit to its report, and that it ends.
CONSTANTS
  NEvents = 3
  OffsetSamples = 1
  MaxReconnects = 1
  Skew <- Behind
  MaxDelay = 1
  MaxUpdates = 5
  MaxOther = 1
SPECIFICATION FairSpec
INVARIANTS
  AuditInv
  GapsAreHoles
  ClockBracketsRecord
  ReportIsSound
PROPERTIES
  AuditEnds
