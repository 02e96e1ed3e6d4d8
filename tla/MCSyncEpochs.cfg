\* Held, dropped and replayed diffs.
SPECIFICATION Spec
CONSTANTS
  near = near
  deep = deep
  Level <- MCLevel
  History <- MCHistory
  Visible <- MCVisible
  MaxId = 6
  MaxBuffer = 2
INVARIANTS
  ReplayFaithful
  SyncInv
