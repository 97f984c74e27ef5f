CONSTANTS
  b1 = b1  b2 = b2  b3 = b3  s1 = s1  s2 = s2  r1 = r1  r2 = r2  r3 = r3  h1 = h1  h2 = h2  none = none
  None = none
  Blocks = {b1, b2, b3}
  Sectors = {s1}
  Masks <- AnyBytes
  Ways = 2
  MshrEntries = 2
  MaxMerged = 2
  MissQueueSize = 3
  SubReads = 1
  Configs <- AllConfigs
  Ids = {r1, r2}
SPECIFICATION Spec
SYMMETRY Symmetry
CONSTRAINT DriftBound
INVARIANTS OneAnswer EntryAwaited DirtyCount FillFindsItsLine NoLostWrite
PROPERTY CleanRetry
CHECK_DEADLOCK FALSE
