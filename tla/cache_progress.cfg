CONSTANTS
  b1 = b1  b2 = b2  b3 = b3  s1 = s1  s2 = s2  r1 = r1  r2 = r2  r3 = r3  h1 = h1  h2 = h2  none = none
  None = none
  Blocks = {b1, b2}
  Sectors = {s1, s2}
  Masks <- AnyBytes
  Ways = 1
  MshrEntries = 2
  MaxMerged = 1
  MissQueueSize = 3
  SubReads = 2
  Configs <- OlderConfigs
  Ids = {r1, r2}
SPECIFICATION FairSpec
INVARIANTS ReadableHasData ReservedAwaited
PROPERTY Answered
CHECK_DEADLOCK FALSE
