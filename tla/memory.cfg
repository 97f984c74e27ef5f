SPECIFICATION FairSpec
CONSTANTS
  NSub = 2
  NBank = 2
  Row <- MCRows
  IcntL2Size = 2
  L2DramSize = 1
  DramL2Size = 1
  L2IcntSize = 1
  MissSize = 2
  SectorChunk = 2
  SchedSize = 1
  WriteSize = 2
  High = 2
  Low = 1
  RwSize = 1
  ReturnSize = 1
  Configs <- MCConfigs
  Workloads <- MCWorkloads
INVARIANTS CreditsConserved Tracked
PROPERTY Drained
CHECK_DEADLOCK FALSE
