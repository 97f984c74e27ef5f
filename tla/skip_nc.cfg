SPECIFICATION FairSpec
CONSTANTS
  NWarp = 2
  Reg <- MCReg
  AluSize = 1
  OcSize = 2
  L1QSize = 1
  NetSize = 2
  ResponseSize = 1
  Scenarios <- SkipNc
INVARIANT MissesAwaited
CHECK_DEADLOCK FALSE
