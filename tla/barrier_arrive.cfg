SPECIFICATION Spec
CONSTANTS
  NumWarps = 2
  Cta = {c0, c1}
  Bar = {0, 1}
  WarpSize = 32
  ALL = ALL
  Kind = "arrive"
  MaxIssued = 1
  Programs <- MCPrograms
PROPERTY OwnBarrierReleases
CHECK_DEADLOCK FALSE
