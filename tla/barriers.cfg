SPECIFICATION FairSpec
CONSTANTS
  NumWarps = 5
  Cta = {c0, c1}
  Bar = {0, 1}
  WarpSize = 32
  ALL = ALL
  Kind = "any"
  MaxIssued = 4
  Programs <- MCPrograms
INVARIANTS TypeOK Lockstep NoLostWakeup DeallocateAsserts ReducedWhenReleased
PROPERTIES OwnBarrierReleases CtaRetires
CHECK_DEADLOCK FALSE
