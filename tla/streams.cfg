SPECIFICATION FairSpec
CONSTANTS
  Host = {h1, h2}
  Stream = {s1, s2, s3}
  ZERO = ZERO
  Event = {e1}
  FREE = FREE
  s1 = s1
  s2 = s2
  s3 = s3
  e1 = e1
  h1 = h1
  h2 = h2
  Workloads <- AllWorkloads
  MaxCycles = 2
INVARIANT KernelOwnsQueue
PROPERTIES InOrder BlockingReturn ZeroStartsAlone EventOrder EveryoneEnds
CHECK_DEADLOCK FALSE
