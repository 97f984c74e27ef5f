SPECIFICATION FairSpec
CONSTANTS
  k1 = k1
  k2 = k2
  k3 = k3
  NULL = NULL
  Kernel = {k1, k2, k3}
  NumSlots = 2
  NumClusters = 2
  CoresPerCluster = 2
  NumThreads = 4
  MaxCta = 2
  ShmemSize = 2
  Workloads <- MCWorkloads
INVARIANTS AssertsHold Accounted FinishedIsOver
PROPERTY KernelsFinish
CHECK_DEADLOCK FALSE
