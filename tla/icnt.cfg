SPECIFICATION FairSpec
CONSTANTS
  NShader = 2
  NMem = 1
  InLimit = 2
  OutLimit = 1
  EjectSize = 1
  HeldMax = 1
  Tags = {1, 2}
  Arbiters <- EveryCycle
PROPERTIES InOrder IslipFair KeepsMoving
