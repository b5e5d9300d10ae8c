SPECIFICATION Spec
CONSTANTS
  FileHeaders <- AllHeaders
  MaxBlocks = 2
  MaxVolumes = 1
  DictLimit = 1
  Losses = {"absent"}
INVARIANT CompletedMeansExhausted
CHECK_DEADLOCK FALSE
