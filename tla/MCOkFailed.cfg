SPECIFICATION Spec
CONSTANTS
  FileHeaders <- AllHeaders
  MaxBlocks = 2
  MaxVolumes = 1
  DictLimit = 1
  Losses = {"absent"}
PROPERTY OkMeansExtracted
CHECK_DEADLOCK FALSE
