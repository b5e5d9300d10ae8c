SPECIFICATION Spec
CONSTANTS
  Archives <- AllArchives
  UNP_READ_SIZE_MT = 12
  Align = 2
  Reserve = 2
  TooSmallToProcess = 4
  LargeBlockSize = 18
  MaxUserThreads = 2
INVARIANTS
  TypeOK
  AppliedInOrder
  WholeFileIsUnpacked
PROPERTY Unpacked
CHECK_DEADLOCK FALSE
