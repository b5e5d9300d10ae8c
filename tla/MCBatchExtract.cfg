SPECIFICATION Spec
CONSTANTS
  FileHeaders <- AllHeaders
  MaxBlocks = 3
  MaxVolumes = 1
  DictLimit = 1
  Losses = {"absent", "directory"}
INVARIANTS
  TypeOK
  NoRecordedTroubleIsLost
  CancelledIffRefused
  ErrorIsAccountedFor
  SolidStreamIntact
  MissingVolumeFails
PROPERTIES
  BadPasswordNotMasked
  KeepsPromise
  Termination
CHECK_DEADLOCK FALSE
