SPECIFICATION Spec
CONSTANTS
  Archives <- AllArchives
  Modes = {"List", "ListSplit", "Process"}
  MaxHeals = 2
INVARIANTS
  TypeOK
  YieldedInOrder
  EndMeansAll
  FirstIsReadable
  CallbackIsLive
  FreshHandleIsClean
  TruncationIsReported
PROPERTIES
  DamageIsReported
  NothingAfterFailure
  CallsReturn
CHECK_DEADLOCK FALSE
