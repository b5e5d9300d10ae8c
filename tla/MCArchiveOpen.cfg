SPECIFICATION Spec
CONSTANTS
  Threads = {t1, t2}
  UseCodes = {"WARNING", "FATAL", "CRC", "OPEN"}
INVARIANTS
  TypeOK
  FailureIsNotSuccess
  HandlesAreOwned
  UndisturbedErrorIsOwn
CHECK_DEADLOCK FALSE
