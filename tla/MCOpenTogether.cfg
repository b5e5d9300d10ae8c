SPECIFICATION Spec
CONSTANTS
  Threads = {t1, t2}
  UseCodes = {"CRC"}
INVARIANT OpenErrorIsOwn
CHECK_DEADLOCK FALSE
