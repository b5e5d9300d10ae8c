SPECIFICATION Spec
CONSTANTS
  Archives <- Sound
  Modes = {"Process"}
  MaxHeals = 0
INVARIANT ExtractAllTellsNobody
CHECK_DEADLOCK FALSE
