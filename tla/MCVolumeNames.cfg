SPECIFICATION Spec
CONSTANTS
  Sets <- AllSets
INVARIANTS
  TypeOK
  NthPartAgrees
  GlobCoversAll
PROPERTIES
  NoVolumeSkipped
  AllVolumesRead
CHECK_DEADLOCK FALSE
