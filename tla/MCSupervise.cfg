CONSTANTS
  o1 = o1
  o2 = o2
  FORWARDED <- MCForwarded
  Orphans <- MCOrphans
SPECIFICATION Spec
INVARIANTS
  TypeOK
  InitsOutcome
PROPERTIES
  ReturnsWhenInitEnds
  SignalsArrive
  OrphansReaped
CHECK_DEADLOCK FALSE
