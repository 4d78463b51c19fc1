CONSTANT
  Configs <- MCConfigs
SPECIFICATION Spec
INVARIANTS
  TypeOK
  PlacedBeforeWork
  NeverConfused
  PublishedOnlyWhenReady
  ErrLeavesNothing
PROPERTIES
  CreateReturns
  CrashSettles
CHECK_DEADLOCK FALSE
