CONSTANTS
  a = a
  o1 = o1
  o2 = o2
  o3 = o3
  Others <- MCOthers
  Ops <- MCOps
  Configs <- MCConfigs
SPECIFICATION Spec
INVARIANTS
  TypeOK
  NoneMissed
  FreezeIsIntended
  ExecContained
  ErrRunsNothing
PROPERTIES
  AbandonedEnds
  CommandsReturn
CHECK_DEADLOCK FALSE
