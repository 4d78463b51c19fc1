CONSTANTS
  Containers <- Names
  Files <- AllFiles
  Configs <- AllConfigs
SPECIFICATION Spec
CHECK_DEADLOCK FALSE
INVARIANTS TypeOK LimitsHold QuietCreate Tidy
