CONSTANT Configs <- AllConfigs
SPECIFICATION Spec
CHECK_DEADLOCK FALSE
INVARIANTS TypeOK OneByOne
PROPERTY TimeoutsHold
