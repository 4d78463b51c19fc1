CONSTANTS
  Paths <- TreePaths
  Files <- TreeFiles
  Provides <- FileSystems
  Caps <- AllCaps
  MaxOption = 24
  Configs <- AllConfigs
SPECIFICATION Spec
CHECK_DEADLOCK FALSE
INVARIANTS TypeOK  Hardened LayersShown NothingRefused
