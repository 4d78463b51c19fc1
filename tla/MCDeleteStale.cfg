CONSTANTS
  c1 = c1
  c2 = c2
  p1 = p1
  p2 = p2
  Cmds <- MCCmds
  Pids <- MCPids
  MaxBirths = 3
  Serial = FALSE
SPECIFICATION Spec
PROPERTIES
  DeleteSparesRunning
SYMMETRY MCSymmetry
CHECK_DEADLOCK FALSE
