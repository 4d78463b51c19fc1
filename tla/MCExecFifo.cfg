CONSTANTS
  s1 = s1
  s2 = s2
  r1 = r1
  Starters <- MCStarters
  Runners <- MCRunners
SPECIFICATION Spec
INVARIANTS
  TypeOK
  NotBeforeStart
  OkMeansReleased
  NoLostRelease
PROPERTIES
  ReleaseHappens
CHECK_DEADLOCK FALSE
