SPECIFICATION Spec
CONSTANTS
  p1 = p1
  p2 = p2
  p3 = p3
  Nobody = Nobody
  Procs = {p1, p2, p3}
  MaxUint = 10
  Versions <- MCVersions
  Scenarios <- MCScenarios
CHECK_DEADLOCK FALSE
INVARIANTS
  TypeOK
  BinarySurvives
PROPERTIES
  InstallsVerified
  LatestIsHighest
