SPECIFICATION Spec
CONSTANTS
  p1 = p1
  p2 = p2
  n1 = n1
  n2 = n2
  Procs = {p1}
  Commands = {"refresh"}
  Names = {n1}
  MaxStamp = 3
  MaxRuns = 1
CHECK_DEADLOCK FALSE
PROPERTIES
  JudgementSurvives
