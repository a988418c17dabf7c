SPECIFICATION Spec
CONSTANTS
  p1 = p1
  p2 = p2
  n1 = n1
  n2 = n2
  Procs = {p1, p2}
  Commands = {"watch", "delete", "clear", "add", "remove", "refresh", "set", "unset"}
  Names = {n1, n2}
  MaxStamp = 3
  MaxRuns = 2
CHECK_DEADLOCK FALSE
SYMMETRY Alike
INVARIANTS
  TypeOK
  DocumentsWhole
  CopyIsCurrent
PROPERTIES
  LossNeedsOverlap
  SeedKeepsConfig
