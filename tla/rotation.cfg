SPECIFICATION FairSpec
CONSTANTS
  c1 = c1
  c2 = c2
  good = good
  bad = bad
  N = 2
  Cooldown = 3
  Callers = {c1, c2}
  Work <- MCWorkGood
  Missing = {bad}
  Refs = {good, bad}
  Interval = 2
  MaxAttempt = 1
  MaxOutages = 3
INVARIANTS
  TypeOK
PROPERTIES
  AllAttempted
  RefusalJustified
  Served
  CallsEnd
