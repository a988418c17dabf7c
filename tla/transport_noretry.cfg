SPECIFICATION Spec
CONSTANTS
  c1 = c1
  c2 = c2
  Callers = {c1}
  Nobody = Nobody
  SetRetryAttempts = 0
  SetRetryDelay = 1
  SetMinInterval = 2
  DefaultAttempts = 2
  DefaultDelay = 1
  DefaultInterval = 1
  RetryAfters = {0, 2}
INVARIANTS
  ConfiguredBudget
