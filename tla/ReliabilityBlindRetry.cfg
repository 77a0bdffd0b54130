SPECIFICATION Spec
CONSTANTS
  c1 = c1
  c2 = c2
  MaxAttempts = 3
  Threshold = 2
  MaxCrashes = 0
  Controller <- Solo
  Obedience = {FALSE}
INVARIANT
  NoBlindRetry
CHECK_DEADLOCK FALSE
