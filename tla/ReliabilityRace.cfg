SPECIFICATION Spec
CONSTANTS
  c1 = c1
  c2 = c2
  MaxAttempts = 3
  Threshold = 2
  MaxCrashes = 1
  Controller <- Pair
  Obedience = {TRUE, FALSE}
SYMMETRY Symmetry
INVARIANTS
  ObedientNoBlindRetry
PROPERTIES
  ObedientOpenRejectsAttempts
  LifeSpec
CHECK_DEADLOCK FALSE
