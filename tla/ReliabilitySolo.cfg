SPECIFICATION Spec
CONSTANTS
  c1 = c1
  c2 = c2
  MaxAttempts = 3
  Threshold = 2
  MaxCrashes = 1
  Controller <- Solo
  Obedience = {TRUE, FALSE}
INVARIANTS
  TypeOK
  JournalAwaitsTheTruth
  CircuitFollowsJournal
  MetricsFollowJournal
PROPERTIES
  Settles
CHECK_DEADLOCK FALSE
