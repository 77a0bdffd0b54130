SPECIFICATION Spec
CONSTANTS
  ann = ann
  bob = bob
  e1 = e1
  r1 = r1
  r2 = r2
  Actor = {ann, bob}
  Evidence = {e1}
  Objection = {}
  Runner = {r1, r2}
  Task = {t1}
  x = x
  Requests <- MCRequests
  Supplied = {}
  MaxEvents = 6
INVARIANTS
  MissionSurvivesRestart
CHECK_DEADLOCK FALSE
