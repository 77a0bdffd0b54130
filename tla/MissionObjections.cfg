SPECIFICATION Spec
CONSTANTS
  t1 = t1
  t2 = t2
  ann = ann
  bob = bob
  cp = cp
  e1 = e1
  o1 = o1
  Actor <- MCActor
  Evidence = {e1}
  Objection = {o1}
  Task <- MCTask
  Deps <- MCDeps
  Requests <- MCRequests
  ControlPlane = cp
PROPERTIES
  ObjectionsAreResolved
