SPECIFICATION Spec
CONSTANTS
  r1 = r1
  r2 = r2
  e1 = e1
  e2 = e2
  p1 = p1
  p2 = p2
  Responder <- MCResponder
  Evidence <- MCEvidence
  Proposal <- MCProposal
  ActionId = {a1}
  Mission = {home, away}
  Home = home
  NoProposal = none
  MaxEvents = 11
SYMMETRY Symmetry
INVARIANTS
  TypeOK
  ProtectedActionsAreApproved
  ClosureIsEarned
  LogExplainsRows
PROPERTY
  AuthorizedSpec
CHECK_DEADLOCK FALSE
