CONSTANTS
  Listing <- MCListing
  Submission <- MCSubmission
  Query <- MCQuery
  Writer = {w1, w2}
  Target = {"ACTIVE", "UNDER_OFFER", "SOLD"}
  TrustScore = {1}
  MaxAge = 1
  MaxTime = 1
  MaxEvents = 3
  PageSize = 1
  Editor = {ed}
  Evaluator = {ev}
  Apart = FALSE
  MaxVersion = 2
  Reviewer = {"DET", "ann"}
  Detector = "DET"
  Opener = {o1, o2}
  Scene = {"alerts"}

SPECIFICATION Spec
INVARIANT QuietBaseline
CHECK_DEADLOCK FALSE
