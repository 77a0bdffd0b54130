CONSTANTS
  Listing <- MCListing
  Submission <- MCSubmission
  Query <- MCQuery
  Writer = {w1, w2}
  Target = {"ACTIVE", "UNDER_OFFER", "SOLD"}
  TrustScore = {1}
  MaxAge = 1
  MaxTime = 1
  MaxEvents = 3
  PageSize = 1
  Editor = {ed}
  Evaluator = {ev}
  Apart = TRUE
  MaxVersion = 2
  Reviewer = {"DET", "ann"}
  Detector = "DET"
  Opener = {o1, o2}
  Scene = {"alerts", "review", "lifecycle", "opening"}

SPECIFICATION Spec
INVARIANTS MarketTypeOK ActiveIsFreshest LifecycleIsAPath QuietBaseline NoLostAlert CaseIsAPath RecordedIsComplete
PROPERTIES StaleStaysStale AlertsSpec
CHECK_DEADLOCK FALSE
