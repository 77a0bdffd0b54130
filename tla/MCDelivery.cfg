CONSTANTS
  Product <- MCProduct
  Coverage <- MCCoverage
  MaxRevisionRounds = 2
  Package <- MCPackage
  Scope = {"src", "src/api", "web"}
  Path = {"src/api/x", "web/y", "src/z"}
  Inside <- MCInside
  Requirement = {"must", "extra"}
  Must = {"must"}
  Draft <- MCDraft
  Work <- MCWork
  MaxPlanRounds = 1
  MaxWorkRounds = 1
  MaxRuns = 2
  Subject <- MCSubject
  Criterion = {"c1"}
  Implementers <- MCImplementers
  MaxAttempts = 2
  MaxReviews = 3
  Memory = {m1, m2}
  Writer = {w1, w2}
  Lesson <- MCLesson
  Verdict <- MCVerdict
  MaxEvents = 5
  Operator = {p1, p2}
  MaxVersion = 2
  MaxBackups = 3
  Archiver = {a1, a2}
  MaxTime = 3
  MaxLedger = 3
  RetainFor = 1
  Scene = {"design", "build", "assure", "memory", "backup", "archive"}

SPECIFICATION Spec
INVARIANTS DeliveryTypeOK BundleIsCoherent AcceptedPlansExecute ManifestIsBacked ReleaseIsReviewed OnlyRacesBreakTheLog RestoreTellsWhatItRestored ArchiveIsThePast
CHECK_DEADLOCK FALSE
