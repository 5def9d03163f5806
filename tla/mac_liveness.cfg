\* What the fairness of the three threads guarantees.
SPECIFICATION FairSpec
CONSTANTS
  c1 = c1
  c2 = c2
  e1 = e1
  SinceNow = SinceNow
  Paths <- NestedDirs
  Files <- InnerFile
  Flags = {"ItemIsFile", "ItemIsDir"}
  MaxEvents = 2
  Cbs = {c1}
  Errs = {e1}
  ThreadMayFail = FALSE
  MaxPostFailures = 1
  MaxCalls = 2
PROPERTIES
  CallsServed
  EventsCollected
  ChangeReachesCallback
CHECK_DEADLOCK FALSE
