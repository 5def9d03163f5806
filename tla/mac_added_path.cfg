\* Two paths are added before the stream of the first one runs.
SPECIFICATION FairSpec
CONSTANTS
  c1 = c1
  c2 = c2
  e1 = e1
  SinceNow = SinceNow
  Paths <- NestedDirs
  Files <- InnerFile
  Flags = {"ItemIsFile"}
  MaxEvents = 1
  Cbs = {c1}
  Errs = {e1}
  ThreadMayFail = FALSE
  MaxPostFailures = 0
  MaxCalls = 2
PROPERTY AddedPathIsWatched
CHECK_DEADLOCK FALSE
