\* Stream, lock, tables and events under every interleaving of the two threads.
SPECIFICATION Spec
CONSTANTS
  c1 = c1
  c2 = c2
  e1 = e1
  SinceNow = SinceNow
  Paths <- NestedDirs
  Files <- InnerFile
  Flags = {"ItemIsFile"}
  MaxEvents = 2
  Cbs = {c1, c2}
  Errs = {e1}
  ThreadMayFail = TRUE
  MaxPostFailures = 1
  MaxCalls = 3
SYMMETRY Symmetry
INVARIANTS
  TypeOK
  LockPaired
  StreamFollowsTable
  CallbacksAreHeard
  EventsInOrder
PROPERTIES
  ImplementsService
CHECK_DEADLOCK FALSE
