\* What the fairness of the threads and of the kernel guarantees.
SPECIFICATION FairSpec
CONSTANTS
  p1 = p1
  p2 = p2
  i1 = i1
  i2 = i2
  c1 = c1
  c2 = c2
  e1 = e1
  noErr = noErr
  t1 = t1
  t2 = t2
  NoInode = NoInode
  NoPath = NoPath
  Paths = {p1}
  Inodes = {i1, i2}
  InitialDir <- OneDir
  FsOps = {"change", "touch", "delete"}
  MaxFsOps = 2
  NameSizes = {2, 17}
  BufSize = 17
  MaxQueued = 2
  WatchMayFail = FALSE
  MaxWd = 2
  Cbs = {c1}
  Errs = {e1}
  SignalThreads = {t1, t2}
  ReadLimit = 3
  MaxPostFailures = 1
  MayRefuse = {}
  MaxCalls = 2
INVARIANTS
  NoLostWakeup
  RunScheduledOnce
  NothingLeftBehind
PROPERTIES
  CallsServed
  EventsRead
  FirstChangeReaches
CHECK_DEADLOCK FALSE
