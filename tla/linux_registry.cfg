\* Callback tables, indexes and shutdown under every file system operation.
SPECIFICATION Spec
CONSTANTS
  p1 = p1
  p2 = p2
  i1 = i1
  i2 = i2
  c1 = c1
  c2 = c2
  e1 = e1
  noErr = noErr
  t1 = t1
  t2 = t2
  NoInode = NoInode
  NoPath = NoPath
  Paths = {p1, p2}
  Inodes = {i1, i2}
  InitialDir <- FirstDir
  FsOps = {"change", "delete", "create", "rename"}
  MaxFsOps = 1
  NameSizes = {2}
  BufSize = 17
  MaxQueued = 3
  WatchMayFail = TRUE
  MaxWd = 3
  Cbs = {c1, c2}
  Errs = {e1}
  SignalThreads = {t1}
  ReadLimit = 4
  MaxPostFailures = 0
  MayRefuse = {p2}
  MaxCalls = 3
SYMMETRY Symmetry
INVARIANTS
  TypeOK
  FreedIsUnwatched
  LiveWatchesIndexed
  EmptyEntryIsDead
  QuietAfterRemoval
  ShutdownIsClean
PROPERTIES
  ImplementsService
CHECK_DEADLOCK FALSE
