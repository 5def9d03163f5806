\* Two changes, of two watched directories, that one read returns together.
SPECIFICATION FairSpec
CONSTANTS
  p1 = p1
  p2 = p2
  i1 = i1
  i2 = i2
  c1 = c1
  c2 = c2
  e1 = e1
  noErr = noErr
  t1 = t1
  t2 = t2
  NoInode = NoInode
  NoPath = NoPath
  Paths = {p1, p2}
  Inodes = {i1, i2}
  InitialDir <- BothDirs
  FsOps = {"change"}
  MaxFsOps = 2
  NameSizes = {2}
  BufSize = 17
  MaxQueued = 4
  WatchMayFail = FALSE
  MaxWd = 2
  Cbs = {c1}
  Errs = {e1}
  SignalThreads = {t1}
  ReadLimit = 4
  MaxPostFailures = 0
  MayRefuse = {}
  MaxCalls = 2
PROPERTIES
  EveryChangeReaches
CHECK_DEADLOCK FALSE
