\* A callback that is added while its path is being removed.
SPECIFICATION Spec
CONSTANTS
  p1 = p1
  p2 = p2
  h1 = h1
  h2 = h2
  c1 = c1
  c2 = c2
  e1 = e1
  NoHandle = NoHandle
  NoPath = NoPath
  InvalidHandle = InvalidHandle
  Paths = {p1}
  InitialDirs = {p1}
  Handles = {h1}
  MayFail = {}
  FsOps = {}
  MaxFsOps = 0
  Cbs = {c1}
  Errs = {e1}
  MaxPostFailures = 0
  MaxCalls = 4
PROPERTIES
  RemovalUnregisters
CHECK_DEADLOCK FALSE
