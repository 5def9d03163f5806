\* Tables, handles and reads under every file system operation and failure; the value
\* of the one handle is given out again whenever the handle is closed.
SPECIFICATION Spec
CONSTANTS
  p1 = p1
  p2 = p2
  h1 = h1
  h2 = h2
  c1 = c1
  c2 = c2
  e1 = e1
  NoHandle = NoHandle
  NoPath = NoPath
  InvalidHandle = InvalidHandle
  Paths = {p1, p2}
  InitialDirs = {p1, p2}
  Handles = {h1}
  MayFail = {"read", "name"}
  FsOps = {"change", "burst", "delete", "create"}
  MaxFsOps = 2
  Cbs = {c1, c2}
  Errs = {e1}
  MaxPostFailures = 1
  MaxCalls = 3
SYMMETRY Symmetry
INVARIANTS
  TypeOK
  IndexesAgree
  BuffersOutliveReads
  NoHandleLeaked
  EmptyEntryIsDisposed
  OpenWatchIsRead
  ShutdownIsClean
CHECK_DEADLOCK FALSE
