\* Wake-up packets, shutdown and delivery of changes, with two paths on one handle value.
SPECIFICATION FairSpec
CONSTANTS
  p1 = p1
  p2 = p2
  h1 = h1
  h2 = h2
  c1 = c1
  c2 = c2
  e1 = e1
  NoHandle = NoHandle
  NoPath = NoPath
  InvalidHandle = InvalidHandle
  Paths = {p1, p2}
  InitialDirs = {p1, p2}
  Handles = {h1}
  MayFail = {}
  FsOps = {"change", "delete"}
  MaxFsOps = 1
  Cbs = {c1}
  Errs = {e1}
  MaxPostFailures = 0
  MaxCalls = 3
INVARIANTS
  NoCallStuck
PROPERTIES
  CallsServed
  ThreadJoined
  
CHECK_DEADLOCK FALSE
