SPECIFICATION Spec
CONSTANTS
  MaxChunks = 2
  MaxCalls = 1
  MayRetarget = FALSE
  MayRedirect = FALSE
INVARIANTS
  DisconnectKeepsData
CHECK_DEADLOCK FALSE
