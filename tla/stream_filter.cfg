\* Parent and child under every interleaving of the actor thread, the main
\* thread, the delivery thread and the extension's process.
SPECIFICATION FairSpec
CONSTANTS
  MaxChunks = 2
  MaxCalls = 3
  MayRetarget = TRUE
  MayRedirect = TRUE
INVARIANTS
  TypeOK
  StopIsLast
  OrderKept
  HandshakesMatch
  ChannelNotStranded
  SuspendKeepsData
PROPERTIES
  LoadFinishes
CHECK_DEADLOCK FALSE
