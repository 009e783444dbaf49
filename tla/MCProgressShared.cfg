SPECIFICATION BatchSpec
CONSTANTS
  b1 = b1  b2 = b2  pa = pa  pb = pb  pc = pc  qa = qa  tb = tb  none = none
  Batches <- MCBatches
  Paths <- MCPaths
  Plan <- Shared
  NoFile = none
  DeleteSessions = FALSE
  MaxCrashes = 0
  Blank = Blank
  Unread = Unread
  NONE = NONE
INVARIANT AppliedWasMoved
CHECK_DEADLOCK FALSE
