SPECIFICATION MCSpec
CONSTANTS
  b1 = b1  b2 = b2  pa = pa  pb = pb  pc = pc  qa = qa  tb = tb  none = none
  Batches <- MCBatches
  Paths <- MCPaths
  Plan <- Separate
  NoFile = none
  DeleteSessions = FALSE
  MaxCrashes = 1
  Blank = Blank
  Unread = Unread
  NONE = NONE

  
PROPERTIES
   RecoveryEnds
CHECK_DEADLOCK FALSE
