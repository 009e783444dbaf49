SPECIFICATION LiveSpec
CONSTANTS
  j1 = j1  j2 = j2  a1 = a1  a2 = a2  a3 = a3  s1 = s1
  Jobs = {j1, j2}
  Approvals = {a1}
  Sessions = {s1}
  SessionOf <- MCSessionOf
  LocalFallback = FALSE
  MaxCrashes = 1
  NoJob = NoJob
  NONE = NONE
PROPERTIES CancelledTurnsEnd ApprovedOperationsSettle
CHECK_DEADLOCK FALSE
