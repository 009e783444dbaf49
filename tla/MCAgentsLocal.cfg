SPECIFICATION LocalSpec
CONSTANTS
  j1 = j1  j2 = j2  a1 = a1  a2 = a2  a3 = a3  s1 = s1
  Jobs = {j1, j2}
  Approvals = {a1, a2}
  Sessions = {s1}
  SessionOf <- MCSessionOf
  LocalFallback = FALSE
  MaxCrashes = 2
  NoJob = NoJob
  NONE = NONE
INVARIANT WaitingJobsCanMove
CHECK_DEADLOCK FALSE
