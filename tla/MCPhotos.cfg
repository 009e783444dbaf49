SPECIFICATION MCSpec
CONSTANTS
  Workers = {w1, w2}
  Paths = {1, 2}
  MaxJobs = 2
  MaxIdent = 2
  MaxLibrary = 2
  MaxOps = 2
  MaxRetries = 1
  Concurrency = 2
  Space = 2
  MaxUploads = 1
  MaxTrouble = 1
  NONE = NONE
INVARIANTS
  ReadyHasDerivative JobsCanBeTakenUp PhotoPublishedOnce 
SYMMETRY Alike
CHECK_DEADLOCK FALSE
