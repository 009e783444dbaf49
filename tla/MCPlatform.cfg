SPECIFICATION MCSpec
CONSTANTS
  p1 = p1  p2 = p2
  Procs = {p1, p2}
  Starts <- Databases
  MaxTrouble = 1
  Blank = Blank  Null = Null  NONE = NONE
INVARIANTS
  DataSurvivesUpgrade 
CHECK_DEADLOCK FALSE
