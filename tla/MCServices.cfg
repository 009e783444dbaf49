SPECIFICATION MCSpec
CONSTANTS
  q1 = q1  q2 = q2
  OldDisk = OldDisk
  NONE = NONE

    
PROPERTIES
  ActsOnWhatWasApproved
SYMMETRY Alike
CHECK_DEADLOCK FALSE
