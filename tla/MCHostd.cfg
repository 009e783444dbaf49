SPECIFICATION MCSpec
CONSTANTS
  d1 = d1  d2 = d2  d3 = d3  p1 = p1  p2 = p2
  e1 = e1  n1 = n1  hs = hs  c1 = c1  c2 = c2
  bad = bad  rejected = rejected  Missing = Missing  NONE = NONE
INVARIANTS
  FailedRequestsAreUndone   ShellsAreKept
  
PROPERTIES
   PanelsGoForward
CHECK_DEADLOCK FALSE
