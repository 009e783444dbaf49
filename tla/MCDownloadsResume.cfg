SPECIFICATION BytesSpec
CONSTANTS
  Workers = {w1, w2}
  Nobody = nobody
  Handlers = {x1, x2}
  Segs = {s1, s2}
  Requests = {r1}
  MaxFiles = 2
  MaxRetries = 1
  MaxEvents = 2
  NONE = NONE
INVARIANT FinishedIsWhole
CHECK_DEADLOCK FALSE
