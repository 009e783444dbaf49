SPECIFICATION MCSpec
CONSTANTS
  h1 = h1  h2 = h2  h3 = h3  p1 = p1  p2 = p2  p3 = p3  f1 = f1  f2 = f2  none = none
  Handlers <- OneHandler
  Paths <- MCPaths
  Files <- MCFileSet
  Home <- MCHome
  NoFile = none
  CrossDevice = TRUE
  MaxOps = 4
  MaxTrash = 2
  MaxCrashes = 1
  NONE = NONE
INVARIANTS
  FilesAreKept ReportsAreTrue FilesAreShownAsTheyAre
PROPERTIES
  ChangesAreExact
SYMMETRY Interleaved
CHECK_DEADLOCK FALSE
