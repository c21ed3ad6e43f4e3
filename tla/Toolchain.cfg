SPECIFICATION ToolSpec
CONSTANTS
  Parts = {"imports", "preprocess", "format", "fetch", "build"}
  p = p
  a = a
  b = b
  c = c
  nowhere = nowhere
  None = None
  Prelude = p
  Modules <- MCModules
  Missing <- MCMissing
  InPrelude <- MCInPrelude
  Roots <- MCRoots
  PageWidth = 12
  MaxAttempts = 50
  Widths = {2, 3, 4, 6, 7}
  Lines <- MCLines
  Predefined = {"B"}
  Names <- MCNames
  Versions = {1, 2}
  AnyVersion = 0
  MaxGets = 2
INVARIANTS ReturnedAreLinked CyclesAreReported AcceptedIsComplete
           CheapestFit KeptAsNested SuccessMeansUsable
           BuildsAreCurrent CacheIsHonest
CHECK_DEADLOCK FALSE
