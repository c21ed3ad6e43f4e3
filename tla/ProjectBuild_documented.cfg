\* Habits is {"unlisted"} for the first and {"editsWhileBuilding"} for the second,
\* each of which is then violated.
SPECIFICATION Spec
CONSTANTS
  app = app
  low = low
  high = high
  None = None
  Root = app
  Projects <- MCFewer
  Deps <- Single
  Contents <- MCContents
  Edited <- MCEdited
  Habits = {"unlisted"}
INVARIANTS
  BuildsAreCurrent
  CacheIsHonest
