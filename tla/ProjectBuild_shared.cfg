SPECIFICATION Spec
CONSTANTS
  app = app
  low = low
  high = high
  None = None
  Root = app
  Projects <- MCProjects
  Deps <- Flat
  Contents <- MCContents
  Edited <- MCEdited
  Habits = {"sharedOutput"}
INVARIANTS BuildsAreCurrent
