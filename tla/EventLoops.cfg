SPECIFICATION FairSpec
CONSTANTS
  m = m
  a = a
  b = b
  x = x
  j = j
  n = n
  Frames <- MCFrames
  Timers <- MCTimers
  Jobs <- MCJobs
  Main = main
  Sched = sched
  MainFrame = m
  None = n
INVARIANTS
  CountersExact
  NoOrphan
  OneTurn
  WorkerNeverGivesUp
  OwnWorkSettled
PROPERTIES
  ReadyIsResumed
CHECK_DEADLOCK FALSE
