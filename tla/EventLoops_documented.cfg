\* What utopia_async.cpp says of several threads; KeepsAlive and
\* RunsMainToCompletion, put in its place, are violated too.
SPECIFICATION Spec
CONSTANTS
  m = m
  a = a
  b = b
  x = x
  j = j
  n = n
  Frames <- MCTwoFrames
  Timers <- MCTimers
  Jobs <- MCNoJobs
  Main = main
  Sched = sched
  MainFrame = m
  None = n
INVARIANT SafeFromManyThreads
CHECK_DEADLOCK FALSE
