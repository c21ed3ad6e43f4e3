SPECIFICATION FairSpec
CONSTANTS
  f1 = f1
  f2 = f2
  c1 = c1
  c2 = c2
  c3 = c3
  worker = worker
  sched = sched
  NoFuture = NoFuture
  NoCont = NoCont
  Futures <- MCFutures
  Conts <- MCConts
  Threads <- MCThreads
  Scheduler = sched
INVARIANTS
  ExactlyOnePlace
  NoLostWaiter
PROPERTIES
  ImplementsPromise
  ResultsSettle
  KeepsPromise
CHECK_DEADLOCK FALSE
