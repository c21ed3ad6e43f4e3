SPECIFICATION Spec
CONSTANTS
  s1 = s1
  s2 = s2
  s3 = s3
  h1 = h1
  h2 = h2
  States <- MCThreeStates
  Handles <- MCHandles
  None = none
  SelfAssigns = FALSE
INVARIANTS
  CountsExact
  PendingIsKept
PROPERTIES
  Reclaimed
CHECK_DEADLOCK FALSE
