SPECIFICATION LibrariesSpec
CONSTANTS
  Kinds = {"hashmap", "pointers"}
  ClearsTombstones = FALSE
  Habits = {"weakInside", "assignFromOwned", "resetInside"}
  Keys = {k0, k1, k2, k8}
  Hash <- OneHome
  InitSize = 4
  MaxSize = 8
  Vals = {v0, v1}
  Default = v0
  Empty = empty
  Tombstone = tombstone
  Blocks = {b1, b2, b3}
  SharedVars = {s1, s2}
  WeakVars = {w1}
  None = none
  ka = ka
  kb = kb
  kc = kc
  k0 = k0
  k1 = k1
  k2 = k2
  k3 = k3
  k8 = k8
  dead = dead
SYMMETRY Symmetric
\* Each of these is violated: leave one in at a time.
INVARIANTS
  BlocksOutliveUse
  SourcesOutliveRelease
  ReleasedOnce
PROPERTY InsertsReuseTombstones
CHECK_DEADLOCK FALSE
