SPECIFICATION LibrariesSpec
CONSTANTS
  Kinds = {"hashmap"}
  ClearsTombstones = TRUE
  Habits = {}
  Keys = {k0, k1, k2, k3, k8}
  Hash <- HomesApart
  InitSize = 4
  MaxSize = 8
  Vals = {v0, v1}
  Default = v0
  Empty = empty
  Tombstone = tombstone
  Blocks = {b1, b2, b3}
  SharedVars = {s1, s2}
  WeakVars = {w1}
  None = none
  ka = ka
  kb = kb
  kc = kc
  k0 = k0
  k1 = k1
  k2 = k2
  k3 = k3
  k8 = k8
  dead = dead
SYMMETRY Symmetric
PROPERTY ImplementsMap
CHECK_DEADLOCK FALSE
