---------------------------- MODULE SplayTreeMap ----------------------------
(***************************************************************************)
(* The prelude's SplayTreeMap (libs/prelude/lib/Core/SplayTreeMap.utp): a  *)
(* binary search tree with parent pointers whose every access rotates the  *)
(* node it reached to the root.  Nodes are named by their keys, numbers    *)
(* from 1; 0 is null.                                                      *)
(***************************************************************************)
EXTENDS Naturals, Sequences, FiniteSets, Functions

CONSTANTS MaxKey, Vals, Default

MaxKeyAssumption == MaxKey \in Nat
DefaultAssumption == Default \in Vals

TreeKeys == 1..MaxKey
Null == 0

VARIABLES left, right, parent, value, root, count

vars == <<left, right, parent, value, root, count>>

Tree == [left |-> left, right |-> right, parent |-> parent, value |-> value,
         root |-> root, count |-> count]
Becomes(t) ==
  /\ left' = t.left /\ right' = t.right /\ parent' = t.parent
  /\ value' = t.value /\ root' = t.root /\ count' = t.count

\* Fields of null are never written.
EmptyTree == [left |-> [k \in TreeKeys |-> Null], right |-> [k \in TreeKeys |-> Null],
              parent |-> [k \in TreeKeys |-> Null],
              value |-> [k \in TreeKeys |-> Default], root |-> Null, count |-> 0]
Init ==
  /\ left = EmptyTree.left /\ right = EmptyTree.right
  /\ parent = EmptyTree.parent /\ value = EmptyTree.value
  /\ root = Null /\ count = 0

-----------------------------------------------------------------------------
(* Rotations and splaying. *)

WithParent(t, x, p) == IF x = Null THEN t ELSE [t EXCEPT !.parent[x] = p]

\* y takes the place of its parent x, below the parent of x.
Replaced(t, x, y) ==
  LET p == t.parent[x] IN
  IF p = Null THEN [t EXCEPT !.root = y]
  ELSE IF x = t.left[p] THEN [t EXCEPT !.left[p] = y]
  ELSE [t EXCEPT !.right[p] = y]

RotateLeft(t, x) ==
  LET y == t.right[x]
      s == WithParent([t EXCEPT !.right[x] = t.left[y]], t.left[y], x)
  IN [Replaced(s, x, y) EXCEPT !.left[y] = x, !.parent[x] = y,
                               !.parent[y] = t.parent[x]]
RotateRight(t, x) ==
  LET y == t.left[x]
      s == WithParent([t EXCEPT !.left[x] = t.right[y]], t.right[y], x)
  IN [Replaced(s, x, y) EXCEPT !.right[y] = x, !.parent[x] = y,
                               !.parent[y] = t.parent[x]]

\* Rotates x above its parent.
Raise(t, x) ==
  IF x = t.left[t.parent[x]] THEN RotateRight(t, t.parent[x])
  ELSE RotateLeft(t, t.parent[x])

\* When x and its parent are children of the same side the grandparent is
\* rotated first.
FirstRaised(t, x) ==
  LET p == t.parent[x] IN
  IF (x = t.left[p]) = (p = t.left[t.parent[p]]) THEN p ELSE x

\* One turn of the loop of _splay: zig, zig-zig or zig-zag.
Turn(t, x) ==
  IF t.parent[t.parent[x]] = Null THEN Raise(t, x)
  ELSE Raise(Raise(t, FirstRaised(t, x)), x)

Splay(t, x) ==
  LET up[n \in 0..MaxKey] ==
        IF n = 0 THEN t
        ELSE IF up[n - 1].parent[x] = Null THEN up[n - 1] ELSE Turn(up[n - 1], x)
  IN [up[MaxKey] EXCEPT !.root = x]

\* The subtree of x a search for k goes on in.
Child(t, x, k) == IF k < x THEN t.left[x] ELSE IF x < k THEN t.right[x] ELSE Null
\* The path of a search for k below x.
Path(t, x, k) ==
  LET path[n \in 0..MaxKey, y \in 0..MaxKey] ==
        IF n = 0 \/ y = Null THEN <<>> ELSE <<y>> \o path[n - 1, Child(t, y, k)]
  IN path[MaxKey, x]

\* The deepest node a search meets: where it falls off the tree, or its key;
\* the first (the mistake).
Shallowest(p) == p[1]
Deepest(p) == p[Len(p)]

\* _splaySearch.
SplaySearch(t, k) ==
  IF t.root = Null THEN t ELSE Splay(t, Deepest(Path(t, t.root, k)))

-----------------------------------------------------------------------------
(* Insertion and removal. *)

\* _insertSplit: k becomes the root; the old root keeps one of its subtrees and
\* the new one takes the other.
InsertSplit(t, k) ==
  LET r == t.root IN
  IF k < r
    THEN [WithParent([t EXCEPT !.left[r] = Null], t.left[r], k)
            EXCEPT !.left[k] = t.left[r], !.right[k] = r,
                   !.parent[r] = k, !.parent[k] = Null, !.root = k]
    ELSE [WithParent([t EXCEPT !.right[r] = Null], t.right[r], k)
            EXCEPT !.right[k] = t.right[r], !.left[k] = r,
                   !.parent[r] = k, !.parent[k] = Null, !.root = k]

\* Both of put and operator[]: the tree in which k is the root, counted when
\* it is new.
Reached(t, k) ==
  LET s == SplaySearch(t, k) IN
  IF s.root = k THEN s
  ELSE [(IF s.root = Null THEN [s EXCEPT !.root = k] ELSE InsertSplit(s, k))
          EXCEPT !.count = @ + 1]

Inserted(t, k, v) == [Reached(t, k) EXCEPT !.value[k] = v]

Put(k, v) == Becomes(Inserted(Tree, k, v))

\* operator[].
Index(k) == Becomes(Reached(Tree, k))

\* containsKey: a search, that splays whatever it found.
ContainsKey(k) ==
  /\ root # Null
  /\ Becomes(SplaySearch(Tree, k))

\* The node of k is gone; still counted (the mistake).
Uncounted(t, k) ==
  [t EXCEPT !.left[k] = Null, !.right[k] = Null, !.parent[k] = Null,
            !.value[k] = Default]
Cleared(t, k) ==
  [t EXCEPT !.left[k] = Null, !.right[k] = Null, !.parent[k] = Null,
            !.value[k] = Default, !.count = @ - 1]

\* The right subtree hung below m; its parent left pointing at the node that
\* was freed (the mistake).
HungSilently(t, r, m) == [t EXCEPT !.right[m] = r]
Hung(t, r, m)         == [WithParent(t, r, m) EXCEPT !.right[m] = r]

\* remove: the largest key on the left becomes the root and adopts the right.
Remove(k) ==
  LET t == SplaySearch(Tree, k)
      l == t.left[k]
      r == t.right[k]
      m == Deepest(Path(t, l, MaxKey + 1))
      s == Splay(WithParent(Cleared(t, k), l, Null), m)
  IN
  /\ root # Null
  /\ IF t.root # k THEN Becomes(t)
     ELSE IF l = Null THEN Becomes([WithParent(Cleared(t, k), r, Null)
                                      EXCEPT !.root = r])
     ELSE Becomes(Hung(s, r, m))

InOrder(t) ==
  LET walk[n \in 0..MaxKey, x \in 0..MaxKey] ==
        IF n = 0 \/ x = Null THEN <<>>
        ELSE walk[n - 1, t.left[x]] \o <<x>> \o walk[n - 1, t.right[x]]
  IN walk[MaxKey, t.root]

\* The copy constructor and operator=: _copyFrom inserts in sorted order.  The
\* copy takes the place of the original here.
CopyFrom ==
  LET keys == InOrder(Tree)
      copy[i \in 0..Len(keys)] ==
        IF i = 0 THEN EmptyTree
        ELSE Inserted(copy[i - 1], keys[i], value[keys[i]])
  IN Becomes(copy[Len(keys)])

\* The keys _destroyTree frees, in order: a left child is rotated up, a root
\* without one is freed.  (A tree of n nodes takes at most 2n turns.)
Destroyed ==
  LET turn[n \in 0..(2 * MaxKey)] ==
        IF n = 0 THEN [tree |-> Tree, freed |-> <<>>]
        ELSE LET s == turn[n - 1]
                 x == s.tree.root
             IN IF x = Null THEN s
                ELSE IF s.tree.left[x] # Null
                  THEN [s EXCEPT !.tree = RotateRight(s.tree, x)]
                ELSE LET r == s.tree.right[x]
                     IN [tree  |-> WithParent([s.tree EXCEPT !.root = r], r, Null),
                         freed |-> Append(s.freed, x)]
  IN turn[2 * MaxKey].freed

Clear == Becomes(EmptyTree)

Next ==
  \/ \E k \in TreeKeys, v \in Vals : Put(k, v)
  \/ \E k \in TreeKeys : Index(k) \/ ContainsKey(k) \/ Remove(k)
  \/ CopyFrom \/ Clear

Spec == Init /\ [][Next]_vars

-----------------------------------------------------------------------------
Present == Range(InOrder(Tree))

TypeOK ==
  /\ {left, right, parent} \subseteq [TreeKeys -> 0..MaxKey]
  /\ value \in [TreeKeys -> Vals]
  /\ root \in 0..MaxKey /\ count \in 0..MaxKey

\* Parent pointers mirror the children's, on the whole tree and from the root
\* down: no rotation leaves a subtree behind or a pointer to a freed node.
ParentsMirror ==
  /\ \A x \in Present : parent[x] = Null <=> x = root
  /\ \A x \in Present, y \in TreeKeys :
       (left[x] = y \/ right[x] = y) => parent[y] = x

\* Iteration runs in ascending order and meets every entry counted, once.
Sorted ==
  /\ \A i, j \in DOMAIN InOrder(Tree) : i < j => InOrder(Tree)[i] < InOrder(Tree)[j]
  /\ Len(InOrder(Tree)) = count

\* _destroyTree frees every node, and each once, whatever shape the tree is in.
DestroysEachOnce ==
  Len(Destroyed) = count /\ Range(Destroyed) = Present

\* Rotations, splits and removals leave a search tree whose parents mirror its
\* children.  (_rotateLeft, _rotateRight, _insertSplit, remove, _destroyTree)
SearchTree == TypeOK /\ ParentsMirror /\ Sorted /\ DestroysEachOnce

Entries == [k \in Present |-> value[k]]

Abstract == INSTANCE KeyValueMap WITH Keys <- TreeKeys, content <- Entries

\* SplayTreeMap is a map: whatever an operation does to the tree, it changes the
\* entry of its own key and no other.
ImplementsMap == Abstract!Spec
=============================================================================
