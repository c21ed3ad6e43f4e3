----------------------------- MODULE MCLibraries -----------------------------
(***************************************************************************)
(* The smart pointers and the prelude's containers, in one run: a          *)
(* behaviour follows one of them, and the others keep still.               *)
(***************************************************************************)
EXTENDS SmartPointers, OpenAddressingMap, TLC

CONSTANTS
  Kinds,    \* the classes followed
  MaxSize   \* buckets of the hash map, which grows as long as keys come and go

CONSTANTS ka, kb, kc, k0, k1, k2, k3, k8, dead

VARIABLES
  which,
  mapKey, mapValue, prev, next, chain, entryCount, buckets, freeHead,
  left, right, parent, treeValue, root, treeCount

mapVars     == <<mapKey, mapValue, prev, next, chain, entryCount, buckets, freeHead>>
treeVars    == <<left, right, parent, treeValue, root, treeCount>>

\* Two keys that collide up to 8 buckets and one that leaves them at 8.
MapKeys == {ka, kb, kc}
MapHash == [k \in MapKeys |-> CASE k = ka -> 0 [] k = kb -> 8 [] k = kc -> 4]

M == INSTANCE LinkedHashMap WITH
       key <- mapKey, value <- mapValue, Keys <- MapKeys, Hash <- MapHash,
       Dead <- dead, InitCap <- 3, InitBuckets <- 2

\* Three keys with one home, one that follows them.
OneHome == [k \in {k0, k1, k2, k8} |->
              CASE k = k0 -> 3 [] k = k1 -> 11 [] k = k2 -> 7 [] k = k8 -> 0]
\* Four keys with homes of their own in 4 buckets, and one that shares k0's.
HomesApart == [k \in {k0, k1, k2, k3, k8} |->
                 CASE k = k0 -> 0 [] k = k1 -> 1 [] k = k2 -> 2 [] k = k3 -> 3 [] k = k8 -> 8]

T == INSTANCE SplayTreeMap WITH
       value <- treeValue, count <- treeCount, MaxKey <- 5

ASSUME MapAssumption  == M!HashAssumption /\ M!SizesAssumption /\ M!DeadAssumption
ASSUME TreeAssumption == T!MaxKeyAssumption /\ T!DefaultAssumption

\* Only the pointers speak of these.
Symmetric == Permutations(Blocks) \cup Permutations(SharedVars)

LibrariesInit == which \in Kinds /\ M!Init /\ TableInit /\ T!Init /\ Init

Map          == which = "map" /\ M!Next /\ UNCHANGED <<which, tableVars, treeVars, vars>>
HashMap      == /\ which = "hashmap" /\ TableNext /\ Cardinality(DOMAIN bucket') <= MaxSize
                /\ UNCHANGED <<which, mapVars, treeVars, vars>>
SplayTreeMap == which = "tree" /\ T!Next /\ UNCHANGED <<which, mapVars, tableVars, vars>>
Pointers     == which = "pointers" /\ Next /\ UNCHANGED <<which, mapVars, tableVars, treeVars>>

LibrariesNext == Map \/ HashMap \/ SplayTreeMap \/ Pointers
LibrariesSpec ==
  LibrariesInit /\ [][LibrariesNext]_<<which, mapVars, tableVars, treeVars, vars>>

\* Stated and described in the modules they come from: Map is an ordered map and
\* SplayTreeMap a sorted one, whose own structures agree at every moment.
MapAndTreeAreMaps ==
  /\ [](M!StructuresAgree /\ T!SearchTree)
  /\ M!ImplementsOrderedMap /\ T!ImplementsMap
================================================================================
