---------------------------- MODULE LinkedHashMap ----------------------------
(***************************************************************************)
(* The prelude's Map (libs/prelude/lib/Core/Map.utp): a flat array of      *)
(* entries threaded by a doubly linked list (insertion order, slot 0 is    *)
(* its sentinel) and by one chain per bucket; removed slots form a free    *)
(* list through the same chain field.  The three structures share the      *)
(* slots, and every operation must leave them in agreement.                *)
(*                                                                         *)
(* A key or value field that is not constructed holds Dead.  Allocation    *)
(* sizes and the hash function are parameters; the code starts with 8      *)
(* entries and 4 buckets.  The end of a chain is None, -1 in the code.     *)
(* Left out: iteration whose callback changes the map.                     *)
(***************************************************************************)
EXTENDS Naturals, Sequences, FiniteSets, Functions

CONSTANTS
  Keys, Vals,
  Default,        \* the value a default constructor makes
  Dead, None,
  Hash,           \* hash<K>
  InitCap, InitBuckets

HashAssumption == Hash \in [Keys -> Nat]
SizesAssumption ==
  InitCap \in Nat /\ InitCap > 2 /\ InitBuckets \in {2^i : i \in 1..8}
DeadAssumption ==
  Dead \notin Keys \cup Vals /\ None \notin Nat /\ Default \in Vals

VARIABLES
  key, value, prev, next, chain,  \* the entries array, by slot
  entryCount,
  buckets,                        \* bucket heads
  freeHead

vars == <<key, value, prev, next, chain, entryCount, buckets, freeHead>>

entryCap   == Cardinality(DOMAIN next)
NumBuckets == Cardinality(DOMAIN buckets)

\* The map as one value, for the helpers that call one another.
This == [key |-> key, value |-> value, prev |-> prev, next |-> next,
         chain |-> chain, count |-> entryCount, buckets |-> buckets,
         free |-> freeHead]
Becomes(m) ==
  /\ key' = m.key /\ value' = m.value /\ prev' = m.prev /\ next' = m.next
  /\ chain' = m.chain /\ entryCount' = m.count /\ buckets' = m.buckets
  /\ freeHead' = m.free

HashIdx(m, k) == Hash[k] % Cardinality(DOMAIN m.buckets)

\* The slots met from e by following f until stop (at most one tour).
Walk(f, e, stop) ==
  LET walk[n \in 0..Cardinality(DOMAIN f), s \in DOMAIN f \cup {stop}] ==
        IF s = stop \/ n = 0 THEN <<>> ELSE <<s>> \o walk[n - 1, f[s]]
  IN walk[Cardinality(DOMAIN f), e]

Order(m) == Walk(m.next, m.next[0], 0)
Chain(m, b) == Walk(m.chain, m.buckets[b], None)

Init ==
  /\ key = [i \in 0..(InitCap - 1) |-> Dead]
  /\ value = key
  /\ prev = [i \in DOMAIN key |-> 0]
  /\ next = prev
  /\ chain = [i \in DOMAIN key |-> None]
  /\ entryCount = 0
  /\ buckets = [b \in 0..(InitBuckets - 1) |-> None]
  /\ freeHead = None

-----------------------------------------------------------------------------
(* The internal helpers. *)

FindIndex(m, k) ==
  LET hits == SelectSeq(Chain(m, HashIdx(m, k)), LAMBDA e : m.key[e] = k)
  IN IF hits = <<>> THEN None ELSE hits[1]

\* _rebuildBuckets, with n buckets: the live entries one after the other, each
\* put at the head of its chain.
RebuildBuckets(m, n) ==
  LET cleared == [m EXCEPT !.buckets = [b \in 0..(n - 1) |-> None]]
      order == Order(m)
      link[i \in 0..Len(order)] ==
        IF i = 0 THEN cleared
        ELSE LET r == link[i - 1]
                 h == HashIdx(r, r.key[order[i]])
             IN [r EXCEPT !.chain[order[i]] = r.buckets[h],
                          !.buckets[h] = order[i]]
  IN link[Len(order)]

\* _growEntries: live entries move to 1..n of an array twice as long.
GrowEntries(m) ==
  LET order == Order(m)
      n     == Len(order)
      slots == 0..(2 * Cardinality(DOMAIN m.next) - 1)
      At(f, i, other) == IF i \in 1..n THEN f[order[i]] ELSE other
  IN RebuildBuckets(
       [m EXCEPT !.key   = [i \in slots |-> At(m.key, i, Dead)],
                 !.value = [i \in slots |-> At(m.value, i, Dead)],
                 !.prev  = [i \in slots |-> IF i = 0 THEN n
                                            ELSE IF i <= n THEN i - 1 ELSE 0],
                 !.next  = [i \in slots |-> IF i < n THEN i + 1 ELSE 0],
                 !.chain = [i \in slots |-> None],
                 !.free  = None],
       Cardinality(DOMAIN m.buckets))

\* _newSlot: the map and the slot it returns.
NewSlot(m) ==
  IF m.free # None
    THEN [map |-> [m EXCEPT !.free = m.chain[m.free]], slot |-> m.free]
    ELSE [map  |-> IF m.count + 2 > Cardinality(DOMAIN m.next)
                     THEN GrowEntries(m) ELSE m,
          slot |-> m.count + 1]

\* When the bucket table doubles: from three quarters full on.
Overloaded(count, n) == count * 4 >= n * 3

\* _linkEntry: into its chain and to the end of the list, then the load test.
LinkEntry(m, e) ==
  LET h      == HashIdx(m, m.key[e])
      last   == m.prev[0]
      linked == [m EXCEPT !.chain[e] = m.buckets[h], !.buckets[h] = e,
                          !.prev = [@ EXCEPT ![e] = last, ![0] = e],
                          !.next = [[@ EXCEPT ![e] = 0] EXCEPT ![last] = e],
                          !.count = @ + 1]
      n      == Cardinality(DOMAIN m.buckets)
  IN IF Overloaded(linked.count, n) THEN RebuildBuckets(linked, 2 * n)
     ELSE linked

InsertNew(m, k, v) ==
  LET new == NewSlot(m)
  IN LinkEntry([new.map EXCEPT !.key[new.slot] = k, !.value[new.slot] = v],
               new.slot)

-----------------------------------------------------------------------------
(* The public operations. *)

Put(k, v) ==
  LET e == FindIndex(This, k)
  IN Becomes(IF e = None THEN InsertNew(This, k, v)
             ELSE [This EXCEPT !.value[e] = v])

\* operator[], when it inserts.
Index(k) ==
  /\ FindIndex(This, k) = None
  /\ Becomes(InsertNew(This, k, Default))

\* The chain of a bucket without slot e; a chain cut at its head whatever e is
\* (the mistake).
CutHead(m, b, e) == [m EXCEPT !.buckets[b] = m.chain[m.buckets[b]]]
Unchained(m, b, e) ==
  LET c == Chain(m, b)
      i == CHOOSE j \in DOMAIN c : c[j] = e
  IN IF i = 1 THEN [m EXCEPT !.buckets[b] = m.chain[e]]
     ELSE [m EXCEPT !.chain[c[i - 1]] = m.chain[e]]

\* The insertion order without slot e; only one of its two neighbours told
\* (the mistake).
HalfUnlisted(m, e) == [m EXCEPT !.next[m.prev[e]] = m.next[e]]
Unlisted(m, e) ==
  [m EXCEPT !.next[m.prev[e]] = m.next[e], !.prev[m.next[e]] = m.prev[e]]

\* The slot joins the free list; it is still counted (the mistake).
Uncounted(m, e) ==
  [m EXCEPT !.key[e] = Dead, !.value[e] = Dead, !.chain[e] = m.free,
            !.free = e]
Freed(m, e) ==
  [m EXCEPT !.key[e] = Dead, !.value[e] = Dead, !.chain[e] = m.free,
            !.free = e, !.count = @ - 1]

Remove(k) ==
  LET e == FindIndex(This, k) IN
  /\ e # None
  /\ Becomes(Freed(Unlisted(Unchained(This, HashIdx(This, k), e), e), e))

\* clear: every live slot to the free list, in order.
Clear ==
  LET order == Order(This)
      emptied[i \in 0..Len(order)] ==
        IF i = 0 THEN This ELSE Freed(emptied[i - 1], order[i])
  IN Becomes([emptied[Len(order)] EXCEPT
                !.prev[0] = 0, !.next[0] = 0,
                !.buckets = [b \in DOMAIN buckets |-> None]])

\* The copy constructor and operator=, _copyFrom: links are copied slot by
\* slot, keys and values along the list.  The copy takes the place of the
\* original here.
CopyFrom ==
  LET live == Range(Order(This))
      Kept(f) == [i \in DOMAIN f |-> IF i \in live THEN f[i] ELSE Dead]
  IN Becomes([This EXCEPT !.key = Kept(key), !.value = Kept(value)])

Next ==
  \/ \E k \in Keys, v \in Vals : Put(k, v)
  \/ \E k \in Keys : Index(k) \/ Remove(k)
  \/ Clear \/ CopyFrom

Spec == Init /\ [][Next]_vars

-----------------------------------------------------------------------------
Slots == 1..(entryCap - 1)
Live  == Range(Order(This))
FreeList == Walk(chain, freeHead, None)

TypeOK ==
  /\ key \in [DOMAIN next -> Keys \cup {Dead}]
  /\ value \in [DOMAIN next -> Vals \cup {Dead}]
  /\ DOMAIN next = 0..(entryCap - 1)
  /\ {prev, next} \subseteq [DOMAIN next -> DOMAIN next]
  /\ chain \in [DOMAIN next -> Slots \cup {None}]
  /\ entryCount \in 0..(entryCap - 1)
  /\ buckets \in [0..(NumBuckets - 1) -> Slots \cup {None}]
  /\ freeHead \in Slots \cup {None}

\* The insertion-order list is a ring through the sentinel: prev undoes next,
\* and it holds as many slots as length() says.
ListIsARing ==
  /\ \A e \in Live \cup {0} : prev[next[e]] = e
  /\ Len(Order(This)) = entryCount /\ Cardinality(Live) = entryCount

\* Every live entry is in the chain of its own bucket, once, and the chains
\* hold nothing else: _findIndex sees each entry and never a destructed key.
ChainsHoldTheLive ==
  /\ UNION {Range(Chain(This, b)) : b \in DOMAIN buckets} = Live
  /\ \A b \in DOMAIN buckets :
       \A i, j \in DOMAIN Chain(This, b) :
         /\ HashIdx(This, key[Chain(This, b)[i]]) = b
         /\ Chain(This, b)[i] = Chain(This, b)[j] => i = j

\* The slots in use and the free list are disjoint and together they are the
\* first slots of the array: the slot _newSlot takes when the free list is
\* empty, entryCount + 1, is never a live one.
SlotsAreLiveOrFree ==
  /\ Live \cap Range(FreeList) = {}
  /\ Cardinality(Range(FreeList)) = Len(FreeList)
  /\ Live \cup Range(FreeList) = 1..(entryCount + Len(FreeList))

\* Exactly the live entries are constructed, each key once: nothing is
\* destructed twice, leaked or overwritten alive.
ConstructedOnce ==
  /\ \A i \in DOMAIN key :
       (key[i] # Dead <=> i \in Live) /\ (value[i] # Dead <=> i \in Live)
  /\ \A i, j \in Live : key[i] = key[j] => i = j

\* The bucket table never fills beyond its load factor.
LoadFactor == entryCount * 4 < NumBuckets * 3

\* Insertion order, chains and free list agree on which slots are live, and
\* the objects in the slots agree with them.  (_linkEntry, remove,
\* _rebuildBuckets and _growEntries each relink two or three of them.)
StructuresAgree ==
  /\ TypeOK /\ ListIsARing /\ ChainsHoldTheLive /\ SlotsAreLiveOrFree
  /\ ConstructedOnce /\ LoadFactor

\* What forEach, keys and values iterate over.
Entries ==
  [i \in 1..Len(Order(This)) |-> <<key[Order(This)[i]], value[Order(This)[i]]>>]

Ordered == INSTANCE InsertionOrderedMap WITH content <- Entries

\* The map is an insertion-ordered map: every operation does to the entries a
\* reader sees what InsertionOrderedMap says, growth and copies included.
ImplementsOrderedMap == Ordered!Spec
=============================================================================
