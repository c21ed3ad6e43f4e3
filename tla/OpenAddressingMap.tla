-------------------------- MODULE OpenAddressingMap --------------------------
(***************************************************************************)
(* The prelude's HashMap (libs/prelude/lib/Core/HashMap.utp): one array of *)
(* buckets, linear probing from a key's home bucket, tombstones where      *)
(* entries were removed.  A search stops at the first empty bucket, so an  *)
(* entry is only found while no bucket between its home and itself is      *)
(* empty; the table grows when occupied buckets and tombstones together    *)
(* reach three quarters of it.                                             *)
(*                                                                         *)
(* ClearsTombstones: does the program ever clear a map that has removed    *)
(* entries since it last grew?  clear leaves their buckets as they are.    *)
(***************************************************************************)
EXTENDS Integers, FiniteSets, FiniteSetsExt

CONSTANTS
  Keys, Vals,
  Default,          \* the value a default constructor makes
  Empty, Tombstone, \* buckets without an entry
  Hash,             \* hash<K>
  InitSize,         \* buckets at first, 4 in the code
  ClearsTombstones

ASSUME HashAssumption == Hash \in [Keys -> Nat]
\* A power of two in the code, so that & _mask is % size.
ASSUME SizeAssumption == InitSize \in Nat /\ InitSize >= 4
ASSUME BucketAssumption ==
  /\ {Empty, Tombstone} \cap Keys = {} /\ Empty # Tombstone
  /\ Default \in Vals /\ ClearsTombstones \in BOOLEAN

VARIABLES
  bucket,     \* the key in each bucket, Empty or Tombstone
  value,      \* the value in each occupied bucket
  count,      \* _count
  tombstones  \* _tombstones

tableVars == <<bucket, value, count, tombstones>>

This == [bucket |-> bucket, value |-> value, count |-> count,
         tombstones |-> tombstones]
Becomes(m) ==
  /\ bucket' = m.bucket /\ value' = m.value
  /\ count' = m.count /\ tombstones' = m.tombstones

Size(m)        == Cardinality(DOMAIN m.bucket)
Occupied(m)    == {i \in DOMAIN m.bucket : m.bucket[i] \in Keys}
Home(m, k)     == Hash[k] % Size(m)
\* The bucket i steps after the home of k.
Probe(m, k, i) == (Hash[k] + i) % Size(m)
Nowhere        == -1

NoEntries(n) == [bucket |-> [i \in 0..(n - 1) |-> Empty],
                 value  |-> [i \in 0..(n - 1) |-> Default],
                 count  |-> 0, tombstones |-> 0]

TableInit ==
  LET m == NoEntries(InitSize)
  IN /\ bucket = m.bucket /\ value = m.value
     /\ count = m.count /\ tombstones = m.tombstones

-----------------------------------------------------------------------------
(* The internal helpers. *)

\* The first step of a probe at which test holds of the bucket met.
FirstStep(m, k, test(_)) ==
  LET steps == {i \in DOMAIN m.bucket : test(m.bucket[Probe(m, k, i)])}
  IN IF steps = {} THEN Nowhere ELSE Min(steps)

\* _find.
Find(m, k) ==
  LET i == FirstStep(m, k, LAMBDA b : b \in {k, Empty})
  IN IF i = Nowhere \/ m.bucket[Probe(m, k, i)] = Empty THEN Nowhere
     ELSE Probe(m, k, i)

\* The entry of bucket i of m, moved to the first empty bucket of its probe.
Moved(new, m, i) ==
  LET j == Probe(new, m.bucket[i],
                 FirstStep(new, m.bucket[i], LAMBDA b : b = Empty))
  IN [new EXCEPT !.bucket[j] = m.bucket[i], !.value[j] = m.value[i]]

\* _grow: a table twice as long, filled in the order of the old one.
Grow(m) ==
  LET fill[n \in 0..Size(m)] ==
        IF n = 0 THEN [NoEntries(2 * Size(m)) EXCEPT !.count = m.count]
        ELSE IF n - 1 \in Occupied(m) THEN Moved(fill[n - 1], m, n - 1)
             ELSE fill[n - 1]
  IN fill[Size(m)]

\* What the load test counts: entries and tombstones; entries only (the
\* mistake).
EntriesOnly(m) == m.count
Used(m)        == m.count + m.tombstones

\* Where _insertSlot puts an absent key: the first empty bucket; the first
\* tombstone only when there is none, for an empty bucket met after a tombstone
\* takes its place.
FreeStep(m, k) ==
  LET e == FirstStep(m, k, LAMBDA b : b = Empty)
  IN IF e # Nowhere THEN e ELSE FirstStep(m, k, LAMBDA b : b = Tombstone)

Reuses(m, j) == m.bucket[j] = Tombstone

\* _insertSlot and the construction of the value.  When no bucket is free the
\* table grows and the key goes to its home bucket whatever is there.
Place(m, k, v, j) ==
  [m EXCEPT !.bucket[j] = k, !.value[j] = v, !.count = @ + 1,
            !.tombstones = IF Reuses(m, j) THEN @ - 1 ELSE @]
Insert(m, k, v) ==
  LET r == IF Used(m) * 4 >= Size(m) * 3 THEN Grow(m) ELSE m
      i == FreeStep(r, k)
  IN IF i # Nowhere THEN Place(r, k, v, Probe(r, k, i))
     ELSE Place(Grow(r), k, v, Home(Grow(r), k))

-----------------------------------------------------------------------------
(* The public operations. *)

Put(k, v) ==
  LET i == Find(This, k)
  IN Becomes(IF i = Nowhere THEN Insert(This, k, v)
             ELSE [This EXCEPT !.value[i] = v])

\* operator[], when it inserts.
Index(k) == Find(This, k) = Nowhere /\ Becomes(Insert(This, k, Default))

\* What a removed entry leaves: a tombstone; nothing (the mistake).
EmptyBucket(i) == Empty
Left(i)        == Tombstone

Remove(k) ==
  LET i == Find(This, k) IN
  /\ i # Nowhere
  /\ Becomes([This EXCEPT !.bucket[i] = Left(i), !.value[i] = Default,
                          !.count = @ - 1, !.tombstones = @ + 1])

\* clear empties the occupied buckets only, but forgets every tombstone.
Clear ==
  /\ ClearsTombstones \/ tombstones = 0
  /\ Becomes([NoEntries(Size(This)) EXCEPT
                !.bucket = [i \in DOMAIN bucket |->
                              IF i \in Occupied(This) THEN Empty
                              ELSE bucket[i]]])

TableNext ==
  \/ \E k \in Keys, v \in Vals : Put(k, v)
  \/ \E k \in Keys : Index(k) \/ Remove(k)
  \/ Clear

TableSpec == TableInit /\ [][TableNext]_tableVars

-----------------------------------------------------------------------------
TableTypeOK ==
  /\ DOMAIN bucket = 0..(Size(This) - 1)
  /\ bucket \in [DOMAIN bucket -> Keys \cup {Empty, Tombstone}]
  /\ value \in [DOMAIN bucket -> Vals]
  /\ count \in Nat /\ tombstones \in Nat

\* The two counters are the numbers of the buckets they stand for, which is
\* what the load test relies on.
CountersExact ==
  /\ count = Cardinality(Occupied(This))
  /\ tombstones = Cardinality({i \in DOMAIN bucket : bucket[i] = Tombstone})

\* A probe always ends at an empty bucket ("kept so probes never stall"), and
\* the insertion's fallback for a full table is never taken.
ProbesEnd == \E i \in DOMAIN bucket : bucket[i] = Empty

\* Every entry is found from its home bucket, and by its own key only: no
\* removal or growth cuts a probe sequence short or leaves a key twice.
EntriesAreFound ==
  \A i \in Occupied(This) : Find(This, bucket[i]) = i

\* Searches end, and end at the entry of their key, whatever insertions,
\* removals and growths went before.  (_find, _insertSlot, _grow)
ProbesAreSound == TableTypeOK /\ CountersExact /\ ProbesEnd /\ EntriesAreFound

\* An insertion that meets a tombstone before an empty bucket takes its place.
\* (HashMap.utp:24: "Removed entries leave tombstones that later inserts reuse")
InsertsReuseTombstones ==
  [][\A k \in Keys :
       LET i == FirstStep(This, k, LAMBDA b : b \in {Empty, Tombstone})
       IN (/\ Find(This, k) = Nowhere /\ \E j \in DOMAIN bucket' : bucket'[j] = k
           /\ i # Nowhere /\ bucket[Probe(This, k, i)] = Tombstone)
          => tombstones' < tombstones]_tableVars

\* What a reader sees.
Entries ==
  [k \in {bucket[i] : i \in Occupied(This)} |->
     value[CHOOSE i \in Occupied(This) : bucket[i] = k]]

Abstract == INSTANCE KeyValueMap WITH content <- Entries

\* HashMap is a map: an operation changes the entry of its own key and no
\* other, through probing, tombstones and growth.
ImplementsMap == Abstract!Spec
=============================================================================
