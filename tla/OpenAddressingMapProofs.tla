---------------------- MODULE OpenAddressingMapProofs ----------------------
(***************************************************************************)
(* HashMap for every set of keys, every hash function and every size of    *)
(* the first table: probes stay sound, and the table implements a map.     *)
(***************************************************************************)
EXTENDS OpenAddressingMap, FiniteSetTheorems, WellFoundedInduction, TLAPS

-----------------------------------------------------------------------------
(* Numbers: the least element of a set, induction, and remainders.         *)

Less == {pair \in Nat \X Nat : pair[1] < pair[2]}

LEMMA LeastExists ==
  ASSUME NEW S, S \subseteq Nat, S # {}
  PROVE  \E x \in S : \A y \in S : x <= y
<1>1. IsWellFoundedOn(Less, Nat)
  BY NatLessThanWellFounded, Zenon DEF OpToRel, Less
<1>2. PICK x \in S : \A y \in S : ~(<<y, x>> \in Less)
  BY <1>1, WFMin, Zenon
<1>3. \A y \in S : ~(y < x)
  BY <1>2 DEF Less
<1> QED
  BY <1>3

\* Induction: a set with 0 and with the successor of each member holds every number.
LEMMA Induction ==
  ASSUME NEW S, 0 \in S, \A n \in Nat : n \in S => n + 1 \in S
  PROVE  \A n \in Nat : n \in S
<1> SUFFICES ASSUME NEW T, T = Nat \ S, T # {} PROVE FALSE
  OBVIOUS
<1>1. PICK x \in T : \A y \in T : x <= y
  BY LeastExists
<1>2. x # 0 /\ x - 1 \in Nat /\ x - 1 \in S
  BY <1>1
<1>3. (x - 1) + 1 \in S
  BY <1>2
<1> QED
  BY <1>1, <1>3

\* The least of a set of numbers is what Min chooses.
LEMMA MinIsLeast ==
  ASSUME NEW S, S \subseteq Nat, S # {}
  PROVE  Min(S) \in S /\ \A y \in S : Min(S) <= y
BY LeastExists DEF Min

LEMMA Multiple ==
  ASSUME NEW n \in Nat, n > 0, NEW d \in Int, n * d < n, n * d > -n
  PROVE  d = 0
OBVIOUS

LEMMA SameRemainder ==
  ASSUME NEW n \in Nat, n > 0, NEW a \in Int, NEW b \in Int,
         NEW r \in 0 .. n-1, NEW s \in 0 .. n-1, n * a + r = n * b + s
  PROVE  r = s
<1>1. n * (a - b) = s - r
  OBVIOUS
<1>2. PICK d \in Int : d = a - b
  OBVIOUS
<1>3. n * d < n /\ n * d > -n
  BY <1>1, <1>2
<1>4. d = 0
  BY ONLY <1>3, Multiple, n \in Nat, n > 0, d \in Int
<1> QED
  BY <1>1, <1>2, <1>4

LEMMA DivisionRemainder ==
  ASSUME NEW n \in Nat, n > 0, NEW h \in Nat
  PROVE  \E q \in Nat : h % n \in 0 .. n-1 /\ h = n * q + (h % n)
<1>1. h % n \in 0 .. n-1 /\ h \div n \in Nat /\ h = n * (h \div n) + (h % n)
  OBVIOUS
<1> QED
  BY <1>1

\* i steps on from h, in a ring of n.
LEMMA Wraps ==
  ASSUME NEW n \in Nat, n > 0, NEW h \in Nat, NEW i \in 0 .. n-1
  PROVE  /\ h % n \in 0 .. n-1
         /\ (h + i) % n = IF (h % n) + i < n THEN (h % n) + i ELSE (h % n) + i - n
<1>1. PICK q \in Nat, r \in 0 .. n-1 : r = h % n /\ h = n * q + r
  BY DivisionRemainder
<1>2. PICK p \in Nat, s \in 0 .. n-1 : s = (h + i) % n /\ h + i = n * p + s
  <2>1. h + i \in Nat
    OBVIOUS
  <2> QED
    BY <2>1, DivisionRemainder
<1>3. PICK c \in Int, t \in 0 .. n-1 :
        n * p + s = n * c + t /\ t = IF r + i < n THEN r + i ELSE r + i - n
  <2>1. CASE r + i < n
    <3>1. n * p + s = n * q + (r + i) /\ r + i \in 0 .. n-1 /\ q \in Int
      BY <1>1, <1>2, <2>1
    <3> QED
      BY <2>1, <3>1
  <2>2. CASE ~(r + i < n)
    <3>1. /\ n * p + s = n * (q + 1) + (r + i - n)
          /\ r + i - n \in 0 .. n-1 /\ q + 1 \in Int
      BY <1>1, <1>2, <2>2
    <3> QED
      BY <2>2, <3>1
  <2> QED
    BY <2>1, <2>2
<1>4. s = t
  <2>1. p \in Int
    OBVIOUS
  <2> QED
    BY ONLY <1>3, <2>1, SameRemainder, n \in Nat, n > 0, c \in Int, s \in 0 .. n-1, t \in 0 .. n-1
<1> QED
  BY <1>1, <1>2, <1>3, <1>4

-----------------------------------------------------------------------------
(* Tables of n buckets, and the probes of a key.                           *)

Buckets   == Keys \cup {Empty, Tombstone}
Tables(n) == [bucket : [0 .. n-1 -> Buckets], value : [0 .. n-1 -> Vals],
              count : Nat, tombstones : Nat]

\* No bucket between the home of a key and its entry is empty.
Placed(m) ==
  \A k \in Keys, s \in DOMAIN m.bucket :
    m.bucket[Probe(m, k, s)] = k => \A t \in 0 .. s-1 : m.bucket[Probe(m, k, t)] # Empty

\* A key has one bucket at most.
Once(m) == \A i, j \in Occupied(m) : m.bucket[i] = m.bucket[j] => i = j

TombstonesOf(m) == {i \in DOMAIN m.bucket : m.bucket[i] = Tombstone}
Counted(m) ==
  /\ m.count = Cardinality(Occupied(m))
  /\ m.tombstones = Cardinality(TombstonesOf(m))

\* A table that operations start from and leave: 4 buckets or more, not all in use.
Sound(m, n) ==
  /\ n \in Nat /\ n >= 4 /\ m \in Tables(n)
  /\ Placed(m) /\ Once(m) /\ Counted(m)
  /\ m.count + m.tombstones < n

LEMMA TableSize ==
  ASSUME NEW n \in Nat, n > 0, NEW m \in Tables(n)
  PROVE  /\ Size(m) = n /\ DOMAIN m.bucket = 0 .. n-1 /\ DOMAIN m.value = 0 .. n-1
         /\ IsFiniteSet(0 .. n-1) /\ Cardinality(0 .. n-1) = n
<1>1. DOMAIN m.bucket = 0 .. n-1 /\ DOMAIN m.value = 0 .. n-1
  BY DEF Tables
<1>2. IsFiniteSet(0 .. n-1) /\ Cardinality(0 .. n-1) = n
  <2>1. 0 \in Int /\ n-1 \in Int
    OBVIOUS
  <2>2. /\ IsFiniteSet(0 .. n-1)
        /\ Cardinality(0 .. n-1) = IF 0 > n-1 THEN 0 ELSE (n-1) - 0 + 1
    BY <2>1, FS_Interval
  <2> QED
    BY <2>2
<1> QED
  BY <1>1, <1>2 DEF Size

\* The probe of a key meets every bucket once.
LEMMA ProbesCover ==
  ASSUME NEW n \in Nat, n > 0, NEW m, Size(m) = n, NEW k \in Keys
  PROVE  /\ \A i \in 0 .. n-1 : Probe(m, k, i) \in 0 .. n-1
         /\ \A i, j \in 0 .. n-1 : Probe(m, k, i) = Probe(m, k, j) => i = j
         /\ \A b \in 0 .. n-1 : \E i \in 0 .. n-1 : Probe(m, k, i) = b
<1>1. Hash[k] \in Nat
  BY HashAssumption
<1>2. PICK h \in 0 .. n-1 :
        \A i \in 0 .. n-1 : Probe(m, k, i) = IF h + i < n THEN h + i ELSE h + i - n
  <2>1. 0 \in 0 .. n-1
    OBVIOUS
  <2>2. Hash[k] % n \in 0 .. n-1
    BY <1>1, <2>1, Wraps
  <2>3. ASSUME NEW i \in 0 .. n-1
        PROVE  Probe(m, k, i) = IF (Hash[k] % n) + i < n THEN (Hash[k] % n) + i
                                ELSE (Hash[k] % n) + i - n
    BY <1>1, Wraps DEF Probe
  <2> QED
    BY <2>2, <2>3
<1>3. \A i \in 0 .. n-1 : Probe(m, k, i) \in 0 .. n-1
  BY <1>2
<1>4. \A i, j \in 0 .. n-1 : Probe(m, k, i) = Probe(m, k, j) => i = j
  BY <1>2
<1>5. ASSUME NEW b \in 0 .. n-1 PROVE \E i \in 0 .. n-1 : Probe(m, k, i) = b
  <2>1. CASE b >= h
    <3>1. b - h \in 0 .. n-1 /\ h + (b - h) = b /\ h + (b - h) < n
      BY <2>1
    <3> QED
      BY <1>2, <3>1
  <2>2. CASE ~(b >= h)
    <3>1. b - h + n \in 0 .. n-1 /\ h + (b - h + n) - n = b /\ ~(h + (b - h + n) < n)
      BY <2>2
    <3> QED
      BY <1>2, <3>1
  <2> QED
    BY <2>1, <2>2
<1> QED
  BY <1>3, <1>4, <1>5

LEMMA ProbeStays ==
  ASSUME NEW n \in Nat, n > 0, NEW m \in Tables(n), NEW k \in Keys, NEW i \in 0 .. n-1
  PROVE  Probe(m, k, i) \in 0 .. n-1
<1>1. Size(m) = n
  BY TableSize
<1> QED
  BY <1>1, ProbesCover

LEMMA ProbeMeets ==
  ASSUME NEW n \in Nat, n > 0, NEW m \in Tables(n), NEW k \in Keys, NEW b \in 0 .. n-1
  PROVE  \E i \in 0 .. n-1 : Probe(m, k, i) = b
<1>1. Size(m) = n
  BY TableSize
<1> QED
  BY <1>1, ProbesCover

LEMMA ProbeRepeatsNothing ==
  ASSUME NEW n \in Nat, n > 0, NEW m \in Tables(n), NEW k \in Keys,
         NEW i \in 0 .. n-1, NEW j \in 0 .. n-1, Probe(m, k, i) = Probe(m, k, j)
  PROVE  i = j
<1>1. Size(m) = n
  BY TableSize
<1> QED
  BY <1>1, ProbesCover

\* A table that is not all in use has an empty bucket.
LEMMA EmptyBucketLeft ==
  ASSUME NEW n \in Nat, n > 0, NEW m \in Tables(n),
         Cardinality(Occupied(m)) + Cardinality(TombstonesOf(m)) < n
  PROVE  \E i \in 0 .. n-1 : m.bucket[i] = Empty
<1> SUFFICES ASSUME \A i \in 0 .. n-1 : m.bucket[i] # Empty PROVE FALSE
  OBVIOUS
<1>1. /\ DOMAIN m.bucket = 0 .. n-1 /\ IsFiniteSet(0 .. n-1) /\ Cardinality(0 .. n-1) = n
      /\ m.bucket \in [0 .. n-1 -> Buckets]
  BY TableSize DEF Tables
<1>2. Occupied(m) \cup TombstonesOf(m) = 0 .. n-1
  BY <1>1 DEF Occupied, TombstonesOf, Buckets
<1>3. Occupied(m) \cap TombstonesOf(m) = {}
  BY BucketAssumption DEF Occupied, TombstonesOf
<1>4. Occupied(m) \subseteq 0 .. n-1 /\ TombstonesOf(m) \subseteq 0 .. n-1
  BY <1>2
<1>5. IsFiniteSet(Occupied(m)) /\ IsFiniteSet(TombstonesOf(m))
  BY <1>1, <1>4, FS_Subset
<1>6. Cardinality(Occupied(m) \cup TombstonesOf(m)) =
        Cardinality(Occupied(m)) + Cardinality(TombstonesOf(m))
          - Cardinality(Occupied(m) \cap TombstonesOf(m))
  BY <1>5, FS_Union
<1>7. Cardinality({}) = 0
  BY FS_EmptySet
<1>8. /\ Cardinality(Occupied(m)) \in Nat /\ Cardinality(TombstonesOf(m)) \in Nat
      /\ n = Cardinality(Occupied(m)) + Cardinality(TombstonesOf(m)) - 0
  BY <1>1, <1>2, <1>3, <1>5, <1>6, <1>7, FS_CardinalityType
<1> QED
  BY <1>8

-----------------------------------------------------------------------------
(* What the searches find.                                                 *)

\* s is the first step of a probe for k at which an empty bucket is met.
FirstEmpty(m, k, s) ==
  /\ s \in DOMAIN m.bucket /\ m.bucket[Probe(m, k, s)] = Empty
  /\ \A t \in 0 .. s-1 : m.bucket[Probe(m, k, t)] # Empty

\* The steps of a probe that end a search for k, and those that meet an empty bucket.
Endings(m, k) == {i \in DOMAIN m.bucket : m.bucket[Probe(m, k, i)] \in {k, Empty}}
Empties(m, k) == {i \in DOMAIN m.bucket : m.bucket[Probe(m, k, i)] = Empty}

LEMMA SearchForEmpty ==
  ASSUME NEW n \in Nat, n > 0, NEW m \in Tables(n), NEW k \in Keys,
         \E i \in 0 .. n-1 : m.bucket[i] = Empty
  PROVE  /\ FirstEmpty(m, k, Min(Empties(m, k)))
         /\ FirstStep(m, k, LAMBDA b : b = Empty) = Min(Empties(m, k))
<1>1. Size(m) = n /\ DOMAIN m.bucket = 0 .. n-1
  BY TableSize
<1>2. Empties(m, k) # {} /\ Empties(m, k) \subseteq Nat
  <2>1. PICK b \in 0 .. n-1 : m.bucket[b] = Empty
    OBVIOUS
  <2>2. PICK i \in 0 .. n-1 : Probe(m, k, i) = b
    BY ProbeMeets
  <2> QED
    BY <1>1, <2>1, <2>2 DEF Empties
<1>3. PICK s : s = Min(Empties(m, k)) /\ s \in Empties(m, k) /\ \A y \in Empties(m, k) : s <= y
  BY <1>2, MinIsLeast
<1>4. s \in 0 .. n-1 /\ m.bucket[Probe(m, k, s)] = Empty
  BY <1>1, <1>3 DEF Empties
<1>5. ASSUME NEW t \in 0 .. s-1 PROVE m.bucket[Probe(m, k, t)] # Empty
  <2>1. t \in 0 .. n-1 /\ ~(s <= t)
    BY <1>4
  <2> QED
    BY <1>1, <1>3, <2>1 DEF Empties
<1>6. FirstEmpty(m, k, s)
  BY <1>1, <1>4, <1>5 DEF FirstEmpty
<1>7. FirstStep(m, k, LAMBDA b : b = Empty) = Min(Empties(m, k))
  <2>1. {i \in DOMAIN m.bucket : m.bucket[Probe(m, k, i)] = Empty} # {}
    BY <1>2 DEF Empties
  <2> QED
    BY <2>1, Zenon DEF FirstStep, Empties
<1> QED
  BY <1>3, <1>6, <1>7

\* An insertion takes the first empty bucket of the probe of its key.
LEMMA FreeStepIsEmpty ==
  ASSUME NEW n \in Nat, n > 0, NEW m \in Tables(n), NEW k \in Keys,
         \E i \in 0 .. n-1 : m.bucket[i] = Empty
  PROVE  FirstEmpty(m, k, FreeStep(m, k)) /\ FreeStep(m, k) # Nowhere
<1>1. FirstEmpty(m, k, Min(Empties(m, k)))
  BY SearchForEmpty
<1>2. Min(Empties(m, k)) # Nowhere
  <2>1. DOMAIN m.bucket = 0 .. n-1
    BY TableSize
  <2>2. Min(Empties(m, k)) \in 0 .. n-1
    BY <1>1, <2>1 DEF FirstEmpty
  <2> QED
    BY <2>2 DEF Nowhere
<1>3. FirstStep(m, k, LAMBDA b : b = Empty) = Min(Empties(m, k))
  BY SearchForEmpty
<1>4. FreeStep(m, k) = Min(Empties(m, k))
  BY <1>2, <1>3, Zenon DEF FreeStep
<1> QED
  BY <1>1, <1>2, <1>4

\* _find finds the bucket of a key that is there, and nothing for one that is not.
LEMMA FindIsExact ==
  ASSUME NEW n \in Nat, n > 0, NEW m \in Tables(n), Placed(m), Once(m), NEW k \in Keys
  PROVE  /\ \A i \in 0 .. n-1 : m.bucket[i] = k => Find(m, k) = i
         /\ (\A i \in 0 .. n-1 : m.bucket[i] # k) => Find(m, k) = Nowhere
<1>1. Size(m) = n /\ DOMAIN m.bucket = 0 .. n-1
  BY TableSize
<1>p. ASSUME NEW i \in 0 .. n-1
      PROVE  Probe(m, k, i) \in 0 .. n-1 /\ \E c \in 0 .. n-1 : Probe(m, k, c) = i
  BY ProbeStays, ProbeMeets
<1>2. PICK e : e = IF Endings(m, k) = {} THEN Nowhere ELSE Min(Endings(m, k))
  OBVIOUS
<1>3. Find(m, k) = IF e = Nowhere \/ m.bucket[Probe(m, k, e)] = Empty THEN Nowhere
                   ELSE Probe(m, k, e)
  BY <1>2, Zenon DEF Find, FirstStep, Endings
<1>4. Endings(m, k) # {} =>
        /\ e \in 0 .. n-1 /\ m.bucket[Probe(m, k, e)] \in {k, Empty} /\ e # Nowhere
        /\ \A y \in Endings(m, k) : e <= y
  <2> SUFFICES ASSUME Endings(m, k) # {}
               PROVE  /\ e \in 0 .. n-1 /\ m.bucket[Probe(m, k, e)] \in {k, Empty}
                      /\ e # Nowhere /\ \A y \in Endings(m, k) : e <= y
    OBVIOUS
  <2>1. Endings(m, k) \subseteq Nat
    BY <1>1 DEF Endings
  <2>2. e \in Endings(m, k) /\ \A y \in Endings(m, k) : e <= y
    BY <1>2, <2>1, MinIsLeast
  <2> QED
    BY <1>1, <2>2 DEF Endings, Nowhere
<1>5. Empty # k
  BY BucketAssumption
<1>6. ASSUME NEW i \in 0 .. n-1, m.bucket[i] = k PROVE Find(m, k) = i
  <2>1. PICK s \in 0 .. n-1 : Probe(m, k, s) = i
    BY <1>p
  <2>2. s \in Endings(m, k)
    BY <1>1, <1>6, <2>1 DEF Endings
  <2>3. e \in 0 .. n-1 /\ m.bucket[Probe(m, k, e)] \in {k, Empty} /\ e # Nowhere /\ e <= s
    BY <1>4, <2>2
  <2>4. m.bucket[Probe(m, k, e)] = k
    <3>1. CASE e = s
      BY <1>6, <2>1, <3>1
    <3>2. CASE e # s
      <4>1. e \in 0 .. s-1
        BY <2>3, <3>2
      <4> QED
        BY <1>1, <1>6, <2>1, <2>3, <4>1 DEF Placed
    <3> QED
      BY <3>1, <3>2
  <2>5. Probe(m, k, e) \in 0 .. n-1
    BY <1>p, <2>3
  <2>6. Probe(m, k, e) = i
    BY <1>1, <1>6, <2>4, <2>5 DEF Once, Occupied
  <2> QED
    BY <1>3, <1>5, <2>3, <2>4, <2>6
<1>7. ASSUME \A i \in 0 .. n-1 : m.bucket[i] # k PROVE Find(m, k) = Nowhere
  <2>1. CASE Endings(m, k) = {}
    BY <1>2, <1>3, <2>1
  <2>2. CASE Endings(m, k) # {}
    <3>1. Probe(m, k, e) \in 0 .. n-1
      BY <1>p, <1>4, <2>2
    <3> QED
      BY <1>3, <1>4, <1>7, <2>2, <3>1
  <2> QED
    BY <2>1, <2>2
<1> QED
  BY <1>6, <1>7

-----------------------------------------------------------------------------
(* What an operation on one bucket does to the table.                      *)

LEMMA SameProbes ==
  ASSUME NEW n \in Nat, n > 0, NEW m \in Tables(n), NEW r \in Tables(n), NEW k, NEW i
  PROVE  Probe(r, k, i) = Probe(m, k, i)
<1>1. Size(m) = n /\ Size(r) = n
  BY TableSize
<1> QED
  BY <1>1 DEF Probe

\* r is m with a new key at the first empty bucket of its probe.
Adds(m, r, n, k, j) ==
  /\ n \in Nat /\ n > 0 /\ m \in Tables(n) /\ r \in Tables(n) /\ k \in Keys
  /\ \A i \in 0 .. n-1 : m.bucket[i] # k
  /\ \E s : FirstEmpty(m, k, s) /\ j = Probe(m, k, s)
  /\ r.bucket = [m.bucket EXCEPT ![j] = k]

LEMMA AddedWhere ==
  ASSUME NEW m, NEW r, NEW n, NEW k, NEW j, Adds(m, r, n, k, j)
  PROVE  /\ j \in 0 .. n-1 /\ m.bucket[j] = Empty
         /\ DOMAIN m.bucket = 0 .. n-1 /\ DOMAIN r.bucket = 0 .. n-1
         /\ \A i \in 0 .. n-1 : r.bucket[i] = IF i = j THEN k ELSE m.bucket[i]
<1>1. PICK s : FirstEmpty(m, k, s) /\ j = Probe(m, k, s)
  BY DEF Adds
<1>2. n \in Nat /\ n > 0 /\ m \in Tables(n) /\ r \in Tables(n) /\ k \in Keys
  BY DEF Adds
<1>3. DOMAIN m.bucket = 0 .. n-1 /\ DOMAIN r.bucket = 0 .. n-1
  BY <1>2, TableSize
<1>4. s \in 0 .. n-1 /\ m.bucket[j] = Empty
  BY <1>1, <1>3 DEF FirstEmpty
<1>5. j \in 0 .. n-1
  BY <1>1, <1>2, <1>4, ProbeStays
<1>6. r.bucket = [m.bucket EXCEPT ![j] = k]
  BY DEF Adds
<1> QED
  BY <1>3, <1>4, <1>5, <1>6

LEMMA AddKeepsPlaced ==
  ASSUME NEW m, NEW r, NEW n, NEW k, NEW j, Adds(m, r, n, k, j), Placed(m)
  PROVE  Placed(r)
<1>1. /\ n \in Nat /\ n > 0 /\ m \in Tables(n) /\ r \in Tables(n) /\ k \in Keys
      /\ \A i \in 0 .. n-1 : m.bucket[i] # k
  BY DEF Adds
<1>2. /\ j \in 0 .. n-1 /\ m.bucket[j] = Empty
      /\ DOMAIN m.bucket = 0 .. n-1 /\ DOMAIN r.bucket = 0 .. n-1
      /\ \A i \in 0 .. n-1 : r.bucket[i] = IF i = j THEN k ELSE m.bucket[i]
  BY AddedWhere
<1>3. k # Empty
  BY <1>1, BucketAssumption
<1>4. SUFFICES ASSUME NEW x \in Keys, NEW s \in 0 .. n-1, r.bucket[Probe(r, x, s)] = x,
                      NEW t \in 0 .. s-1
               PROVE  r.bucket[Probe(r, x, t)] # Empty
  BY <1>2 DEF Placed
<1>5. Probe(r, x, s) = Probe(m, x, s) /\ Probe(r, x, t) = Probe(m, x, t)
  BY <1>1, SameProbes
<1>6. Probe(m, x, s) \in 0 .. n-1 /\ Probe(m, x, t) \in 0 .. n-1
  <2>1. t \in 0 .. n-1
    BY <1>1
  <2> QED
    BY <1>1, <2>1, ProbeStays
<1>7. CASE Probe(m, x, s) = j
  <2>1. x = k
    BY <1>2, <1>4, <1>5, <1>6, <1>7
  <2>2. PICK u : FirstEmpty(m, k, u) /\ j = Probe(m, k, u)
    BY DEF Adds
  <2>3. u \in 0 .. n-1
    BY <1>2, <2>2 DEF FirstEmpty
  <2>4. u = s
    BY <1>1, <1>7, <2>1, <2>2, <2>3, ProbeRepeatsNothing
  <2>5. m.bucket[Probe(m, x, t)] # Empty
    BY <2>1, <2>2, <2>4 DEF FirstEmpty
  <2> QED
    BY <1>2, <1>3, <1>5, <1>6, <2>5
<1>8. CASE Probe(m, x, s) # j
  <2>1. m.bucket[Probe(m, x, s)] = x
    BY <1>2, <1>4, <1>5, <1>6, <1>8
  <2>2. m.bucket[Probe(m, x, t)] # Empty
    BY <1>2, <2>1 DEF Placed
  <2> QED
    BY <1>2, <1>3, <1>5, <1>6, <2>2
<1> QED
  BY <1>7, <1>8

LEMMA AddKeepsOnce ==
  ASSUME NEW m, NEW r, NEW n, NEW k, NEW j, Adds(m, r, n, k, j), Once(m)
  PROVE  /\ Once(r)
         /\ Occupied(r) = Occupied(m) \cup {j} /\ j \notin Occupied(m)
         /\ TombstonesOf(r) = TombstonesOf(m)
<1>1. k \in Keys /\ \A i \in 0 .. n-1 : m.bucket[i] # k
  BY DEF Adds
<1>2. /\ j \in 0 .. n-1 /\ m.bucket[j] = Empty
      /\ DOMAIN m.bucket = 0 .. n-1 /\ DOMAIN r.bucket = 0 .. n-1
      /\ \A i \in 0 .. n-1 : r.bucket[i] = IF i = j THEN k ELSE m.bucket[i]
  BY AddedWhere
<1>3. Empty \notin Keys /\ Tombstone \notin Keys /\ Empty # Tombstone
  BY BucketAssumption
<1>4. Occupied(r) = Occupied(m) \cup {j} /\ j \notin Occupied(m)
  BY <1>1, <1>2, <1>3 DEF Occupied
<1>5. TombstonesOf(r) = TombstonesOf(m)
  BY <1>1, <1>2, <1>3 DEF TombstonesOf
<1>6. ASSUME NEW a \in Occupied(r), NEW b \in Occupied(r), r.bucket[a] = r.bucket[b]
      PROVE  a = b
  BY <1>1, <1>2, <1>6 DEF Once, Occupied
<1> QED
  BY <1>4, <1>5, <1>6 DEF Once

\* One more entry is counted as one more.
LEMMA AddCounts ==
  ASSUME NEW m, NEW r, NEW n, NEW k, NEW j, Adds(m, r, n, k, j), Once(m)
  PROVE  /\ IsFiniteSet(Occupied(m)) /\ Cardinality(Occupied(m)) \in Nat
         /\ Cardinality(Occupied(r)) = Cardinality(Occupied(m)) + 1
<1>1. Occupied(r) = Occupied(m) \cup {j} /\ j \notin Occupied(m)
  BY AddKeepsOnce
<1>2. IsFiniteSet(Occupied(m))
  <2>1. n \in Nat /\ n > 0 /\ m \in Tables(n)
    BY DEF Adds
  <2>2. IsFiniteSet(0 .. n-1) /\ DOMAIN m.bucket = 0 .. n-1
    BY <2>1, TableSize
  <2>3. Occupied(m) \subseteq 0 .. n-1
    BY <2>2 DEF Occupied
  <2> QED
    BY <2>2, <2>3, FS_Subset
<1>3. Cardinality(Occupied(r)) = Cardinality(Occupied(m)) + 1
  BY <1>1, <1>2, FS_AddElement
<1> QED
  BY <1>2, <1>3, FS_CardinalityType

\* The entry of k in m is v.
Holds(m, k, v) == \E i \in DOMAIN m.bucket : m.bucket[i] = k /\ m.value[i] = v

AddsEntry(m, r, n, k, j, v) ==
  Adds(m, r, n, k, j) /\ r.value = [m.value EXCEPT ![j] = v]

LEMMA AddHolds ==
  ASSUME NEW m, NEW r, NEW n, NEW k, NEW j, NEW v, AddsEntry(m, r, n, k, j, v)
  PROVE  \A x \in Keys : \A w : Holds(r, x, w) <=> (x = k /\ w = v) \/ Holds(m, x, w)
<1>a. Adds(m, r, n, k, j) /\ r.value = [m.value EXCEPT ![j] = v]
  BY DEF AddsEntry
<1>1. n \in Nat /\ n > 0 /\ m \in Tables(n) /\ k \in Keys
  BY <1>a DEF Adds
<1>2. /\ j \in 0 .. n-1 /\ m.bucket[j] = Empty
      /\ DOMAIN m.bucket = 0 .. n-1 /\ DOMAIN r.bucket = 0 .. n-1
      /\ \A i \in 0 .. n-1 : r.bucket[i] = IF i = j THEN k ELSE m.bucket[i]
  BY <1>a, AddedWhere
<1>3. \A i \in 0 .. n-1 : r.value[i] = IF i = j THEN v ELSE m.value[i]
  <2>1. DOMAIN m.value = 0 .. n-1
    BY <1>1, TableSize
  <2> QED
    BY <1>a, <2>1
<1>4. Empty \notin Keys
  BY BucketAssumption
<1> SUFFICES ASSUME NEW x \in Keys, NEW w
             PROVE  Holds(r, x, w) <=> (x = k /\ w = v) \/ Holds(m, x, w)
  OBVIOUS
<1>5. ASSUME Holds(r, x, w) PROVE (x = k /\ w = v) \/ Holds(m, x, w)
  <2>1. PICK i \in 0 .. n-1 : r.bucket[i] = x /\ r.value[i] = w
    BY <1>2, <1>5 DEF Holds
  <2> QED
    BY <1>2, <1>3, <2>1 DEF Holds
<1>6. ASSUME x = k /\ w = v PROVE Holds(r, x, w)
  BY <1>2, <1>3, <1>6 DEF Holds
<1>7. ASSUME Holds(m, x, w) PROVE Holds(r, x, w)
  <2>1. PICK i \in 0 .. n-1 : m.bucket[i] = x /\ m.value[i] = w
    BY <1>2, <1>7 DEF Holds
  <2>2. i # j
    BY <1>2, <1>4, <2>1
  <2> QED
    BY <1>2, <1>3, <2>1, <2>2 DEF Holds
<1> QED
  BY <1>5, <1>6, <1>7

-----------------------------------------------------------------------------
(* Growth.                                                                 *)

Former(m, x) == {i \in Occupied(m) : i < x}

\* g holds the entries of the first x buckets of m, in a table twice as long.
Filled(m, n, g, x) ==
  /\ g \in Tables(2 * n) /\ Placed(g) /\ Once(g) /\ TombstonesOf(g) = {}
  /\ g.count = m.count /\ g.tombstones = 0
  /\ Cardinality(Occupied(g)) = Cardinality(Former(m, x))
  /\ \A k \in Keys : \A v : Holds(g, k, v) <=>
       \E i \in Former(m, x) : m.bucket[i] = k /\ m.value[i] = v

LEMMA NoEntriesIsTable ==
  ASSUME NEW n \in Nat, n > 0
  PROVE  /\ NoEntries(n) \in Tables(n)
         /\ \A i \in 0 .. n-1 : NoEntries(n).bucket[i] = Empty
         /\ NoEntries(n).count = 0 /\ NoEntries(n).tombstones = 0
BY BucketAssumption DEF NoEntries, Tables, Buckets

\* What holds of a table without entries, whatever its counters say.
LEMMA WithoutEntries ==
  ASSUME NEW n \in Nat, n > 0, NEW g \in Tables(n), \A i \in 0 .. n-1 : g.bucket[i] = Empty
  PROVE  /\ Placed(g) /\ Once(g) /\ Occupied(g) = {} /\ TombstonesOf(g) = {}
         /\ \A k \in Keys : \A v : ~Holds(g, k, v)
<1>1. DOMAIN g.bucket = 0 .. n-1
  BY TableSize
<1>2. Empty \notin Keys /\ Empty # Tombstone
  BY BucketAssumption
<1>3. Placed(g)
  <2> SUFFICES ASSUME NEW k \in Keys, NEW s \in 0 .. n-1 PROVE g.bucket[Probe(g, k, s)] # k
    BY <1>1 DEF Placed
  <2>1. Probe(g, k, s) \in 0 .. n-1
    BY ProbeStays
  <2> QED
    BY <1>2, <2>1
<1> QED
  BY <1>1, <1>2, <1>3 DEF Once, Occupied, TombstonesOf, Holds

LEMMA FilledAtFirst ==
  ASSUME NEW n \in Nat, n > 0, NEW m \in Tables(n)
  PROVE  Filled(m, n, [NoEntries(2 * Size(m)) EXCEPT !.count = m.count], 0)
<1> DEFINE g == [NoEntries(2 * n) EXCEPT !.count = m.count]
<1>1. Size(m) = n /\ DOMAIN m.bucket = 0 .. n-1
  BY TableSize
<1>2. 2 * n \in Nat /\ 2 * n > 0
  OBVIOUS
<1>3. m.count \in Nat
  BY DEF Tables
<1>4. /\ NoEntries(2 * n) \in Tables(2 * n)
      /\ \A i \in 0 .. 2 * n - 1 : NoEntries(2 * n).bucket[i] = Empty
      /\ NoEntries(2 * n).tombstones = 0
  BY <1>2, NoEntriesIsTable
<1>5. /\ g \in Tables(2 * n) /\ g.count = m.count /\ g.tombstones = 0
      /\ g.bucket = NoEntries(2 * n).bucket
  BY <1>3, <1>4 DEF Tables
<1> HIDE DEF g
<1>6. /\ Placed(g) /\ Once(g) /\ Occupied(g) = {} /\ TombstonesOf(g) = {}
      /\ \A k \in Keys : \A v : ~Holds(g, k, v)
  BY <1>2, <1>4, <1>5, WithoutEntries
<1>7. Former(m, 0) = {}
  BY <1>1 DEF Former, Occupied
<1>8. Filled(m, n, g, 0)
  BY <1>5, <1>6, <1>7 DEF Filled
<1> QED
  BY <1>1, <1>8 DEF g

LEMMA FormerGrows ==
  ASSUME NEW n \in Nat, n > 0, NEW m \in Tables(n), NEW x \in 0 .. n-1
  PROVE  /\ IsFiniteSet(Former(m, x)) /\ Cardinality(Former(m, x)) \in Nat
         /\ Cardinality(Former(m, x)) <= n
         /\ x \in Occupied(m) =>
              /\ Former(m, x + 1) = Former(m, x) \cup {x}
              /\ Cardinality(Former(m, x + 1)) = Cardinality(Former(m, x)) + 1
         /\ x \notin Occupied(m) => Former(m, x + 1) = Former(m, x)
<1>1. /\ DOMAIN m.bucket = 0 .. n-1 /\ IsFiniteSet(0 .. n-1) /\ Cardinality(0 .. n-1) = n
  BY TableSize
<1>2. Former(m, x) \subseteq 0 .. n-1
  BY <1>1 DEF Former, Occupied
<1>3. IsFiniteSet(Former(m, x)) /\ Cardinality(Former(m, x)) <= n
  BY <1>1, <1>2, FS_Subset
<1>4. Cardinality(Former(m, x)) \in Nat
  BY <1>3, FS_CardinalityType
<1>5. \A i \in 0 .. n-1 : i < x + 1 <=> i < x \/ i = x
  OBVIOUS
<1>6. Occupied(m) \subseteq 0 .. n-1
  BY <1>1 DEF Occupied
<1>7. ASSUME x \in Occupied(m)
      PROVE  /\ Former(m, x + 1) = Former(m, x) \cup {x}
             /\ Cardinality(Former(m, x + 1)) = Cardinality(Former(m, x)) + 1
  <2>1. Former(m, x + 1) = Former(m, x) \cup {x}
    BY <1>5, <1>6, <1>7 DEF Former
  <2>2. x \notin Former(m, x)
    BY DEF Former
  <2> QED
    BY <1>3, <2>1, <2>2, FS_AddElement
<1>8. ASSUME x \notin Occupied(m) PROVE Former(m, x + 1) = Former(m, x)
  BY <1>5, <1>6, <1>8 DEF Former
<1> QED
  BY <1>3, <1>4, <1>7, <1>8

\* The next entry finds an empty bucket in the new table, which has no other of its key.
LEMMA MovedAdds ==
  ASSUME NEW n \in Nat, n > 0, NEW m \in Tables(n), Once(m), NEW x \in 0 .. n-1,
         NEW g, Filled(m, n, g, x), x \in Occupied(m)
  PROVE  /\ Moved(g, m, x) \in Tables(2 * n)
         /\ \E j : /\ Adds(g, Moved(g, m, x), 2 * n, m.bucket[x], j)
                   /\ Moved(g, m, x).value = [g.value EXCEPT ![j] = m.value[x]]
         /\ Moved(g, m, x).count = g.count /\ Moved(g, m, x).tombstones = g.tombstones
<1> DEFINE k == m.bucket[x]
           N == 2 * n
<1>1. N \in Nat /\ N > 0 /\ n < N
  OBVIOUS
<1>2. DOMAIN m.bucket = 0 .. n-1 /\ k \in Keys /\ m.value[x] \in Vals
  BY TableSize DEF Occupied, Tables
<1>3. g \in Tables(N) /\ DOMAIN g.bucket = 0 .. N-1 /\ DOMAIN g.value = 0 .. N-1
  <2>1. g \in Tables(N)
    BY DEF Filled
  <2> HIDE DEF N
  <2> QED
    BY <1>1, <2>1, TableSize
<1>4. \E i \in 0 .. N-1 : g.bucket[i] = Empty
  <2>1. Cardinality(Occupied(g)) + Cardinality(TombstonesOf(g)) < N
    <3>1. Cardinality(TombstonesOf(g)) = 0
      BY FS_EmptySet DEF Filled
    <3>2. Cardinality(Occupied(g)) = Cardinality(Former(m, x))
      BY DEF Filled
    <3>3. Cardinality(Former(m, x)) \in Nat /\ Cardinality(Former(m, x)) <= n
      BY FormerGrows
    <3> QED
      BY <1>1, <3>1, <3>2, <3>3
  <2> HIDE DEF N
  <2> QED
    BY <1>1, <1>3, <2>1, EmptyBucketLeft
<1>5. ASSUME NEW i \in 0 .. N-1, g.bucket[i] = k PROVE FALSE
  <2>1. Holds(g, k, g.value[i])
    BY <1>3, <1>5 DEF Holds
  <2>2. PICK y \in Former(m, x) : m.bucket[y] = k
    BY <1>2, <2>1 DEF Filled
  <2>3. y \in Occupied(m) /\ y < x
    BY <2>2 DEF Former
  <2>4. y = x
    BY <2>2, <2>3 DEF Once
  <2> QED
    BY <2>3, <2>4
<1>6. PICK s : /\ FirstEmpty(g, k, s)
               /\ FirstStep(g, k, LAMBDA b : b = Empty) = s
  <2> HIDE DEF N, k
  <2>1. /\ FirstEmpty(g, k, Min(Empties(g, k)))
        /\ FirstStep(g, k, LAMBDA b : b = Empty) = Min(Empties(g, k))
    BY <1>1, <1>2, <1>3, <1>4, SearchForEmpty
  <2> QED
    BY <2>1, Zenon
<1>7. PICK j : j = Probe(g, k, s)
  OBVIOUS
<1>8. j \in 0 .. N-1
  <2>1. s \in 0 .. N-1
    BY <1>3, <1>6 DEF FirstEmpty
  <2> HIDE DEF N, k
  <2> QED
    BY <1>1, <1>2, <1>3, <1>7, <2>1, ProbeStays
<1>9. Moved(g, m, x) = [g EXCEPT !.bucket[j] = k, !.value[j] = m.value[x]]
  BY <1>6, <1>7, Zenon DEF Moved
<1>10. PICK r : r = Moved(g, m, x)
  OBVIOUS
<1>11. /\ r.bucket = [g.bucket EXCEPT ![j] = k] /\ r.value = [g.value EXCEPT ![j] = m.value[x]]
       /\ r.count = g.count /\ r.tombstones = g.tombstones
       /\ r \in Tables(N)
  <2>1. k \in Buckets
    BY <1>2 DEF Buckets
  <2> HIDE DEF N, k
  <2>2. /\ g.bucket \in [0 .. N-1 -> Buckets] /\ g.value \in [0 .. N-1 -> Vals]
        /\ g.count \in Nat /\ g.tombstones \in Nat
        /\ g = [bucket |-> g.bucket, value |-> g.value, count |-> g.count,
                tombstones |-> g.tombstones]
    BY <1>3 DEF Tables
  <2>3. r = [bucket |-> [g.bucket EXCEPT ![j] = k], value |-> [g.value EXCEPT ![j] = m.value[x]],
             count |-> g.count, tombstones |-> g.tombstones]
    BY <1>9, <1>10, <2>2
  <2>4. /\ [g.bucket EXCEPT ![j] = k] \in [0 .. N-1 -> Buckets]
        /\ [g.value EXCEPT ![j] = m.value[x]] \in [0 .. N-1 -> Vals]
    BY <1>2, <2>1, <2>2
  <2> QED
    BY <2>2, <2>3, <2>4 DEF Tables
<1>12. Adds(g, r, N, k, j)
  <2> HIDE DEF N, k
  <2> QED
    BY <1>1, <1>2, <1>3, <1>5, <1>6, <1>7, <1>11 DEF Adds
<1> QED
  BY <1>10, <1>11, <1>12

LEMMA FilledNext ==
  ASSUME NEW n \in Nat, n > 0, NEW m \in Tables(n), Once(m), NEW x \in 0 .. n-1,
         NEW g, Filled(m, n, g, x)
  PROVE  Filled(m, n, IF x \in Occupied(m) THEN Moved(g, m, x) ELSE g, x + 1)
<1>1. CASE x \notin Occupied(m)
  <2>1. Former(m, x + 1) = Former(m, x)
    BY <1>1, FormerGrows
  <2> QED
    BY <1>1, <2>1 DEF Filled
<1>2. CASE x \in Occupied(m)
  <2>1. PICK r : r = Moved(g, m, x)
    OBVIOUS
  <2>2. PICK k, v : k = m.bucket[x] /\ v = m.value[x]
    OBVIOUS
  <2>a. /\ r \in Tables(2 * n)
        /\ \E j : Adds(g, r, 2 * n, k, j) /\ r.value = [g.value EXCEPT ![j] = v]
        /\ r.count = g.count /\ r.tombstones = g.tombstones
    BY <1>2, <2>1, <2>2, MovedAdds
  <2>3. PICK j : Adds(g, r, 2 * n, k, j) /\ r.value = [g.value EXCEPT ![j] = v]
    BY <2>a
  <2>4. r \in Tables(2 * n) /\ r.count = g.count /\ r.tombstones = g.tombstones
    BY <2>a
  <2>b. \A y \in Keys : \A w : Holds(r, y, w) <=> (y = k /\ w = v) \/ Holds(g, y, w)
    <3>1. AddsEntry(g, r, 2 * n, k, j, v)
      BY <2>3 DEF AddsEntry
    <3> QED
      BY <3>1, AddHolds
  <2>5. /\ Placed(g) /\ Once(g) /\ TombstonesOf(g) = {}
        /\ g.count = m.count /\ g.tombstones = 0
        /\ Cardinality(Occupied(g)) = Cardinality(Former(m, x))
    BY DEF Filled
  <2>6. Placed(r)
    BY <2>3, <2>5, AddKeepsPlaced
  <2>7. Once(r) /\ TombstonesOf(r) = {}
    BY <2>3, <2>5, AddKeepsOnce
  <2>8. Cardinality(Occupied(r)) = Cardinality(Former(m, x)) + 1
    BY <2>3, <2>5, AddCounts
  <2>9. /\ Former(m, x + 1) = Former(m, x) \cup {x}
        /\ Cardinality(Former(m, x + 1)) = Cardinality(Former(m, x)) + 1
    BY <1>2, FormerGrows
  <2>10. ASSUME NEW y \in Keys, NEW w
         PROVE  Holds(r, y, w) <=> \E i \in Former(m, x + 1) : m.bucket[i] = y /\ m.value[i] = w
    <3>1. Holds(r, y, w) <=> (y = k /\ w = v) \/ Holds(g, y, w)
      BY <2>b
    <3>2. Holds(g, y, w) <=> \E i \in Former(m, x) : m.bucket[i] = y /\ m.value[i] = w
      BY DEF Filled
    <3> QED
      BY <2>2, <2>9, <3>1, <3>2
  <2>11. Filled(m, n, r, x + 1)
    BY <2>4, <2>5, <2>6, <2>7, <2>8, <2>9, <2>10 DEF Filled
  <2> QED
    BY <1>2, <2>1, <2>11
<1> QED
  BY <1>1, <1>2

\* f is the growth of m up to its n-th bucket, as Grow defines it.
IsFill(f, m, n) ==
  f = [x \in 0 .. n |->
         IF x = 0 THEN [NoEntries(2 * Size(m)) EXCEPT !.count = m.count]
         ELSE IF x - 1 \in Occupied(m) THEN Moved(f[x - 1], m, x - 1)
              ELSE f[x - 1]]

LEMMA FillExists ==
  ASSUME NEW m, NEW n \in Nat
  PROVE  \E f : IsFill(f, m, n)
<1> DEFINE S == {x \in Nat : \E f : IsFill(f, m, x)}
           First == [NoEntries(2 * Size(m)) EXCEPT !.count = m.count]
           Next(t, x) == IF x - 1 \in Occupied(m) THEN Moved(t, m, x - 1) ELSE t
<1>1. 0 \in S
  <2> DEFINE f == [x \in 0 .. 0 |-> First]
  <2>1. IsFill(f, m, 0)
    BY DEF IsFill
  <2> QED
    BY <2>1
<1>2. ASSUME NEW x \in Nat, x \in S PROVE x + 1 \in S
  <2>1. PICK f : IsFill(f, m, x)
    BY <1>2
  <2> DEFINE g == [y \in 0 .. x + 1 |-> IF y = x + 1 THEN Next(f[x], x + 1) ELSE f[y]]
  <2>2. f = [y \in 0 .. x |-> IF y = 0 THEN First ELSE Next(f[y - 1], y)]
    BY <2>1, Zenon DEF IsFill
  <2> HIDE DEF First, Next
  <2>3. ASSUME NEW y \in 0 .. x + 1
        PROVE  g[y] = IF y = 0 THEN First ELSE Next(g[y - 1], y)
    <3>1. CASE y = x + 1
      <4>1. y # 0 /\ y - 1 = x /\ x \in 0 .. x + 1 /\ x # x + 1
        BY <3>1
      <4> QED
        BY <3>1, <4>1
    <3>2. CASE y # x + 1
      <4>1. y \in 0 .. x
        BY <3>2
      <4>2. f[y] = IF y = 0 THEN First ELSE Next(f[y - 1], y)
        BY <2>2, <4>1
      <4>3. y # 0 => y - 1 \in 0 .. x + 1 /\ y - 1 # x + 1
        BY <4>1
      <4> QED
        BY <3>2, <4>2, <4>3
    <3> QED
      BY <3>1, <3>2
  <2>4. g = [y \in 0 .. x + 1 |-> IF y = 0 THEN First ELSE Next(g[y - 1], y)]
    <3>1. DOMAIN g = 0 .. x + 1 /\ g = [y \in DOMAIN g |-> g[y]]
      OBVIOUS
    <3> HIDE DEF g
    <3> QED
      BY <2>3, <3>1
  <2>5. IsFill(g, m, x + 1)
    <3> HIDE DEF g
    <3> QED
      BY <2>4, Zenon DEF IsFill, First, Next
  <2> QED
    BY <2>5
<1> HIDE DEF S
<1>3. \A x \in Nat : x \in S
  BY <1>1, <1>2, Induction
<1> QED
  BY <1>3 DEF S

LEMMA GrowIsFill ==
  ASSUME NEW n \in Nat, n > 0, NEW m \in Tables(n)
  PROVE  \E f : IsFill(f, m, n) /\ Grow(m) = f[n]
<1>1. Size(m) = n
  BY TableSize
<1> DEFINE fill == CHOOSE f : IsFill(f, m, Size(m))
<1>2. IsFill(fill, m, Size(m))
  BY <1>1, FillExists
<1>3. Grow(m) = fill[Size(m)]
  BY Zenon DEF Grow, IsFill
<1> QED
  BY <1>1, <1>2, <1>3

\* The grown table holds every entry of the old one, and no tombstone.
LEMMA GrowFills ==
  ASSUME NEW n \in Nat, n > 0, NEW m \in Tables(n), Once(m)
  PROVE  Filled(m, n, Grow(m), n)
<1>1. PICK f : IsFill(f, m, n) /\ Grow(m) = f[n]
  BY GrowIsFill
<1> DEFINE S == {x \in Nat : x <= n => Filled(m, n, f[x], x)}
<1>2. 0 \in S
  <2>1. f[0] = [NoEntries(2 * Size(m)) EXCEPT !.count = m.count]
    BY <1>1 DEF IsFill
  <2>2. Filled(m, n, f[0], 0)
    BY <2>1, FilledAtFirst
  <2> QED
    BY <2>2
<1>3. ASSUME NEW x \in Nat, x \in S PROVE x + 1 \in S
  <2> SUFFICES ASSUME x + 1 <= n PROVE Filled(m, n, f[x + 1], x + 1)
    OBVIOUS
  <2>1. x \in 0 .. n-1 /\ x + 1 \in 0 .. n /\ x + 1 # 0 /\ (x + 1) - 1 = x
    OBVIOUS
  <2>2. Filled(m, n, f[x], x)
    BY <1>3, <2>1
  <2>3. f[x + 1] = IF x \in Occupied(m) THEN Moved(f[x], m, x) ELSE f[x]
    BY <1>1, <2>1 DEF IsFill
  <2> QED
    BY <2>1, <2>2, <2>3, FilledNext
<1> HIDE DEF S
<1>4. \A x \in Nat : x \in S
  BY <1>2, <1>3, Induction
<1> QED
  BY <1>1, <1>4 DEF S

-----------------------------------------------------------------------------
(* Every operation leaves a sound table that holds what it should.         *)

SameEntries(m, r) == \A k \in Keys : \A v : Holds(r, k, v) <=> Holds(m, k, v)

LEMMA SoundIsTable ==
  ASSUME NEW m, NEW n, Sound(m, n)
  PROVE  /\ n \in Nat /\ n > 0 /\ n >= 4 /\ m \in Tables(n) /\ Size(m) = n
         /\ DOMAIN m.bucket = 0 .. n-1 /\ DOMAIN m.value = 0 .. n-1
         /\ m.count \in Nat /\ m.tombstones \in Nat
         /\ Placed(m) /\ Once(m) /\ Counted(m) /\ m.count + m.tombstones < n
<1>1. n \in Nat /\ n > 0 /\ n >= 4 /\ m \in Tables(n)
  BY DEF Sound
<1>2. m.count \in Nat /\ m.tombstones \in Nat
  BY <1>1 DEF Tables
<1>3. Placed(m) /\ Once(m) /\ Counted(m) /\ m.count + m.tombstones < n
  BY DEF Sound
<1> QED
  BY <1>1, <1>2, <1>3, TableSize

LEMMA GrowIsSound ==
  ASSUME NEW m, NEW n, Sound(m, n)
  PROVE  /\ Sound(Grow(m), 2 * n) /\ SameEntries(m, Grow(m))
         /\ Grow(m).count = m.count /\ Grow(m).tombstones = 0
<1>1. /\ n \in Nat /\ n > 0 /\ n >= 4 /\ m \in Tables(n) /\ DOMAIN m.bucket = 0 .. n-1
      /\ m.count \in Nat /\ m.tombstones \in Nat
      /\ Once(m) /\ Counted(m) /\ m.count + m.tombstones < n
  BY SoundIsTable
<1>2. PICK g : g = Grow(m)
  OBVIOUS
<1>3. Filled(m, n, g, n)
  BY <1>1, <1>2, GrowFills
<1>4. Former(m, n) = Occupied(m)
  <2>1. Occupied(m) \subseteq 0 .. n-1
    BY <1>1 DEF Occupied
  <2>2. \A i \in 0 .. n-1 : i < n
    BY <1>1
  <2> QED
    BY <2>1, <2>2 DEF Former
<1>5. /\ g \in Tables(2 * n) /\ Placed(g) /\ Once(g)
      /\ g.count = m.count /\ g.tombstones = 0
  BY <1>3 DEF Filled
<1>6. Counted(g)
  <2>1. Cardinality(TombstonesOf(g)) = 0
    BY <1>3, FS_EmptySet DEF Filled
  <2>2. Cardinality(Occupied(g)) = Cardinality(Occupied(m))
    BY <1>3, <1>4 DEF Filled
  <2>3. m.count = Cardinality(Occupied(m))
    BY <1>1 DEF Counted
  <2> QED
    BY <1>5, <2>1, <2>2, <2>3 DEF Counted
<1>7. Sound(g, 2 * n)
  <2>1. 2 * n \in Nat /\ 2 * n >= 4 /\ g.count + g.tombstones < 2 * n
    BY <1>1, <1>5
  <2> QED
    BY <1>5, <1>6, <2>1 DEF Sound
<1>8. ASSUME NEW k \in Keys, NEW v PROVE Holds(g, k, v) <=> Holds(m, k, v)
  <2>1. Holds(g, k, v) <=> \E i \in Occupied(m) : m.bucket[i] = k /\ m.value[i] = v
    BY <1>3, <1>4 DEF Filled
  <2> QED
    BY <2>1 DEF Holds, Occupied
<1> QED
  BY <1>2, <1>5, <1>7, <1>8 DEF SameEntries

Absent(m, k) == \A i \in DOMAIN m.bucket : m.bucket[i] # k

LEMMA AbsentHoldsNothing ==
  ASSUME NEW m, NEW k
  PROVE  Absent(m, k) <=> \A v : ~Holds(m, k, v)
BY DEF Absent, Holds

\* A table with room for an entry keeps it at the first empty bucket of its probe.
LEMMA PlaceIsSound ==
  ASSUME NEW m, NEW n, Sound(m, n), m.count + m.tombstones + 1 < n,
         NEW k \in Keys, NEW v \in Vals, Absent(m, k)
  PROVE  /\ FreeStep(m, k) # Nowhere
         /\ Sound(Place(m, k, v, Probe(m, k, FreeStep(m, k))), n)
         /\ \A x \in Keys : \A w : Holds(Place(m, k, v, Probe(m, k, FreeStep(m, k))), x, w)
              <=> (x = k /\ w = v) \/ Holds(m, x, w)
<1>1. /\ n \in Nat /\ n > 0 /\ n >= 4 /\ m \in Tables(n)
      /\ DOMAIN m.bucket = 0 .. n-1 /\ DOMAIN m.value = 0 .. n-1
      /\ m.count \in Nat /\ m.tombstones \in Nat
      /\ Placed(m) /\ Once(m) /\ Counted(m)
  BY SoundIsTable
<1>2. \E i \in 0 .. n-1 : m.bucket[i] = Empty
  <2>1. Cardinality(Occupied(m)) + Cardinality(TombstonesOf(m)) < n
    BY <1>1 DEF Counted, Sound
  <2> QED
    BY <1>1, <2>1, EmptyBucketLeft
<1>3. PICK s : s = FreeStep(m, k) /\ FirstEmpty(m, k, s) /\ s # Nowhere
  BY <1>1, <1>2, FreeStepIsEmpty
<1>4. PICK j : j = Probe(m, k, s)
  OBVIOUS
<1>5. j \in 0 .. n-1 /\ m.bucket[j] = Empty
  <2>1. s \in 0 .. n-1 /\ m.bucket[j] = Empty
    BY <1>1, <1>3, <1>4 DEF FirstEmpty
  <2> QED
    BY <1>1, <1>4, <2>1, ProbeStays
<1>6. PICK r : r = Place(m, k, v, j)
  OBVIOUS
<1>7. /\ r.bucket = [m.bucket EXCEPT ![j] = k] /\ r.value = [m.value EXCEPT ![j] = v]
      /\ r.count = m.count + 1 /\ r.tombstones = m.tombstones /\ r \in Tables(n)
  <2>1. ~Reuses(m, j)
    BY <1>5, BucketAssumption DEF Reuses
  <2>2. /\ m.bucket \in [0 .. n-1 -> Buckets] /\ m.value \in [0 .. n-1 -> Vals]
        /\ m = [bucket |-> m.bucket, value |-> m.value, count |-> m.count,
                tombstones |-> m.tombstones]
    BY <1>1 DEF Tables
  <2>3. r = [bucket |-> [m.bucket EXCEPT ![j] = k], value |-> [m.value EXCEPT ![j] = v],
             count |-> m.count + 1, tombstones |-> m.tombstones]
    BY <1>6, <2>1, <2>2 DEF Place
  <2>4. /\ [m.bucket EXCEPT ![j] = k] \in [0 .. n-1 -> Buckets]
        /\ [m.value EXCEPT ![j] = v] \in [0 .. n-1 -> Vals]
        /\ m.count + 1 \in Nat
    BY <1>1, <1>5, <2>2 DEF Buckets
  <2> QED
    BY <1>1, <2>3, <2>4 DEF Tables
<1>8. Adds(m, r, n, k, j)
  BY <1>1, <1>3, <1>4, <1>7 DEF Adds, Absent
<1>9. Placed(r) /\ Once(r)
  BY <1>1, <1>8, AddKeepsPlaced, AddKeepsOnce
<1>10. Counted(r)
  <2>1. Cardinality(Occupied(r)) = Cardinality(Occupied(m)) + 1
    BY <1>1, <1>8, AddCounts
  <2>2. TombstonesOf(r) = TombstonesOf(m)
    BY <1>1, <1>8, AddKeepsOnce
  <2> QED
    BY <1>1, <1>7, <2>1, <2>2 DEF Counted
<1>11. Sound(r, n)
  <2>1. r.count + r.tombstones < n
    BY <1>1, <1>7
  <2> QED
    BY <1>1, <1>7, <1>9, <1>10, <2>1 DEF Sound
<1>12. \A x \in Keys : \A w : Holds(r, x, w) <=> (x = k /\ w = v) \/ Holds(m, x, w)
  <2>1. AddsEntry(m, r, n, k, j, v)
    BY <1>7, <1>8 DEF AddsEntry
  <2> QED
    BY <2>1, AddHolds
<1> QED
  BY <1>3, <1>4, <1>6, <1>11, <1>12

\* An insertion leaves the other entries alone, the table growing first or not; its
\* fallback for a table without a free bucket is never taken.
LEMMA InsertIsSound ==
  ASSUME NEW m, NEW n, Sound(m, n), NEW k \in Keys, NEW v \in Vals, Absent(m, k)
  PROVE  /\ \E N \in {n, 2 * n} : Sound(Insert(m, k, v), N)
         /\ \A x \in Keys : \A w : Holds(Insert(m, k, v), x, w) <=> (x = k /\ w = v) \/ Holds(m, x, w)
<1>1. /\ n \in Nat /\ n >= 4 /\ Size(m) = n /\ m.count \in Nat /\ m.tombstones \in Nat
      /\ m.count + m.tombstones < n
  BY SoundIsTable
<1>2. PICK r : r = IF Used(m) * 4 >= Size(m) * 3 THEN Grow(m) ELSE m
  OBVIOUS
<1>3. PICK N \in {n, 2 * n} : Sound(r, N) /\ r.count + r.tombstones + 1 < N
  <2>1. CASE Used(m) * 4 >= Size(m) * 3
    <3>1. Sound(r, 2 * n) /\ r.count = m.count /\ r.tombstones = 0
      BY <1>2, <2>1, GrowIsSound
    <3>2. r.count + r.tombstones + 1 < 2 * n
      BY <1>1, <3>1
    <3> QED
      BY <3>1, <3>2
  <2>2. CASE ~(Used(m) * 4 >= Size(m) * 3)
    <3>1. m.count + m.tombstones + 1 < n
      BY <1>1, <2>2 DEF Used
    <3> QED
      BY <1>2, <2>2, <3>1
  <2> QED
    BY <2>1, <2>2
<1>4. SameEntries(m, r)
  <2>1. SameEntries(m, Grow(m))
    BY GrowIsSound
  <2>2. SameEntries(m, m)
    BY DEF SameEntries
  <2> QED
    BY <1>2, <2>1, <2>2
<1>5. Absent(r, k)
  <2>1. \A w : ~Holds(m, k, w)
    BY AbsentHoldsNothing
  <2>2. \A w : ~Holds(r, k, w)
    BY <1>4, <2>1 DEF SameEntries
  <2> QED
    BY <2>2, AbsentHoldsNothing
<1>6. PICK p : p = Place(r, k, v, Probe(r, k, FreeStep(r, k)))
  OBVIOUS
<1>7. /\ FreeStep(r, k) # Nowhere /\ Sound(p, N)
      /\ \A x \in Keys : \A w : Holds(p, x, w) <=> (x = k /\ w = v) \/ Holds(r, x, w)
  BY <1>3, <1>5, <1>6, PlaceIsSound
<1>8. Insert(m, k, v) = p
  BY <1>2, <1>6, <1>7, Zenon DEF Insert
<1> QED
  BY <1>4, <1>7, <1>8 DEF SameEntries

\* m with the value of bucket i replaced.
Overwritten(m, i, v) == [m EXCEPT !.value[i] = v]

LEMMA OverwriteIsSound ==
  ASSUME NEW m, NEW n, Sound(m, n), NEW k \in Keys, NEW v \in Vals,
         NEW i \in DOMAIN m.bucket, m.bucket[i] = k
  PROVE  /\ Sound(Overwritten(m, i, v), n)
         /\ \A x \in Keys : \A w : Holds(Overwritten(m, i, v), x, w)
              <=> (x = k /\ w = v) \/ (x # k /\ Holds(m, x, w))
<1>1. /\ n \in Nat /\ n > 0 /\ n >= 4 /\ m \in Tables(n)
      /\ DOMAIN m.bucket = 0 .. n-1 /\ DOMAIN m.value = 0 .. n-1
      /\ Placed(m) /\ Once(m) /\ Counted(m) /\ m.count + m.tombstones < n
  BY SoundIsTable
<1>2. PICK r : r = Overwritten(m, i, v)
  OBVIOUS
<1>3. /\ r.bucket = m.bucket /\ r.value = [m.value EXCEPT ![i] = v]
      /\ r.count = m.count /\ r.tombstones = m.tombstones /\ r \in Tables(n)
  BY <1>1, <1>2 DEF Tables, Overwritten
<1>4. Placed(r)
  BY <1>1, <1>3, SameProbes DEF Placed
<1>5. Once(r) /\ Counted(r)
  BY <1>1, <1>3 DEF Once, Counted, Occupied, TombstonesOf
<1>6. Sound(r, n)
  BY <1>1, <1>3, <1>4, <1>5 DEF Sound
<1>7. \A a \in 0 .. n-1 : r.value[a] = IF a = i THEN v ELSE m.value[a]
  BY <1>1, <1>3
<1>8. \A a \in 0 .. n-1 : m.bucket[a] = k <=> a = i
  BY <1>1 DEF Once, Occupied
<1>9. \A x \in Keys : \A w : Holds(r, x, w) <=> (x = k /\ w = v) \/ (x # k /\ Holds(m, x, w))
  BY <1>1, <1>3, <1>7, <1>8 DEF Holds
<1> QED
  BY <1>2, <1>6, <1>9

\* m without the entry of bucket i, which becomes a tombstone.
Without(m, i) ==
  [m EXCEPT !.bucket[i] = Left(i), !.value[i] = Default,
            !.count = @ - 1, !.tombstones = @ + 1]

LEMMA RemoveIsSound ==
  ASSUME NEW m, NEW n, Sound(m, n), NEW k \in Keys,
         NEW i \in DOMAIN m.bucket, m.bucket[i] = k
  PROVE  /\ Sound(Without(m, i), n)
         /\ \A x \in Keys : \A w : Holds(Without(m, i), x, w) <=> x # k /\ Holds(m, x, w)
<1>1. /\ n \in Nat /\ n > 0 /\ n >= 4 /\ m \in Tables(n)
      /\ DOMAIN m.bucket = 0 .. n-1 /\ DOMAIN m.value = 0 .. n-1
      /\ m.count \in Nat /\ m.tombstones \in Nat
      /\ Placed(m) /\ Once(m) /\ Counted(m) /\ m.count + m.tombstones < n
  BY SoundIsTable
<1>2. PICK r : r = Without(m, i)
  OBVIOUS
<1>3. Tombstone \notin Keys /\ Empty # Tombstone /\ Default \in Vals
  BY BucketAssumption
<1>4. /\ Occupied(m) \subseteq 0 .. n-1 /\ TombstonesOf(m) \subseteq 0 .. n-1
      /\ i \in Occupied(m) /\ i \notin TombstonesOf(m)
      /\ IsFiniteSet(Occupied(m)) /\ IsFiniteSet(TombstonesOf(m))
  <2>1. /\ Occupied(m) \subseteq 0 .. n-1 /\ TombstonesOf(m) \subseteq 0 .. n-1
        /\ i \in Occupied(m) /\ i \notin TombstonesOf(m)
    BY <1>1, <1>3 DEF Occupied, TombstonesOf
  <2>2. IsFiniteSet(0 .. n-1)
    BY <1>1, TableSize
  <2> QED
    BY <2>1, <2>2, FS_Subset
<1>5. m.count - 1 \in Nat
  <2>1. Cardinality(Occupied(m)) # 0
    BY <1>4, FS_EmptySet
  <2> QED
    BY <1>1, <2>1 DEF Counted
<1>6. /\ r.bucket = [m.bucket EXCEPT ![i] = Tombstone]
      /\ r.value = [m.value EXCEPT ![i] = Default]
      /\ r.count = m.count - 1 /\ r.tombstones = m.tombstones + 1 /\ r \in Tables(n)
  <2>1. /\ m.bucket \in [0 .. n-1 -> Buckets] /\ m.value \in [0 .. n-1 -> Vals]
        /\ m = [bucket |-> m.bucket, value |-> m.value, count |-> m.count,
                tombstones |-> m.tombstones]
    BY <1>1 DEF Tables
  <2>2. r = [bucket |-> [m.bucket EXCEPT ![i] = Tombstone],
             value |-> [m.value EXCEPT ![i] = Default],
             count |-> m.count - 1, tombstones |-> m.tombstones + 1]
    BY <1>2, <2>1 DEF Without, Left
  <2>3. /\ [m.bucket EXCEPT ![i] = Tombstone] \in [0 .. n-1 -> Buckets]
        /\ [m.value EXCEPT ![i] = Default] \in [0 .. n-1 -> Vals]
        /\ m.tombstones + 1 \in Nat
    BY <1>1, <1>3, <2>1 DEF Buckets
  <2> QED
    BY <1>5, <2>2, <2>3 DEF Tables
<1>7. /\ DOMAIN r.bucket = 0 .. n-1
      /\ \A a \in 0 .. n-1 : /\ r.bucket[a] = IF a = i THEN Tombstone ELSE m.bucket[a]
                             /\ r.value[a] = IF a = i THEN Default ELSE m.value[a]
  BY <1>1, <1>6
<1>8. Placed(r)
  <2> SUFFICES ASSUME NEW x \in Keys, NEW s \in 0 .. n-1, r.bucket[Probe(r, x, s)] = x,
                      NEW t \in 0 .. s-1
               PROVE  r.bucket[Probe(r, x, t)] # Empty
    BY <1>7 DEF Placed
  <2>1. Probe(r, x, s) = Probe(m, x, s) /\ Probe(r, x, t) = Probe(m, x, t)
    BY <1>1, <1>6, SameProbes
  <2>2. Probe(m, x, s) \in 0 .. n-1 /\ Probe(m, x, t) \in 0 .. n-1
    <3>1. t \in 0 .. n-1
      BY <1>1
    <3> QED
      BY <1>1, <3>1, ProbeStays
  <2>3. m.bucket[Probe(m, x, s)] = x
    BY <1>3, <1>7, <2>1, <2>2
  <2>4. m.bucket[Probe(m, x, t)] # Empty
    BY <1>1, <2>3 DEF Placed
  <2> QED
    BY <1>3, <1>7, <2>1, <2>2, <2>4
<1>9. Occupied(r) = Occupied(m) \ {i} /\ TombstonesOf(r) = TombstonesOf(m) \cup {i}
  BY <1>1, <1>3, <1>7 DEF Occupied, TombstonesOf
<1>10. Once(r)
  BY <1>1, <1>4, <1>7, <1>9 DEF Once
<1>11. Counted(r)
  <2>1. Cardinality(Occupied(r)) = Cardinality(Occupied(m)) - 1
    BY <1>4, <1>9, FS_RemoveElement
  <2>2. Cardinality(TombstonesOf(r)) = Cardinality(TombstonesOf(m)) + 1
    BY <1>4, <1>9, FS_AddElement
  <2> QED
    BY <1>1, <1>6, <2>1, <2>2 DEF Counted
<1>12. Sound(r, n)
  <2>1. r.count + r.tombstones < n
    BY <1>1, <1>6
  <2> QED
    BY <1>1, <1>6, <1>8, <1>10, <1>11, <2>1 DEF Sound
<1>13. \A x \in Keys : \A w : Holds(r, x, w) <=> x # k /\ Holds(m, x, w)
  <2>1. \A a \in 0 .. n-1 : m.bucket[a] = k <=> a = i
    BY <1>1 DEF Once, Occupied
  <2> QED
    BY <1>1, <1>3, <1>7, <2>1 DEF Holds
<1> QED
  BY <1>2, <1>12, <1>13

\* m with its occupied buckets emptied and its counters forgotten.
Cleared(m) ==
  [NoEntries(Size(m)) EXCEPT
     !.bucket = [i \in DOMAIN m.bucket |-> IF i \in Occupied(m) THEN Empty ELSE m.bucket[i]]]

LEMMA ClearIsSound ==
  ASSUME NEW m, NEW n, Sound(m, n), m.tombstones = 0
  PROVE  /\ Sound(Cleared(m), n)
         /\ \A x \in Keys : \A w : ~Holds(Cleared(m), x, w)
<1>1. /\ n \in Nat /\ n > 0 /\ n >= 4 /\ m \in Tables(n) /\ Size(m) = n
      /\ DOMAIN m.bucket = 0 .. n-1 /\ Counted(m)
  BY SoundIsTable
<1>2. TombstonesOf(m) = {}
  <2>1. IsFiniteSet(TombstonesOf(m))
    <3>1. TombstonesOf(m) \subseteq 0 .. n-1 /\ IsFiniteSet(0 .. n-1)
      BY <1>1, TableSize DEF TombstonesOf
    <3> QED
      BY <3>1, FS_Subset
  <2> QED
    BY <1>1, <2>1, FS_EmptySet DEF Counted
<1>3. PICK r : r = Cleared(m)
  OBVIOUS
<1>4. \A i \in 0 .. n-1 : (IF i \in Occupied(m) THEN Empty ELSE m.bucket[i]) = Empty
  <2>1. m.bucket \in [0 .. n-1 -> Buckets]
    BY <1>1 DEF Tables
  <2> QED
    BY <1>1, <1>2, <2>1 DEF Occupied, TombstonesOf, Buckets
<1>5. r = NoEntries(n)
  <2>1. NoEntries(n).bucket = [i \in 0 .. n-1 |-> Empty]
    BY DEF NoEntries
  <2>2. [i \in DOMAIN m.bucket |-> IF i \in Occupied(m) THEN Empty ELSE m.bucket[i]]
          = [i \in 0 .. n-1 |-> Empty]
    BY <1>1, <1>4
  <2>3. r = [NoEntries(n) EXCEPT !.bucket = [i \in 0 .. n-1 |-> Empty]]
    BY <1>1, <1>3, <2>2 DEF Cleared
  <2> QED
    BY <2>3 DEF NoEntries
<1>6. /\ r \in Tables(n) /\ \A i \in 0 .. n-1 : r.bucket[i] = Empty
      /\ r.count = 0 /\ r.tombstones = 0
  BY <1>1, <1>5, NoEntriesIsTable
<1>7. /\ Placed(r) /\ Once(r) /\ Occupied(r) = {} /\ TombstonesOf(r) = {}
      /\ \A k \in Keys : \A v : ~Holds(r, k, v)
  BY <1>1, <1>6, WithoutEntries
<1>8. Sound(r, n)
  BY <1>1, <1>6, <1>7, FS_EmptySet DEF Sound, Counted
<1> QED
  BY <1>3, <1>7, <1>8

-----------------------------------------------------------------------------
(* The map a table stands for.                                             *)

EntriesOf(m) ==
  [k \in {m.bucket[i] : i \in Occupied(m)} |->
     m.value[CHOOSE i \in Occupied(m) : m.bucket[i] = k]]

LEMMA EntriesAreHeld ==
  ASSUME NEW m, NEW n, Sound(m, n)
  PROVE  /\ DOMAIN EntriesOf(m) \subseteq Keys
         /\ \A k \in Keys : \A v :
              Holds(m, k, v) <=> k \in DOMAIN EntriesOf(m) /\ EntriesOf(m)[k] = v
<1>1. Once(m)
  BY SoundIsTable
<1>2. DOMAIN EntriesOf(m) = {m.bucket[i] : i \in Occupied(m)}
  BY DEF EntriesOf
<1>3. ASSUME NEW i \in Occupied(m)
      PROVE  m.bucket[i] \in DOMAIN EntriesOf(m) /\ EntriesOf(m)[m.bucket[i]] = m.value[i]
  <2>1. (CHOOSE j \in Occupied(m) : m.bucket[j] = m.bucket[i]) = i
    BY <1>1 DEF Once
  <2> QED
    BY <1>2, <2>1 DEF EntriesOf
<1>4. DOMAIN EntriesOf(m) \subseteq Keys
  BY <1>2 DEF Occupied
<1>5. ASSUME NEW k \in Keys, NEW v, Holds(m, k, v)
      PROVE  k \in DOMAIN EntriesOf(m) /\ EntriesOf(m)[k] = v
  <2>1. PICK i \in DOMAIN m.bucket : m.bucket[i] = k /\ m.value[i] = v
    BY <1>5 DEF Holds
  <2>2. i \in Occupied(m)
    BY <2>1 DEF Occupied
  <2> QED
    BY <1>3, <2>1, <2>2
<1>6. ASSUME NEW k \in DOMAIN EntriesOf(m) PROVE Holds(m, k, EntriesOf(m)[k])
  <2>1. PICK i \in Occupied(m) : m.bucket[i] = k
    BY <1>2
  <2>2. EntriesOf(m)[k] = m.value[i]
    BY <1>3, <2>1
  <2> QED
    BY <2>1, <2>2 DEF Holds, Occupied
<1> QED
  BY <1>4, <1>5, <1>6

\* A table that holds the entries of a function stands for it.
LEMMA EntriesAreTheHeld ==
  ASSUME NEW m, NEW n, Sound(m, n), NEW f, f = [k \in DOMAIN f |-> f[k]],
         DOMAIN f \subseteq Keys,
         \A k \in Keys : \A v : Holds(m, k, v) <=> k \in DOMAIN f /\ f[k] = v
  PROVE  EntriesOf(m) = f
<1>1. PICK e : e = EntriesOf(m)
  OBVIOUS
<1>2. e = [k \in DOMAIN e |-> e[k]]
  BY <1>1 DEF EntriesOf
<1>3. /\ DOMAIN e \subseteq Keys
      /\ \A k \in Keys : \A v : Holds(m, k, v) <=> k \in DOMAIN e /\ e[k] = v
  BY <1>1, EntriesAreHeld
<1>4. DOMAIN e = DOMAIN f
  BY <1>3
<1>5. \A k \in DOMAIN e : e[k] = f[k]
  BY <1>3
<1> QED
  BY <1>1, <1>2, <1>4, <1>5

LEMMA SettingIsSet ==
  ASSUME NEW m, NEW n, Sound(m, n), NEW r, NEW N, Sound(r, N), NEW k \in Keys, NEW v,
         \A x \in Keys : \A w : Holds(r, x, w) <=> (x = k /\ w = v) \/ (x # k /\ Holds(m, x, w))
  PROVE  EntriesOf(r) = [x \in DOMAIN EntriesOf(m) \cup {k} |->
                           IF x = k THEN v ELSE EntriesOf(m)[x]]
<1>1. PICK e : e = EntriesOf(m)
  OBVIOUS
<1>2. /\ DOMAIN e \subseteq Keys
      /\ \A x \in Keys : \A w : Holds(m, x, w) <=> x \in DOMAIN e /\ e[x] = w
  BY <1>1, EntriesAreHeld
<1>3. PICK f : f = [x \in DOMAIN e \cup {k} |-> IF x = k THEN v ELSE e[x]]
  OBVIOUS
<1>4. DOMAIN f = DOMAIN e \cup {k} /\ DOMAIN f \subseteq Keys /\ f = [x \in DOMAIN f |-> f[x]]
  BY <1>2, <1>3
<1>5. \A x \in Keys : \A w : Holds(r, x, w) <=> x \in DOMAIN f /\ f[x] = w
  BY <1>2, <1>3
<1>6. EntriesOf(r) = f
  BY <1>4, <1>5, EntriesAreTheHeld
<1> QED
  BY <1>1, <1>3, <1>6

(* The table r holds what m holds, but the key k. *)
Lacks(r, m, k) == \A x \in Keys : \A w : Holds(r, x, w) <=> x # k /\ Holds(m, x, w)

LEMMA RemovingIsRemoved ==
  ASSUME NEW m, NEW n, Sound(m, n), NEW r, Sound(r, n), NEW k \in Keys,
         Lacks(r, m, k)
  PROVE  EntriesOf(r) = [x \in DOMAIN EntriesOf(m) \ {k} |-> EntriesOf(m)[x]]
<1>1. PICK e : e = EntriesOf(m)
  OBVIOUS
<1>2. /\ DOMAIN e \subseteq Keys
      /\ \A x \in Keys : \A w : Holds(m, x, w) <=> x \in DOMAIN e /\ e[x] = w
  BY <1>1, EntriesAreHeld
<1>3. PICK f : f = [x \in DOMAIN e \ {k} |-> e[x]]
  OBVIOUS
<1>4. DOMAIN f = DOMAIN e \ {k} /\ DOMAIN f \subseteq Keys /\ f = [x \in DOMAIN f |-> f[x]]
  BY <1>2, <1>3
<1>5. \A x \in Keys : \A w : Holds(r, x, w) <=> x \in DOMAIN f /\ f[x] = w
  BY <1>2, <1>3 DEF Lacks
<1>6. EntriesOf(r) = f
  BY <1>4, <1>5, EntriesAreTheHeld
<1> QED
  BY <1>1, <1>3, <1>6

LEMMA NothingHeldIsEmpty ==
  ASSUME NEW m, NEW n, Sound(m, n), \A x \in Keys : \A w : ~Holds(m, x, w)
  PROVE  EntriesOf(m) = [k \in {} |-> Default]
<1>1. PICK f : f = [k \in {} |-> Default]
  OBVIOUS
<1>2. DOMAIN f = {} /\ f = [k \in DOMAIN f |-> f[k]]
  BY <1>1
<1>3. EntriesOf(m) = f
  BY <1>2, EntriesAreTheHeld
<1> QED
  BY <1>1, <1>3

-----------------------------------------------------------------------------
(* The steps of the specification.                                         *)

\* The inductive invariant.
IInv == Sound(This, Size(This))

\* The four variables are the table that the step makes.
LEMMA StepIs ==
  ASSUME NEW r, NEW N, Sound(r, N), Becomes(r)
  PROVE  This' = r /\ IInv' /\ Entries' = EntriesOf(r)
<1>1. r \in Tables(N) /\ Size(r) = N
  BY SoundIsTable
<1>2. This' = r
  BY <1>1 DEF Tables, Becomes, This
<1>3. Entries' = EntriesOf(This')
  BY DEF Entries, EntriesOf, This, Occupied
<1>4. IInv' <=> Sound(This', Size(This'))
  BY DEF IInv
<1> QED
  BY <1>1, <1>2, <1>3, <1>4

LEMMA EntriesAreThis == Entries = EntriesOf(This)
BY DEF Entries, EntriesOf, This, Occupied

LEMMA InitIsSound ==
  ASSUME TableInit
  PROVE  IInv /\ Abstract!Init
<1>1. InitSize \in Nat /\ InitSize >= 4 /\ InitSize > 0
  BY SizeAssumption
<1>2. This = NoEntries(InitSize)
  BY DEF TableInit, This, NoEntries
<1>3. PICK r : r = NoEntries(InitSize)
  OBVIOUS
<1>4. /\ r \in Tables(InitSize) /\ \A i \in 0 .. InitSize-1 : r.bucket[i] = Empty
      /\ r.count = 0 /\ r.tombstones = 0
  BY <1>1, <1>3, NoEntriesIsTable
<1>5. /\ Placed(r) /\ Once(r) /\ Occupied(r) = {} /\ TombstonesOf(r) = {}
      /\ \A k \in Keys : \A v : ~Holds(r, k, v)
  BY <1>1, <1>4, WithoutEntries
<1>6. Sound(r, InitSize)
  BY <1>1, <1>4, <1>5, FS_EmptySet DEF Sound, Counted
<1>7. Size(r) = InitSize
  BY <1>6, SoundIsTable
<1>8. EntriesOf(r) = [k \in {} |-> Default]
  BY <1>5, <1>6, NothingHeldIsEmpty
<1>9. IInv
  BY <1>2, <1>3, <1>6, <1>7 DEF IInv
<1> QED
  BY <1>2, <1>3, <1>8, <1>9, EntriesAreThis DEF Abstract!Init

\* What put, and an index that inserts, leave.
LEMMA PutStep ==
  ASSUME IInv, NEW k \in Keys, NEW v \in Vals, Put(k, v)
  PROVE  IInv' /\ Abstract!Set(k, v)
<1>1. PICK m, n : m = This /\ n = Size(This)
  OBVIOUS
<1>2. Sound(m, n)
  BY <1>1 DEF IInv
<1>3. /\ n \in Nat /\ n > 0 /\ m \in Tables(n) /\ DOMAIN m.bucket = 0 .. n-1
      /\ Placed(m) /\ Once(m)
  BY <1>2, SoundIsTable
<1>4. PICK r : /\ r = IF Find(m, k) = Nowhere THEN Insert(m, k, v)
                      ELSE [m EXCEPT !.value[Find(m, k)] = v]
               /\ Becomes(r)
  BY <1>1 DEF Put
<1>5. PICK N : /\ Sound(r, N)
               /\ \A x \in Keys : \A w : Holds(r, x, w)
                    <=> (x = k /\ w = v) \/ (x # k /\ Holds(m, x, w))
  <2>1. CASE Absent(m, k)
    <3>1. Find(m, k) = Nowhere
      BY <1>3, <2>1, FindIsExact DEF Absent
    <3>2. /\ \E N \in {n, 2 * n} : Sound(r, N)
          /\ \A x \in Keys : \A w : Holds(r, x, w) <=> (x = k /\ w = v) \/ Holds(m, x, w)
      BY <1>2, <1>4, <2>1, <3>1, InsertIsSound
    <3>3. \A w : ~Holds(m, k, w)
      BY <2>1, AbsentHoldsNothing
    <3> QED
      BY <3>2, <3>3
  <2>2. CASE ~Absent(m, k)
    <3>1. PICK i \in 0 .. n-1 : m.bucket[i] = k
      BY <1>3, <2>2 DEF Absent
    <3>2. Find(m, k) = i /\ i # Nowhere
      BY <1>3, <3>1, FindIsExact DEF Nowhere
    <3>3. r = Overwritten(m, i, v)
      BY <1>4, <3>2 DEF Overwritten
    <3> QED
      BY <1>2, <1>3, <3>1, <3>3, OverwriteIsSound
  <2> QED
    BY <2>1, <2>2
<1>6. /\ Entries = EntriesOf(m) /\ Entries' = EntriesOf(r) /\ IInv'
  BY <1>1, <1>4, <1>5, EntriesAreThis, StepIs
<1>7. EntriesOf(r) = [x \in DOMAIN EntriesOf(m) \cup {k} |->
                        IF x = k THEN v ELSE EntriesOf(m)[x]]
  BY <1>2, <1>5, SettingIsSet
<1> QED
  BY <1>6, <1>7 DEF Abstract!Set

LEMMA IndexStep ==
  ASSUME IInv, NEW k \in Keys, Index(k)
  PROVE  IInv' /\ Abstract!Index(k)
<1>1. Put(k, Default)
  BY DEF Index, Put
<1>2. IInv' /\ Abstract!Set(k, Default)
  BY <1>1, PutStep, BucketAssumption
<1>3. k \notin DOMAIN Entries
  <2>1. PICK m, n : m = This /\ n = Size(This)
    OBVIOUS
  <2>2. Sound(m, n)
    BY <2>1 DEF IInv
  <2>3. /\ n \in Nat /\ n > 0 /\ m \in Tables(n) /\ DOMAIN m.bucket = 0 .. n-1
        /\ Placed(m) /\ Once(m)
    BY <2>2, SoundIsTable
  <2>4. Find(m, k) = Nowhere
    BY <2>1 DEF Index
  <2>5. Absent(m, k)
    <3> SUFFICES ASSUME NEW i \in 0 .. n-1, m.bucket[i] = k PROVE FALSE
      BY <2>3 DEF Absent
    <3>1. Find(m, k) = i
      BY <2>3, FindIsExact
    <3> QED
      BY <2>4, <3>1 DEF Nowhere
  <2>6. \A v : ~Holds(m, k, v)
    BY <2>5, AbsentHoldsNothing
  <2>7. \A v : Holds(m, k, v) <=> k \in DOMAIN EntriesOf(m) /\ EntriesOf(m)[k] = v
    BY <2>2, EntriesAreHeld
  <2> QED
    BY <2>1, <2>6, <2>7, EntriesAreThis
<1> QED
  BY <1>2, <1>3 DEF Abstract!Index

LEMMA RemoveStep ==
  ASSUME IInv, NEW k \in Keys, Remove(k)
  PROVE  IInv' /\ Abstract!Remove(k)
<1>1. PICK m, n : m = This /\ n = Size(This)
  OBVIOUS
<1>2. Sound(m, n)
  BY <1>1 DEF IInv
<1>3. /\ n \in Nat /\ n > 0 /\ m \in Tables(n) /\ DOMAIN m.bucket = 0 .. n-1
      /\ Placed(m) /\ Once(m)
  BY <1>2, SoundIsTable
<1>4. Find(m, k) # Nowhere /\ Becomes(Without(m, Find(m, k)))
  BY <1>1 DEF Remove, Without
<1>5. PICK i \in 0 .. n-1 : m.bucket[i] = k
  BY <1>3, <1>4, FindIsExact
<1>6. Find(m, k) = i
  BY <1>3, <1>5, FindIsExact
<1>7. PICK r : r = Without(m, i)
  OBVIOUS
<1>8. Sound(r, n) /\ \A x \in Keys : \A w : Holds(r, x, w) <=> x # k /\ Holds(m, x, w)
  BY <1>2, <1>3, <1>5, <1>7, RemoveIsSound
<1>9. Becomes(r)
  BY <1>4, <1>6, <1>7
<1>10. Entries = EntriesOf(m) /\ Entries' = EntriesOf(r) /\ IInv'
  BY <1>1, <1>8, <1>9, EntriesAreThis, StepIs
<1>11. EntriesOf(r) = [x \in DOMAIN EntriesOf(m) \ {k} |-> EntriesOf(m)[x]]
  <2>1. Lacks(r, m, k)
    BY <1>8 DEF Lacks
  <2>2. Sound(r, n) /\ k \in Keys
    BY <1>8
  <2> QED
    BY ONLY SMT, <1>2, <2>1, <2>2, RemovingIsRemoved
<1>12. k \in DOMAIN EntriesOf(m)
  <2>1. Holds(m, k, m.value[i])
    BY <1>3, <1>5 DEF Holds
  <2> QED
    BY <1>2, <2>1, EntriesAreHeld
<1> QED
  BY <1>10, <1>11, <1>12 DEF Abstract!Remove

LEMMA ClearStep ==
  ASSUME ~ClearsTombstones, IInv, Clear
  PROVE  IInv' /\ Abstract!Clear
<1>1. PICK m, n : m = This /\ n = Size(This)
  OBVIOUS
<1>2. Sound(m, n)
  BY <1>1 DEF IInv
<1>3. m.tombstones = 0
  BY <1>1 DEF Clear, This
<1>4. PICK r : r = Cleared(m)
  OBVIOUS
<1>5. Becomes(r)
  BY <1>1, <1>4 DEF Clear, Cleared, This
<1>6. Sound(r, n) /\ \A x \in Keys : \A w : ~Holds(r, x, w)
  BY <1>2, <1>3, <1>4, ClearIsSound
<1>7. EntriesOf(r) = [k \in {} |-> Default]
  BY <1>6, NothingHeldIsEmpty
<1>8. Entries' = EntriesOf(r) /\ IInv'
  BY <1>5, <1>6, StepIs
<1> QED
  BY <1>7, <1>8 DEF Abstract!Clear

LEMMA StepIsSound ==
  ASSUME ~ClearsTombstones, IInv, [TableNext]_tableVars
  PROVE  IInv' /\ [Abstract!Next]_Entries
<1>1. ASSUME NEW k \in Keys, NEW v \in Vals, Put(k, v) PROVE IInv' /\ Abstract!Next
  BY <1>1, PutStep DEF Abstract!Next, Abstract!Put
<1>2. ASSUME NEW k \in Keys, Index(k) PROVE IInv' /\ Abstract!Next
  BY <1>2, IndexStep DEF Abstract!Next
<1>3. ASSUME NEW k \in Keys, Remove(k) PROVE IInv' /\ Abstract!Next
  BY <1>3, RemoveStep DEF Abstract!Next
<1>4. ASSUME Clear PROVE IInv' /\ Abstract!Next
  BY <1>4, ClearStep DEF Abstract!Next
<1>5. ASSUME UNCHANGED tableVars PROVE IInv' /\ Entries' = Entries
  BY <1>5 DEF tableVars, IInv, Entries, This, Sound, Tables, Placed, Once, Counted, Occupied,
              TombstonesOf, Probe, Size
<1> QED
  BY <1>1, <1>2, <1>3, <1>4, <1>5 DEF TableNext

\* In a sound table the probes are sound.
LEMMA SoundProbes ==
  ASSUME IInv
  PROVE  ProbesAreSound
<1>1. PICK m, n : m = This /\ n = Size(This)
  OBVIOUS
<1>2. Sound(m, n)
  BY <1>1 DEF IInv
<1>3. /\ n \in Nat /\ n > 0 /\ m \in Tables(n) /\ DOMAIN m.bucket = 0 .. n-1
      /\ Placed(m) /\ Once(m) /\ Counted(m) /\ m.count + m.tombstones < n
  BY <1>2, SoundIsTable
<1>4. m.bucket = bucket /\ m.value = value /\ m.count = count /\ m.tombstones = tombstones
  BY <1>1 DEF This
<1>5. TableTypeOK
  BY <1>1, <1>3, <1>4 DEF TableTypeOK, Tables, Buckets
<1>6. CountersExact
  BY <1>1, <1>3, <1>4 DEF CountersExact, Counted, TombstonesOf
<1>7. ProbesEnd
  <2>1. Cardinality(Occupied(m)) + Cardinality(TombstonesOf(m)) < n
    BY <1>3 DEF Counted
  <2> QED
    BY <1>3, <1>4, <2>1, EmptyBucketLeft DEF ProbesEnd
<1>8. EntriesAreFound
  <2> SUFFICES ASSUME NEW i \in Occupied(m) PROVE Find(m, m.bucket[i]) = i
    BY <1>1, <1>4 DEF EntriesAreFound
  <2> QED
    BY <1>3, FindIsExact DEF Occupied
<1> QED
  BY <1>5, <1>6, <1>7, <1>8 DEF ProbesAreSound

LEMMA TableIsSound ==
  ASSUME ~ClearsTombstones
  PROVE  TableSpec => []IInv
<1>1. TableInit => IInv
  BY InitIsSound
<1>2. IInv /\ [TableNext]_tableVars => IInv'
  BY StepIsSound
<1> QED
  BY <1>1, <1>2, PTL DEF TableSpec

\* Whatever the keys, their hashes and the size of the first table, every insertion,
\* removal and growth leaves a table whose searches end, and end at the entry of their
\* key, unless the program clears a map that has tombstones.  (_find, _insertSlot, _grow)
THEOREM ProbesStaySound ==
  ~ClearsTombstones => (TableSpec => []ProbesAreSound)
<1> SUFFICES ASSUME ~ClearsTombstones PROVE TableSpec => []ProbesAreSound
  OBVIOUS
<1>1. IInv => ProbesAreSound
  BY SoundProbes
<1> QED
  BY <1>1, TableIsSound, PTL

\* HashMap implements a map: seen through its entries, every step is the operation of the
\* same name of KeyValueMap, which changes the entry of its own key and no other.
THEOREM HashMapIsAMap ==
  ~ClearsTombstones => (TableSpec => ImplementsMap)
<1> SUFFICES ASSUME ~ClearsTombstones PROVE TableSpec => ImplementsMap
  OBVIOUS
<1>1. TableInit => Abstract!Init
  BY InitIsSound
<1>2. IInv /\ [TableNext]_tableVars => [Abstract!Next]_Entries
  BY StepIsSound
<1> QED
  BY <1>1, <1>2, TableIsSound, PTL DEF TableSpec, ImplementsMap, Abstract!Spec
=============================================================================
