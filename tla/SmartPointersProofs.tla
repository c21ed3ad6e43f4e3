------------------------ MODULE SmartPointersProofs ------------------------
(***************************************************************************)
(* Proofs about SmartPointers, for any finite sets of blocks and of        *)
(* variables: counts are exact, control blocks outlive their use and dead  *)
(* objects stay dead, however deep the deletions nest, in programs whose   *)
(* objects hold no weak pointers and whose fields are set once.            *)
(*                                                                         *)
(* While calls are in progress a count is not the number of pointers one   *)
(* could see: fields of a deleted object count until their release, and a  *)
(* pointer whose release waits for a deletion counts no more.              *)
(***************************************************************************)
EXTENDS SmartPointers, FiniteSetTheorems, SequenceTheorems, TLAPS

-----------------------------------------------------------------------------
(***************************************************************************)
(* The elements of the lists the releases are kept in: of an empty one, of *)
(* one with a single element, and of what is left when the head is taken.  *)
(***************************************************************************)
LEMMA EmptyHoldsNothing == Range(<<>>) = {} /\ IsInjective(<<>>)
BY DEF Range, IsInjective

LEMMA OneHoldsOne ==
  ASSUME NEW S, NEW e \in S
  PROVE  /\ <<e>> \in Seq(S)
         /\ Range(<<e>>) = {e}
         /\ IsInjective(<<e>>)
BY DEF Range, IsInjective

LEMMA PopHolds ==
  ASSUME NEW S, NEW s \in Seq(S), s # <<>>, IsInjective(s)
  PROVE  /\ Head(s) \in S
         /\ Head(s) \in Range(s)
         /\ Tail(s) \in Seq(S)
         /\ Range(Tail(s)) = Range(s) \ {Head(s)}
         /\ IsInjective(Tail(s))
<1> DEFINE q == Tail(s)
<1>1. /\ Head(s) \in S /\ Head(s) = s[1]
      /\ q \in Seq(S) /\ Len(s) \in Nat /\ Len(s) >= 1
      /\ DOMAIN q = 1 .. Len(s) - 1 /\ DOMAIN s = 1 .. Len(s)
      /\ \A i \in 1 .. Len(s) - 1 : q[i] = s[i + 1]
  BY HeadTailProperties, LenProperties, EmptySeq
<1> HIDE DEF q
<1>2. Head(s) \in Range(s)
  <2>1. 1 \in DOMAIN s
    BY <1>1
  <2> QED BY <1>1, <2>1 DEF Range
<1>3. Range(q) = Range(s) \ {Head(s)}
  <2>1. ASSUME NEW i \in DOMAIN q PROVE q[i] \in Range(s) \ {Head(s)}
    <3>1. i + 1 \in DOMAIN s /\ q[i] = s[i + 1] /\ i + 1 # 1 /\ 1 \in DOMAIN s
      BY <1>1, <2>1
    <3>2. s[i + 1] # s[1]
      BY <3>1 DEF IsInjective
    <3> QED BY <1>1, <3>1, <3>2 DEF Range
  <2>2. ASSUME NEW i \in DOMAIN s, s[i] # Head(s) PROVE s[i] \in Range(q)
    <3>1. i - 1 \in DOMAIN q /\ (i - 1) + 1 = i
      BY <1>1, <2>2
    <3>2. q[i - 1] = s[i]
      BY <1>1, <3>1
    <3> QED BY <3>1, <3>2 DEF Range
  <2> QED BY <2>1, <2>2 DEF Range
<1>4. IsInjective(q)
  <2>1. ASSUME NEW i \in DOMAIN q, NEW j \in DOMAIN q, q[i] = q[j]
        PROVE  i = j
    <3>1. /\ i + 1 \in DOMAIN s /\ j + 1 \in DOMAIN s
          /\ s[i + 1] = s[j + 1]
      BY <1>1, <2>1
    <3>2. i + 1 = j + 1
      BY <3>1 DEF IsInjective
    <3> QED BY <1>1, <2>1, <3>2
  <2> QED BY <2>1 DEF IsInjective
<1> QED BY <1>1, <1>2, <1>3, <1>4 DEF q

\* The program does neither of the two (section 3 of the README).
Orderly == Habits \cap {"weakInside", "resetInside"} = {}

Variables     == SharedVars \cup WeakVars
FieldOf(x, S) == \E c \in S : x \in Fields(c)
Adopts        == {"copy", "move", "new"}

Pending    == Range(calls)
Releases   == {q \in Pending : q.op \in {"release", "after"}}
Released   == {q.dst : q \in Releases}
Leaving(x) == \E q \in Pending : q.op = "after" /\ q.dst = x
Dying(c)   == \E q \in Pending : q.op = "after" /\ q.on = c

\* The operation of the program is the outermost call; a pointer is being released
\* once and an object deleted once.
Nested ==
  /\ calls \in Seq(Call) /\ IsInjective(calls)
  /\ \A i \in DOMAIN calls : calls[i].op \in Adopts => i = Len(calls)
  /\ \A q, r \in Releases : q.dst = r.dst => q = r
  /\ \A q, r \in Releases : q.op = "after" /\ r.op = "after" /\ q.on = r.on => q = r

\* What is released is a field of an object that is being deleted, unless it is what
\* the program's operation begins with.
ReleaseInv(q) ==
  \/ FieldOf(q.dst, made \ objects)
  \/ /\ q.dst \in Variables \/ ctrl[q.dst] = None
     /\ \A r \in Pending : r = q \/ r.op \in Adopts

\* An assignment finds its target released, and in an object that exists.
AdoptInv(q) ==
  /\ ctrl[q.dst] = None \/ q.dst \in Released
  /\ \/ q.dst \in Variables
     \/ /\ q.dst \in SharedCells /\ FieldOf(q.dst, objects) /\ ctrl[q.dst] = None
        /\ \A r \in Pending : r = q \/ r = Release(q.dst)
  /\ q.op = "new" => q.dst \in SharedCells
  /\ q.op # "new" => /\ q.src \in Cells /\ q.src # q.dst
                     /\ q.src \in SharedCells <=> q.dst \in SharedCells

CallInv(q) ==
  /\ q.op = "release" => ReleaseInv(q)
  /\ q.op = "after" => /\ q.dst \in SharedCells /\ q.on \in made \ objects
                       /\ ctrl[q.dst] = q.on
                       /\ q.dst \in Variables \/ FieldOf(q.dst, made \ objects)
  /\ q.op # "after" => q.on = None
  /\ q.op \in Adopts => AdoptInv(q)

\* Fields of what does not exist are empty, or about to be.
CellsInv ==
  /\ \A x \in Cells : ctrl[x] \in made \cup {None}
  /\ \A c \in Blocks : ctrl[<<c, "weak">>] = None
  /\ \A c \in Blocks \ objects : \A x \in Fields(c) : ctrl[x] = None \/ x \in Released

Owners(c)   == {x \in SharedCells : ctrl[x] = c /\ ~Leaving(x)}
Watchers(c) == {x \in WeakCells : ctrl[x] = c}

Counted  == \A c \in Blocks : /\ shared[c] = Cardinality(Owners(c))
                              /\ weak[c] = Cardinality(Watchers(c))
Existing == objects = {c \in made : shared[c] # 0}
Freed    == deleted = {c \in made : shared[c] = 0 /\ weak[c] = 0 /\ ~Dying(c)}

IInv == /\ TypeOK /\ Nested /\ (\A q \in Pending : CallInv(q)) /\ CellsInv
        /\ Counted /\ Existing /\ Freed

-----------------------------------------------------------------------------
\* Cells

LEMMA CellKinds ==
  /\ SharedCells \cap WeakCells = {} /\ Cells = SharedCells \cup WeakCells
  /\ \A c \in Blocks : /\ <<c, "strong">> \in SharedCells /\ <<c, "weak">> \in WeakCells
                       /\ Fields(c) = {<<c, "strong">>, <<c, "weak">>}
                       /\ Fields(c) \subseteq Cells /\ Fields(c) \cap Variables = {}
  /\ \A c, d \in Blocks : c # d => Fields(c) \cap Fields(d) = {}
  /\ Variables \subseteq Cells
  /\ \A x \in Cells : x \in Variables \/ FieldOf(x, Blocks)
  /\ \A x \in WeakCells : x \in WeakVars \/ \E c \in Blocks : x = <<c, "weak">>
BY NamesAssumption DEF SharedCells, WeakCells, Cells, Fields, Variables, FieldOf

LEMMA FieldCells ==
  ASSUME NEW c \in Blocks
  PROVE  /\ <<c, "weak">> \in Fields(c) /\ <<c, "weak">> \in WeakCells
         /\ <<c, "weak">> \in Cells /\ <<c, "weak">> \notin SharedCells
         /\ \A x \in Fields(c) : x \in Cells /\ x \notin Variables
<1>1. /\ <<c, "weak">> \in WeakCells /\ Fields(c) = {<<c, "strong">>, <<c, "weak">>}
      /\ Fields(c) \subseteq Cells /\ Fields(c) \cap Variables = {}
  BY CellKinds
<1>2. <<c, "weak">> \in Cells /\ <<c, "weak">> \notin SharedCells
  BY <1>1, CellKinds
<1> QED BY ONLY <1>1, <1>2

LEMMA CellsAreFinite == IsFiniteSet(SharedCells) /\ IsFiniteSet(WeakCells)
<1>1. IsFiniteSet(Blocks \X {"strong"}) /\ IsFiniteSet(Blocks \X {"weak"})
  BY FiniteAssumption, FS_Product, FS_Singleton
<1> QED BY <1>1, FiniteAssumption, FS_Union DEF SharedCells, WeakCells

\* A field belongs to one object.
LEMMA OneObject ==
  ASSUME NEW S, NEW T, S \subseteq Blocks, T \subseteq Blocks, S \cap T = {},
         NEW x, FieldOf(x, S)
  PROVE  ~FieldOf(x, T) /\ x \notin Variables /\ x \in Cells
<1>1. PICK c \in S : x \in Fields(c)
  BY DEF FieldOf
<1>2. x \notin Variables /\ x \in Cells
  BY <1>1, CellKinds
<1>3. ASSUME NEW d \in T PROVE x \notin Fields(d)
  <2>1. c # d /\ c \in Blocks /\ d \in Blocks
    OBVIOUS
  <2> QED BY <1>1, <2>1, CellKinds
<1> QED BY <1>2, <1>3 DEF FieldOf

-----------------------------------------------------------------------------
\* Counting

In(x, S) == IF x \in S THEN 1 ELSE 0

LEMMA SetMoved ==
  ASSUME NEW F, NEW G, NEW x, IsFiniteSet(F), IsFiniteSet(G), F \ {x} = G \ {x}
  PROVE  /\ Cardinality(F) \in Nat /\ Cardinality(G) \in Nat
         /\ Cardinality(G) + In(x, F) = Cardinality(F) + In(x, G)
<1>1. Cardinality(F) \in Nat /\ Cardinality(G) \in Nat
  BY FS_CardinalityType
<1>2. /\ Cardinality(F \ {x}) = IF x \in F THEN Cardinality(F) - 1 ELSE Cardinality(F)
      /\ Cardinality(G \ {x}) = IF x \in G THEN Cardinality(G) - 1 ELSE Cardinality(G)
  BY FS_RemoveElement
<1> QED BY <1>1, <1>2 DEF In

LEMMA CountsAreFinite ==
  ASSUME NEW c
  PROVE  /\ IsFiniteSet(Owners(c)) /\ IsFiniteSet(Watchers(c))
         /\ IsFiniteSet(Owners(c)') /\ IsFiniteSet(Watchers(c)')
<1>1. /\ Owners(c) \subseteq SharedCells /\ Watchers(c) \subseteq WeakCells
      /\ Owners(c)' \subseteq SharedCells /\ Watchers(c)' \subseteq WeakCells
  BY DEF Owners, Watchers, SharedCells, WeakCells
<1> QED BY <1>1, CellsAreFinite, FS_Subset

\* One cell has changed.
LEMMA OwnersMoved ==
  ASSUME NEW c, NEW x, Owners(c)' \ {x} = Owners(c) \ {x}
  PROVE  /\ Cardinality(Owners(c)) \in Nat /\ Cardinality(Owners(c))' \in Nat
         /\ Cardinality(Owners(c))' + In(x, Owners(c))
              = Cardinality(Owners(c)) + In(x, Owners(c)')
<1> DEFINE F == Owners(c)
           G == Owners(c)'
<1>1. IsFiniteSet(F) /\ IsFiniteSet(G) /\ F \ {x} = G \ {x}
  BY CountsAreFinite
<1> HIDE DEF F, G
<1>2. /\ Cardinality(F) \in Nat /\ Cardinality(G) \in Nat
      /\ Cardinality(G) + In(x, F) = Cardinality(F) + In(x, G)
  BY <1>1, SetMoved
<1> QED BY <1>2 DEF F, G

LEMMA WatchersMoved ==
  ASSUME NEW c, NEW x, Watchers(c)' \ {x} = Watchers(c) \ {x}
  PROVE  /\ Cardinality(Watchers(c)) \in Nat /\ Cardinality(Watchers(c))' \in Nat
         /\ Cardinality(Watchers(c))' + In(x, Watchers(c))
              = Cardinality(Watchers(c)) + In(x, Watchers(c)')
<1> DEFINE F == Watchers(c)
           G == Watchers(c)'
<1>1. IsFiniteSet(F) /\ IsFiniteSet(G) /\ F \ {x} = G \ {x}
  BY CountsAreFinite
<1> HIDE DEF F, G
<1>2. /\ Cardinality(F) \in Nat /\ Cardinality(G) \in Nat
      /\ Cardinality(G) + In(x, F) = Cardinality(F) + In(x, G)
  BY <1>1, SetMoved
<1> QED BY <1>2 DEF F, G

-----------------------------------------------------------------------------
\* The stack of calls

LEMMA NoCalls ==
  ASSUME calls = <<>>
  PROVE  Pending = {} /\ Releases = {} /\ Released = {}
BY EmptyHoldsNothing DEF Pending, Releases, Released

\* The innermost call is over.
LEMMA CallEnds ==
  ASSUME Nested, calls # <<>>, calls' = Rest
  PROVE  /\ Nested' /\ Pending' = Pending \ {Top} /\ Releases' = Releases \ {Top}
         /\ Top \in Pending /\ Top \in Call
         /\ Top.op \in Adopts => Pending = {Top}
<1>1. calls \in Seq(Call) /\ IsInjective(calls) /\ Len(calls) \in Nat
      /\ DOMAIN calls = 1 .. Len(calls) /\ Len(calls) >= 1
  BY LenProperties, EmptySeq DEF Nested
<1>2. /\ Top \in Call /\ Top \in Pending /\ calls' \in Seq(Call)
      /\ Pending' = Pending \ {Top} /\ IsInjective(calls')
  BY <1>1, PopHolds DEF Top, Rest, Pending
<1>3. Releases' = Releases \ {Top}
  BY <1>2 DEF Releases
<1>4. Len(calls') = Len(calls) - 1 /\ \A i \in DOMAIN calls' : calls'[i] = calls[i + 1]
  BY <1>1, HeadTailProperties DEF Rest
<1>5. ASSUME NEW i \in DOMAIN calls', calls'[i].op \in Adopts PROVE i = Len(calls')
  <2>1. DOMAIN calls' = 1 .. Len(calls) - 1
    BY <1>2, <1>4, LenProperties
  <2>2. i + 1 \in DOMAIN calls /\ calls[i + 1].op \in Adopts
    BY <1>1, <1>4, <1>5, <2>1
  <2>3. i + 1 = Len(calls)
    BY <2>2 DEF Nested
  <2> QED BY <1>1, <1>4, <2>1, <2>3
<1>6. ASSUME Top.op \in Adopts PROVE Pending = {Top}
  <2>1. Top = calls[1] /\ 1 \in DOMAIN calls
    BY <1>1 DEF Top
  <2>2. Len(calls) = 1
    BY <1>6, <2>1 DEF Nested
  <2>3. DOMAIN calls = {1}
    BY <1>1, <2>2
  <2> QED BY <2>1, <2>3 DEF Pending, Range
<1>7. Nested'
  BY <1>2, <1>3, <1>5 DEF Nested, Adopts
<1> QED BY <1>2, <1>3, <1>6, <1>7

\* An operation begins with a release.
LEMMA OperationStarts ==
  ASSUME NEW p \in Call, NEW q \in Call, p.op = "release", q.op \in Adopts,
         calls' = <<p, q>>
  PROVE  Nested' /\ Pending' = {p, q} /\ Releases' = {p} /\ Released' = {p.dst}
<1>1. /\ calls' \in Seq(Call) /\ Len(calls') = 2 /\ DOMAIN calls' = {1, 2}
      /\ calls'[1] = p /\ calls'[2] = q /\ p # q
  BY DEF Adopts
<1>2. Pending' = {p, q} /\ IsInjective(calls')
  BY <1>1 DEF Pending, Range, IsInjective
<1>3. Releases' = {p} /\ Released' = {p.dst}
  BY <1>2 DEF Releases, Released, Adopts
<1>4. \A i \in DOMAIN calls' : calls'[i].op \in Adopts => i = Len(calls')
  BY <1>1 DEF Adopts
<1> QED BY <1>1, <1>2, <1>3, <1>4 DEF Nested, Adopts

LEMMA ReleaseStarts ==
  ASSUME NEW p \in Call, p.op = "release", calls' = <<p>>
  PROVE  Nested' /\ Pending' = {p} /\ Releases' = {p} /\ Released' = {p.dst}
<1>1. calls' \in Seq(Call) /\ Pending' = {p} /\ IsInjective(calls')
  BY OneHoldsOne DEF Pending
<1>2. Releases' = {p} /\ Released' = {p.dst}
  BY <1>1 DEF Releases, Released
<1>3. \A i \in DOMAIN calls' : calls'[i].op \in Adopts => i = Len(calls')
  BY DEF Adopts
<1> QED BY <1>1, <1>2, <1>3 DEF Nested, Adopts

\* q is s with three elements before it.
Before(a, b, e, s, q) == q = <<a, b, e>> \o s

LEMMA ThreeMore ==
  ASSUME NEW S, NEW s \in Seq(S), NEW a \in S, NEW b \in S, NEW e \in S, NEW q,
         Before(a, b, e, s, q)
  PROVE  /\ q \in Seq(S) /\ Len(q) = Len(s) + 3 /\ DOMAIN q = 1 .. Len(s) + 3
         /\ Len(s) \in Nat /\ DOMAIN s = 1 .. Len(s)
         /\ q[1] = a /\ q[2] = b /\ q[3] = e
         /\ \A i \in 4 .. Len(s) + 3 : q[i] = s[i - 3]
<1> DEFINE h == <<a, b, e>>
<1>1. h \in Seq(S) /\ Len(h) = 3 /\ h[1] = a /\ h[2] = b /\ h[3] = e
  OBVIOUS
<1> HIDE DEF h
<1>2. Len(s) \in Nat /\ DOMAIN s = 1 .. Len(s)
  BY LenProperties
<1>3. /\ q \in Seq(S) /\ Len(q) = 3 + Len(s) /\ DOMAIN q = 1 .. 3 + Len(s)
      /\ \A i \in 1 .. 3 + Len(s) : q[i] = IF i <= 3 THEN h[i] ELSE s[i - 3]
  <2>1. q = h \o s
    BY DEF h, Before
  <2>2. /\ h \o s \in Seq(S) /\ Len(h \o s) = Len(h) + Len(s)
        /\ \A i \in 1 .. Len(h) + Len(s) :
             (h \o s)[i] = IF i <= Len(h) THEN h[i] ELSE s[i - Len(h)]
    <3>1. h \in Seq(S) /\ s \in Seq(S)
      BY <1>1
    <3> QED BY ONLY <3>1, ConcatProperties
  <2>4. DOMAIN q = 1 .. 3 + Len(s)
    BY <1>1, <2>1, <2>2, LenProperties
  <2> QED BY ONLY <1>1, <2>1, <2>2, <2>4
<1>4. 3 + Len(s) = Len(s) + 3
  BY <1>2
<1>5. q[1] = a /\ q[2] = b /\ q[3] = e
  <2>1. {1, 2, 3} \subseteq 1 .. 3 + Len(s)
    BY <1>2
  <2> QED BY <1>1, <1>3, <2>1
<1>6. \A i \in 4 .. Len(s) + 3 : q[i] = s[i - 3]
  BY <1>2, <1>3
<1> QED BY <1>2, <1>3, <1>4, <1>5, <1>6

LEMMA ThreeMoreHold ==
  ASSUME NEW S, NEW s \in Seq(S), IsInjective(s), NEW a \in S, NEW b \in S, NEW e \in S,
         a # b, a # e, b # e, a \notin Range(s), b \notin Range(s), e \notin Range(s),
         NEW q, Before(a, b, e, s, q)
  PROVE  Range(q) = Range(s) \cup {a, b, e} /\ IsInjective(q)
<1> DEFINE n == Len(s)
<1>1. /\ n \in Nat /\ DOMAIN s = 1 .. n /\ DOMAIN q = 1 .. n + 3
      /\ q[1] = a /\ q[2] = b /\ q[3] = e
      /\ \A i \in 4 .. n + 3 : q[i] = s[i - 3]
  <2>1. s \in Seq(S) /\ a \in S /\ b \in S /\ e \in S /\ Before(a, b, e, s, q)
    OBVIOUS
  <2> QED BY ONLY <2>1, ThreeMore
<1> HIDE DEF n
<1>2. \A i \in 4 .. n + 3 : i - 3 \in DOMAIN s /\ q[i] = s[i - 3] /\ q[i] \in Range(s)
  <2> SUFFICES ASSUME NEW i \in 4 .. n + 3
               PROVE  i - 3 \in DOMAIN s /\ q[i] = s[i - 3] /\ q[i] \in Range(s)
    OBVIOUS
  <2>1. i - 3 \in DOMAIN s /\ q[i] = s[i - 3]
    BY <1>1
  <2> QED BY <2>1 DEF Range
<1>3. \A i \in DOMAIN q : i \in {1, 2, 3} \/ i \in 4 .. n + 3
  BY <1>1
<1>4. ASSUME NEW v \in Range(q) PROVE v \in Range(s) \cup {a, b, e}
  <2>1. PICK i \in DOMAIN q : q[i] = v
    BY DEF Range
  <2>2. CASE i \in {1, 2, 3}
    BY <1>1, <2>1, <2>2
  <2>3. CASE i \in 4 .. n + 3
    BY <1>2, <2>1, <2>3
  <2> QED BY <1>3, <2>2, <2>3
<1>5. ASSUME NEW v \in Range(s) PROVE v \in Range(q)
  <2>1. PICK i \in DOMAIN s : s[i] = v
    BY DEF Range
  <2>2. i + 3 \in DOMAIN q /\ i + 3 \in 4 .. n + 3 /\ (i + 3) - 3 = i
    BY <1>1
  <2>3. q[i + 3] = v
    BY <1>1, <2>1, <2>2
  <2> QED BY <2>2, <2>3 DEF Range
<1>6. {a, b, e} \subseteq Range(q)
  <2>1. {1, 2, 3} \subseteq DOMAIN q
    BY <1>1
  <2> QED BY <1>1, <2>1 DEF Range
<1>7. ASSUME NEW i \in DOMAIN q, NEW j \in DOMAIN q, q[i] = q[j] PROVE i = j
  <2>1. CASE i \in {1, 2, 3} /\ j \in {1, 2, 3}
    BY <1>1, <1>7, <2>1
  <2>2. CASE i \in {1, 2, 3} /\ j \in 4 .. n + 3
    BY <1>1, <1>2, <1>7, <2>2
  <2>3. CASE i \in 4 .. n + 3 /\ j \in {1, 2, 3}
    BY <1>1, <1>2, <1>7, <2>3
  <2>4. CASE i \in 4 .. n + 3 /\ j \in 4 .. n + 3
    <3>1. s[i - 3] = s[j - 3] /\ i - 3 \in DOMAIN s /\ j - 3 \in DOMAIN s
      BY <1>2, <1>7, <2>4
    <3>2. i - 3 = j - 3
      BY <3>1 DEF IsInjective
    <3> QED BY <2>4, <3>2, <1>1
  <2> QED BY <1>3, <2>1, <2>2, <2>3, <2>4
<1>8. Range(q) = Range(s) \cup {a, b, e}
  BY <1>4, <1>5, <1>6
<1> QED BY <1>7, <1>8 DEF IsInjective

\* A deletion begins: its fields are to be released, and then the rest of the
\* release that started it.
LEMMA DeletionStarts ==
  ASSUME Nested, calls # <<>>, NEW d \in Cells, Top.op = "release", Top.dst = d, NEW c \in Blocks,
         NEW x \in Cells, NEW y \in Cells, x # y, x \notin Released, y \notin Released,
         ~Dying(c), calls' = <<Release(x), Release(y), After(d, c)>> \o Rest
  PROVE  /\ Nested'
         /\ Pending' = (Pending \ {Top}) \cup {Release(x), Release(y), After(d, c)}
         /\ Releases' = (Releases \ {Top}) \cup {Release(x), Release(y), After(d, c)}
         /\ Released' = Released \cup {x, y}
<1> DEFINE a == Release(x)
           b == Release(y)
           e == After(d, c)
<1>1. /\ calls \in Seq(Call) /\ IsInjective(calls) /\ Top \in Pending /\ Top \in Releases
      /\ Rest \in Seq(Call) /\ IsInjective(Rest) /\ Range(Rest) = Pending \ {Top}
  <2>1. calls \in Seq(Call) /\ IsInjective(calls)
    BY DEF Nested
  <2>2. /\ Top \in Pending /\ Rest \in Seq(Call) /\ IsInjective(Rest)
        /\ Range(Rest) = Pending \ {Top}
    BY <2>1, PopHolds DEF Top, Rest, Pending
  <2> QED BY <2>1, <2>2 DEF Releases
<1>2. /\ a \in Call /\ b \in Call /\ e \in Call
      /\ a.op = "release" /\ b.op = "release" /\ e.op = "after"
      /\ a.dst = x /\ b.dst = y /\ e.dst = d /\ e.on = c
      /\ a # b /\ a # e /\ b # e
  BY DEF Release, After, Call
<1>3. d \in Released /\ Top.dst = d /\ Top.op = "release"
  BY <1>1 DEF Released
<1>4. a \notin Pending /\ b \notin Pending /\ e \notin Pending
  BY <1>2 DEF Released, Releases, Dying
<1> HIDE DEF a, b, e
<1>5. Before(a, b, e, Rest, calls')
  BY DEF a, b, e, Before
<1>6. Pending' = (Pending \ {Top}) \cup {a, b, e} /\ IsInjective(calls')
  <2>1. a \notin Range(Rest) /\ b \notin Range(Rest) /\ e \notin Range(Rest)
    BY <1>1, <1>4
  <2>2. Range(calls') = Range(Rest) \cup {a, b, e} /\ IsInjective(calls')
    <3>1. /\ Rest \in Seq(Call) /\ IsInjective(Rest) /\ a \in Call /\ b \in Call /\ e \in Call
          /\ a # b /\ a # e /\ b # e
      BY <1>1, <1>2
    <3> HIDE DEF Rest, Call
    <3> QED BY ONLY <3>1, <1>5, <2>1, ThreeMoreHold
  <2> QED BY <1>1, <2>2 DEF Pending
<1>7. Releases' = (Releases \ {Top}) \cup {a, b, e}
  BY <1>2, <1>6 DEF Releases
<1>8. Released' = Released \cup {x, y}
  BY <1>1, <1>2, <1>3, <1>7 DEF Released
<1>9. /\ calls' \in Seq(Call)
      /\ \A i \in DOMAIN calls' : calls'[i].op \in Adopts => i = Len(calls')
  <2> DEFINE n == Len(Rest)
  <2>1. /\ calls' \in Seq(Call) /\ Len(calls') = n + 3 /\ DOMAIN calls' = 1 .. n + 3
        /\ n \in Nat /\ calls'[1] = a /\ calls'[2] = b /\ calls'[3] = e
        /\ \A i \in 4 .. n + 3 : calls'[i] = Rest[i - 3]
    <3>1. Rest \in Seq(Call) /\ a \in Call /\ b \in Call /\ e \in Call
      BY <1>1, <1>2
    <3> HIDE DEF Rest, Call
    <3> QED BY ONLY <3>1, <1>5, ThreeMore
  <2>2. n = Len(calls) - 1 /\ DOMAIN calls = 1 .. Len(calls) /\ Len(calls) \in Nat
        /\ \A i \in 1 .. n : Rest[i] = calls[i + 1]
    BY <1>1, HeadTailProperties, LenProperties, EmptySeq DEF Rest
  <2> HIDE DEF n
  <2>3. ASSUME NEW i \in 1 .. n + 3, calls'[i].op \in Adopts PROVE i = n + 3
    <3>1. i \notin {1, 2, 3}
      BY <1>2, <2>1, <2>3 DEF Adopts
    <3>2. i \in 4 .. n + 3
      BY <2>1, <3>1
    <3>3. i - 3 \in 1 .. n /\ (i - 3) + 1 \in DOMAIN calls
      BY <2>1, <2>2, <3>2
    <3>4. calls[(i - 3) + 1].op \in Adopts
      BY <2>1, <2>2, <2>3, <3>2, <3>3
    <3>5. (i - 3) + 1 = Len(calls)
      BY <3>3, <3>4 DEF Nested
    <3> QED BY <2>1, <2>2, <3>2, <3>5
  <2> QED BY <2>1, <2>3
<1>10. \A q, r \in Releases' : q.dst = r.dst => q = r
  <2>1. \A q \in Releases \ {Top} : q.dst # x /\ q.dst # y /\ q.dst # d
    BY <1>1, <1>3 DEF Released, Nested
  <2>2. x # d /\ y # d
    BY <1>3
  <2>3. \A q, r \in Releases \ {Top} : q.dst = r.dst => q = r
    BY DEF Nested
  <2> QED BY <1>2, <1>7, <2>1, <2>2, <2>3
<1>11. \A q, r \in Releases' : q.op = "after" /\ r.op = "after" /\ q.on = r.on => q = r
  <2>1. \A q \in Releases : q.op = "after" => q.on # c
    BY DEF Dying, Releases
  <2>2. \A q, r \in Releases : q.op = "after" /\ r.op = "after" /\ q.on = r.on => q = r
    BY DEF Nested
  <2> QED BY <1>2, <1>7, <2>1, <2>2
<1>12. Nested'
  BY <1>6, <1>9, <1>10, <1>11 DEF Nested, Adopts
<1> QED BY <1>6, <1>7, <1>8, <1>12 DEF a, b, e

-----------------------------------------------------------------------------
\* Operations begin

LEMMA InitIInv == Init => IInv
<1> SUFFICES ASSUME Init PROVE IInv
  OBVIOUS
<1>1. Pending = {} /\ Releases = {} /\ Released = {}
  BY NoCalls DEF Init
<1>2. TypeOK
  BY DEF Init, TypeOK
<1>3. Nested
  BY <1>1, EmptyHoldsNothing DEF Init, Nested
<1>4. CellsInv
  BY CellKinds DEF Init, CellsInv
<1>5. Counted
  <2>1. \A c \in Blocks : Owners(c) = {} /\ Watchers(c) = {}
    BY NamesAssumption DEF Init, Owners, Watchers, Cells
  <2> QED BY <2>1, FS_EmptySet DEF Init, Counted
<1>6. Existing /\ Freed
  BY DEF Init, Existing, Freed
<1> QED BY <1>1, <1>2, <1>3, <1>4, <1>5, <1>6 DEF IInv

\* What the program may write is a variable or a field that is empty.
LEMMA Writable ==
  ASSUME Orderly, TypeOK, NEW x \in Cells, MayWrite(x)
  PROVE  \/ x \in Variables
         \/ x \in SharedCells /\ FieldOf(x, objects) /\ ctrl[x] = None
<1>1. "weakInside" \notin Habits /\ "resetInside" \notin Habits
  BY DEF Orderly
<1>2. CASE x \in Variables
  BY <1>2
<1>3. CASE x \notin Variables
  <2>1. InObject(x)
    BY <1>3 DEF InObject, Variables
  <2>2. x \notin WeakCells /\ ctrl[x] = None
    BY <1>1, <2>1 DEF MayWrite
  <2>3. FieldOf(x, objects)
    BY <1>3 DEF MayWrite, Reachable, FieldOf, Variables
  <2> QED BY <2>2, <2>3 DEF Cells
<1> QED BY <1>2, <1>3

LEMMA StartIInv ==
  ASSUME IInv, calls = <<>>, UNCHANGED <<ctrl, shared, weak, made, objects, deleted>>,
         Nested', \A q \in Pending' : q.op # "after" /\ CallInv(q)'
  PROVE  IInv'
<1>1. Pending = {} /\ Released = {}
  BY NoCalls
<1>2. TypeOK'
  <2>1. \A i \in DOMAIN calls' : calls'[i] \in Call
    BY DEF Nested
  <2> QED BY <2>1 DEF IInv, TypeOK
<1>3. CellsInv'
  BY <1>1 DEF IInv, CellsInv
<1>4. /\ \A x : ~Leaving(x) /\ ~Leaving(x)'
      /\ \A c : ~Dying(c) /\ ~Dying(c)'
  BY <1>1 DEF Leaving, Dying
<1>5. Counted'
  <2>1. \A c : Owners(c)' = Owners(c) /\ Watchers(c)' = Watchers(c)
    BY <1>4 DEF Owners, Watchers
  <2> QED BY <2>1 DEF IInv, Counted
<1>6. Existing' /\ Freed'
  BY <1>4 DEF IInv, Existing, Freed
<1>7. \A q \in Pending' : CallInv(q)'
  OBVIOUS
<1> QED BY <1>2, <1>3, <1>5, <1>6, <1>7 DEF IInv

LEMMA AdoptionStarts ==
  ASSUME Orderly, IInv, NEW x \in Cells, MayWrite(x), NEW o \in Adopts,
         NEW y \in Cells \cup {None},
         o = "new" => x \in SharedCells,
         o # "new" => y \in Cells /\ y # x /\ (y \in SharedCells <=> x \in SharedCells),
         Starts(Adopt(o, x, y))
  PROVE  IInv'
<1> DEFINE p == Release(x)
           q == Adopt(o, x, y)
<1>1. /\ p \in Call /\ p.op = "release" /\ p.dst = x /\ p.on = None
      /\ q \in Call /\ q.op = o /\ q.dst = x /\ q.src = y /\ q.on = None
      /\ q.op \in Adopts /\ q # p
  BY DEF Release, Adopt, Call, Adopts
<1>2. /\ calls = <<>> /\ calls' = <<p, q>>
      /\ UNCHANGED <<ctrl, shared, weak, made, objects, deleted>>
  BY <1>1 DEF Starts
<1>3. p = Release(x)
  OBVIOUS
<1> HIDE DEF p, q
<1>4. Nested' /\ Pending' = {p, q} /\ Released' = {x}
  BY <1>1, <1>2, OperationStarts
<1>5. \/ x \in Variables
      \/ x \in SharedCells /\ FieldOf(x, objects) /\ ctrl[x] = None
  BY Writable DEF IInv
<1>6. ReleaseInv(p)'
  BY <1>1, <1>2, <1>4, <1>5 DEF ReleaseInv
<1>7. AdoptInv(q)'
  <2>1. (ctrl[q.dst] = None \/ q.dst \in Released)'
    BY <1>1, <1>4
  <2>2. (\/ q.dst \in Variables
         \/ /\ q.dst \in SharedCells /\ FieldOf(q.dst, objects) /\ ctrl[q.dst] = None
            /\ \A r \in Pending : r = q \/ r = Release(q.dst))'
    BY <1>1, <1>2, <1>3, <1>4, <1>5
  <2> QED BY <1>1, <2>1, <2>2 DEF AdoptInv
<1>8. \A r \in Pending' : r.op # "after" /\ CallInv(r)'
  <2>1. CallInv(p)'
    BY <1>1, <1>6 DEF CallInv, Adopts
  <2>2. CallInv(q)'
    BY <1>1, <1>7 DEF CallInv, Adopts
  <2>3. p.op # "after" /\ q.op # "after"
    BY <1>1 DEF Adopts
  <2> QED BY <1>4, <2>1, <2>2, <2>3
<1> QED BY <1>2, <1>4, <1>8, StartIInv

LEMMA AssignIInv ==
  ASSUME Orderly, IInv, NEW x \in Cells, NEW y \in Cells, NEW o \in {"copy", "move"},
         Assign(o, x, y)
  PROVE  IInv'
BY AdoptionStarts DEF Assign, MayAssign, Adopts

LEMMA ResetToIInv ==
  ASSUME Orderly, IInv, NEW x \in Cells, ResetTo(x)
  PROVE  IInv'
BY AdoptionStarts DEF ResetTo, Adopts

LEMMA ResetIInv ==
  ASSUME Orderly, IInv, NEW x \in Cells, Reset(x)
  PROVE  IInv'
<1> DEFINE p == Release(x)
<1>1. /\ p \in Call /\ p.op = "release" /\ p.dst = x /\ p.on = None
  BY DEF Release, Call
<1>2. /\ calls = <<>> /\ calls' = <<p>> /\ MayWrite(x) /\ ctrl[x] # None
      /\ UNCHANGED <<ctrl, shared, weak, made, objects, deleted>>
  BY DEF Reset
<1> HIDE DEF p
<1>3. Nested' /\ Pending' = {p}
  BY <1>1, <1>2, ReleaseStarts
<1>4. x \in Variables
  BY <1>2, Writable DEF IInv
<1>5. ReleaseInv(p)'
  BY <1>1, <1>3, <1>4 DEF ReleaseInv
<1>6. \A r \in Pending' : r.op # "after" /\ CallInv(r)'
  BY <1>1, <1>3, <1>5 DEF CallInv, Adopts
<1> QED BY <1>2, <1>3, <1>6, StartIInv

-----------------------------------------------------------------------------
\* Pointers made from others

\* Between operations nothing is being released.
LEMMA AtRest ==
  ASSUME IInv, calls = <<>>, calls' = <<>>
  PROVE  /\ Nested' /\ Pending = {} /\ Pending' = {} /\ Released = {} /\ Released' = {}
         /\ \A x : ~Leaving(x) /\ ~Leaving(x)'
         /\ \A c : ~Dying(c) /\ ~Dying(c)'
<1>1. Pending = {} /\ Released = {} /\ Pending' = {} /\ Released' = {} /\ Releases' = {}
  BY NoCalls, EmptyHoldsNothing DEF Pending, Releases, Released
<1>2. Nested'
  BY <1>1, EmptyHoldsNothing DEF Nested
<1> QED BY <1>1, <1>2 DEF Leaving, Dying

\* What a pointer outside of calls refers to has been made and is counted.
LEMMA OwnedIsCounted ==
  ASSUME IInv, NEW x \in SharedCells, ctrl[x] # None, ~Leaving(x)
  PROVE  /\ ctrl[x] \in made /\ ctrl[x] \in Blocks /\ x \in Owners(ctrl[x])
         /\ shared[ctrl[x]] \in Nat /\ shared[ctrl[x]] >= 1 /\ ctrl[x] \in objects
<1>1. ctrl[x] \in made /\ ctrl[x] \in Blocks
  BY CellKinds DEF IInv, CellsInv, TypeOK
<1>2. PICK c \in Blocks : c = ctrl[x]
  BY <1>1
<1>3. x \in Owners(c)
  BY <1>2 DEF Owners
<1>4. Cardinality(Owners(c)) \in Nat /\ Cardinality(Owners(c)) # 0
  BY <1>3, CountsAreFinite, FS_CardinalityType, FS_EmptySet
<1>5. shared[c] = Cardinality(Owners(c))
  BY DEF IInv, Counted
<1>6. c \in objects
  BY <1>1, <1>2, <1>4, <1>5 DEF IInv, Existing
<1> QED BY <1>1, <1>2, <1>3, <1>4, <1>5, <1>6

LEMMA WatchedIsCounted ==
  ASSUME IInv, NEW x \in WeakCells, ctrl[x] # None
  PROVE  /\ ctrl[x] \in made /\ ctrl[x] \in Blocks /\ x \in Watchers(ctrl[x])
         /\ weak[ctrl[x]] \in Nat /\ weak[ctrl[x]] >= 1 /\ x \in WeakVars
<1>1. ctrl[x] \in made /\ ctrl[x] \in Blocks /\ x \in WeakVars
  BY CellKinds DEF IInv, CellsInv, TypeOK
<1>2. PICK c \in Blocks : c = ctrl[x]
  BY <1>1
<1>3. x \in Watchers(c)
  BY <1>2 DEF Watchers
<1>4. Cardinality(Watchers(c)) \in Nat /\ Cardinality(Watchers(c)) # 0
  BY <1>3, CountsAreFinite, FS_CardinalityType, FS_EmptySet
<1>5. weak[c] = Cardinality(Watchers(c))
  BY DEF IInv, Counted
<1> QED BY <1>1, <1>2, <1>3, <1>4, <1>5

\* A weak pointer is one reference more to a block that has owners.
LEMMA ObserveIInv ==
  ASSUME Orderly, IInv, NEW x \in Cells, NEW y \in Cells, Observe(x, y)
  PROVE  IInv'
<1> USE NamesAssumption
<1>1. /\ calls = <<>> /\ calls' = <<>> /\ x \in WeakCells /\ y \in SharedCells
      /\ MayWrite(x) /\ ctrl[x] = None /\ ctrl[y] # None
      /\ ctrl' = [ctrl EXCEPT ![x] = ctrl[y]]
      /\ weak' = [weak EXCEPT ![ctrl[y]] = @ + 1]
      /\ UNCHANGED <<shared, made, objects, deleted>>
  BY DEF Observe
<1>2. /\ Nested' /\ Pending = {} /\ Pending' = {} /\ Released = {} /\ Released' = {}
      /\ \A z : ~Leaving(z) /\ ~Leaving(z)'
      /\ \A c : ~Dying(c) /\ ~Dying(c)'
  BY <1>1, AtRest
<1>3. PICK c \in Blocks : c = ctrl[y] /\ c \in made /\ shared[c] >= 1 /\ shared[c] \in Nat
  BY <1>1, <1>2, OwnedIsCounted
<1>4. x \in WeakVars /\ x \notin SharedCells
  <2>1. x \in Variables
    BY <1>1, CellKinds, Writable DEF IInv
  <2> QED BY <1>1, <2>1, CellKinds DEF Variables, SharedCells
<1>5. /\ ctrl \in [Cells -> Blocks \cup {None}] /\ weak \in [Blocks -> Nat]
      /\ c # None
  BY <1>3 DEF IInv, TypeOK
<1>6. /\ ctrl'[x] = c /\ \A z \in Cells \ {x} : ctrl'[z] = ctrl[z]
      /\ weak'[c] = weak[c] + 1 /\ \A b \in Blocks \ {c} : weak'[b] = weak[b]
      /\ ctrl' \in [Cells -> Blocks \cup {None}] /\ weak' \in [Blocks -> Nat]
  BY <1>1, <1>3, <1>5
<1>7. TypeOK'
  BY <1>1, <1>6 DEF IInv, TypeOK
<1>8. CellsInv'
  <2>1. x \in Variables
    BY <1>4 DEF Variables
  <2>2. \A b \in Blocks : \A z \in Fields(b) : z \in Cells /\ z # x
    BY <2>1, FieldCells
  <2>3. \A b \in Blocks : <<b, "weak">> \in Fields(b)
    BY FieldCells
  <2>4. \A z \in Cells : ctrl'[z] \in made \cup {None}
    BY <1>3, <1>6 DEF IInv, CellsInv
  <2>5. \A b \in Blocks : ctrl'[<<b, "weak">>] = None
    BY <1>6, <2>2, <2>3 DEF IInv, CellsInv
  <2>6. \A b \in Blocks \ objects : \A z \in Fields(b) : ctrl'[z] = None
    BY <1>2, <1>6, <2>2 DEF IInv, CellsInv
  <2> QED BY <1>1, <2>4, <2>5, <2>6 DEF CellsInv
<1>9. Counted'
  <2>1. ASSUME NEW b \in Blocks PROVE Owners(b)' = Owners(b)
    <3>1. \A z \in SharedCells : z \in Cells /\ z # x
      BY <1>4, CellKinds
    <3> QED BY <1>2, <1>6, <3>1 DEF Owners
  <2>2. ASSUME NEW b \in Blocks
        PROVE  /\ Watchers(b)' \ {x} = Watchers(b) \ {x} /\ x \notin Watchers(b)
               /\ x \in Watchers(b)' <=> b = c
    <3>1. \A z \in WeakCells : z \in Cells
      BY CellKinds
    <3> QED BY <1>1, <1>6, <3>1 DEF Watchers
  <2>3. ASSUME NEW b \in Blocks PROVE weak'[b] = Cardinality(Watchers(b))'
    <3>1. /\ Cardinality(Watchers(b)) \in Nat /\ Cardinality(Watchers(b))' \in Nat
          /\ Cardinality(Watchers(b))' + In(x, Watchers(b))
               = Cardinality(Watchers(b)) + In(x, Watchers(b)')
      BY <2>2, WatchersMoved
    <3>2. /\ In(x, Watchers(b)) = 0
          /\ In(x, Watchers(b)') = IF b = c THEN 1 ELSE 0
      BY <2>2 DEF In
    <3>3. weak[b] = Cardinality(Watchers(b))
      BY DEF IInv, Counted
    <3>4. weak'[b] = IF b = c THEN weak[b] + 1 ELSE weak[b]
      BY <1>6
    <3> QED BY <3>1, <3>2, <3>3, <3>4
  <2> QED BY <1>1, <2>1, <2>3 DEF IInv, Counted
<1>10. Existing'
  BY <1>1 DEF IInv, Existing
<1>11. Freed'
  <2>1. \A b \in made : /\ shared'[b] = 0 <=> shared[b] = 0
                        /\ b # c => weak'[b] = weak[b]
    BY <1>1, <1>6 DEF IInv, TypeOK
  <2> QED BY <1>1, <1>2, <1>3, <2>1 DEF IInv, Freed
<1> QED BY <1>2, <1>7, <1>8, <1>9, <1>10, <1>11 DEF IInv

\* lock() adds an owner to an object that has one.
LEMMA LockIInv ==
  ASSUME Orderly, IInv, NEW x \in Cells, NEW y \in Cells, Lock(x, y)
  PROVE  IInv'
<1> USE NamesAssumption
<1>1. /\ calls = <<>> /\ calls' = <<>> /\ x \in SharedCells /\ y \in WeakCells
      /\ MayWrite(x) /\ ctrl[x] = None /\ ctrl[y] # None /\ shared[ctrl[y]] # 0
      /\ ctrl' = [ctrl EXCEPT ![x] = ctrl[y]]
      /\ shared' = [shared EXCEPT ![ctrl[y]] = @ + 1]
      /\ UNCHANGED <<weak, made, objects, deleted>>
  BY DEF Lock, NotExpired
<1>2. /\ Nested' /\ Pending = {} /\ Pending' = {} /\ Released = {} /\ Released' = {}
      /\ \A z : ~Leaving(z) /\ ~Leaving(z)'
      /\ \A c : ~Dying(c) /\ ~Dying(c)'
  BY <1>1, AtRest
<1>3. PICK c \in Blocks : c = ctrl[y] /\ c \in made /\ shared[c] # 0
  BY <1>1, WatchedIsCounted
<1>4. /\ x \in Variables \/ FieldOf(x, objects)
      /\ x \notin WeakCells
  BY <1>1, CellKinds, Writable DEF IInv
<1>5. /\ ctrl \in [Cells -> Blocks \cup {None}] /\ shared \in [Blocks -> Nat]
      /\ c # None
  BY <1>3 DEF IInv, TypeOK
<1>6. /\ ctrl'[x] = c /\ \A z \in Cells \ {x} : ctrl'[z] = ctrl[z]
      /\ shared'[c] = shared[c] + 1 /\ \A b \in Blocks \ {c} : shared'[b] = shared[b]
      /\ ctrl' \in [Cells -> Blocks \cup {None}] /\ shared' \in [Blocks -> Nat]
  BY <1>1, <1>3, <1>5
<1>7. TypeOK'
  BY <1>1, <1>6 DEF IInv, TypeOK
<1>8. CellsInv'
  <2>1. \A b \in Blocks \ objects : x \notin Fields(b)
    <3>1. objects \subseteq Blocks
      BY DEF IInv, TypeOK
    <3>2. CASE x \in Variables
      BY <3>2, CellKinds
    <3>3. CASE FieldOf(x, objects)
      <4>1. ~FieldOf(x, Blocks \ objects)
        BY <3>1, <3>3, OneObject
      <4> QED BY <4>1 DEF FieldOf
    <3> QED BY <1>4, <3>2, <3>3
  <2>2. \A b \in Blocks : \A z \in Fields(b) : z \in Cells
    BY CellKinds
  <2>3. \A b \in Blocks : <<b, "weak">> \in Cells /\ <<b, "weak">> # x
    BY <1>4, FieldCells
  <2>4. \A z \in Cells : ctrl'[z] \in made \cup {None}
    BY <1>3, <1>6 DEF IInv, CellsInv
  <2>5. \A b \in Blocks : ctrl'[<<b, "weak">>] = None
    BY <1>6, <2>3 DEF IInv, CellsInv
  <2>6. \A b \in Blocks \ objects : \A z \in Fields(b) : ctrl'[z] = None
    BY <1>2, <1>6, <2>1, <2>2 DEF IInv, CellsInv
  <2> QED BY <1>1, <2>4, <2>5, <2>6 DEF CellsInv
<1>9. Counted'
  <2>1. ASSUME NEW b \in Blocks PROVE Watchers(b)' = Watchers(b)
    <3>1. \A z \in WeakCells : z \in Cells /\ z # x
      BY <1>4, CellKinds
    <3> QED BY <1>6, <3>1 DEF Watchers
  <2>2. ASSUME NEW b \in Blocks
        PROVE  /\ Owners(b)' \ {x} = Owners(b) \ {x} /\ x \notin Owners(b)
               /\ x \in Owners(b)' <=> b = c
    <3>1. \A z \in SharedCells : z \in Cells
      BY CellKinds
    <3> QED BY <1>1, <1>2, <1>6, <3>1 DEF Owners
  <2>3. ASSUME NEW b \in Blocks PROVE shared'[b] = Cardinality(Owners(b))'
    <3>1. /\ Cardinality(Owners(b)) \in Nat /\ Cardinality(Owners(b))' \in Nat
          /\ Cardinality(Owners(b))' + In(x, Owners(b))
               = Cardinality(Owners(b)) + In(x, Owners(b)')
      BY <2>2, OwnersMoved
    <3>2. /\ In(x, Owners(b)) = 0
          /\ In(x, Owners(b)') = IF b = c THEN 1 ELSE 0
      BY <2>2 DEF In
    <3>3. shared[b] = Cardinality(Owners(b))
      BY DEF IInv, Counted
    <3>4. shared'[b] = IF b = c THEN shared[b] + 1 ELSE shared[b]
      BY <1>6
    <3> QED BY <3>1, <3>2, <3>3, <3>4
  <2> QED BY <1>1, <2>1, <2>3 DEF IInv, Counted
<1>10. Existing' /\ Freed'
  <2>1. \A b \in made : shared'[b] = 0 <=> shared[b] = 0
    <3>1. made \subseteq Blocks /\ shared[c] \in Nat
      BY <1>5 DEF IInv, TypeOK
    <3>2. shared'[c] # 0
      BY <1>3, <1>6, <3>1
    <3> QED BY <1>3, <1>6, <3>1, <3>2
  <2> QED BY <1>1, <1>2, <2>1 DEF IInv, Existing, Freed
<1> QED BY <1>2, <1>7, <1>8, <1>9, <1>10 DEF IInv

-----------------------------------------------------------------------------
\* Releases end

\* The innermost release has emptied its pointer; the other calls go on.
LEMMA ReleaseEnds ==
  ASSUME IInv, calls # <<>>, calls' = Rest, Top.op \in {"release", "after"},
         ctrl' = [ctrl EXCEPT ![Top.dst] = None], UNCHANGED <<made, objects>>
  PROVE  /\ Nested' /\ (\A q \in Pending' : CallInv(q)') /\ CellsInv'
         /\ ctrl' \in [Cells -> Blocks \cup {None}] /\ \A i \in DOMAIN calls' : calls'[i] \in Call
         /\ Top \in Pending /\ Top \in Call /\ Top.dst \in Cells /\ CallInv(Top)
         /\ Pending' = Pending \ {Top}
         /\ ctrl'[Top.dst] = None /\ \A z \in Cells \ {Top.dst} : ctrl'[z] = ctrl[z]
         /\ \A q \in Pending' : q.op = "after" => q.dst # Top.dst
<1>1. /\ Nested' /\ Pending' = Pending \ {Top} /\ Releases' = Releases \ {Top}
      /\ Top \in Pending /\ Top \in Call
  BY CallEnds DEF IInv
<1>2. /\ Top.dst \in Cells /\ Top \in Releases /\ Top.dst \in Released /\ CallInv(Top)
      /\ \A q \in Pending : CallInv(q)
      /\ \A q, r \in Releases : q.dst = r.dst => q = r
  BY <1>1 DEF Call, Releases, Released, IInv, Nested
<1>3. ctrl \in [Cells -> Blocks \cup {None}]
  BY DEF IInv, TypeOK
<1> DEFINE x == Top.dst
<1> HIDE DEF x, Top
<1>4. /\ x \in Cells /\ ctrl'[x] = None /\ \A z \in Cells \ {x} : ctrl'[z] = ctrl[z]
      /\ ctrl' \in [Cells -> Blocks \cup {None}]
  BY <1>2, <1>3 DEF x
<1>5. \A q \in Releases' : q.dst # x
  BY <1>1, <1>2 DEF x
<1>6. Released \subseteq Released' \cup {x} /\ Released \subseteq Cells
  <2>1. \A q \in Releases : q \in Releases' \/ q = Top
    BY <1>1
  <2>2. \A q \in Releases : q \in Call
    BY DEF Releases, Pending, Range, IInv, TypeOK
  <2> QED BY <2>1, <2>2 DEF Released, x, Call
<1>7. \A z \in Cells : ctrl[z] = None => ctrl'[z] = None
  BY <1>4
<1>8. \A q \in Pending' : q.op = "after" => q.dst # x
  BY <1>5 DEF Releases
<1>9. \A q \in Pending' : q \in Pending /\ q \in Call /\ q.dst \in Cells
  <2>1. \A q \in Pending : q \in Call
    BY DEF Pending, Range, IInv, TypeOK
  <2>2. \A q \in Call : q.dst \in Cells
    BY DEF Call
  <2> HIDE DEF Pending, Call
  <2> QED BY ONLY <1>1, <2>1, <2>2
<1>10. ASSUME NEW q \in Pending' PROVE CallInv(q)'
  <2>1. CallInv(q) /\ q \in Pending /\ q \in Call /\ q.dst \in Cells
    BY <1>2, <1>9
  <2>2. ASSUME q.op = "release" PROVE ReleaseInv(q)'
    BY <1>7, <1>9, <2>1, <2>2 DEF CallInv, ReleaseInv
  <2>3. ASSUME q.op = "after"
        PROVE  (/\ q.dst \in SharedCells /\ q.on \in made \ objects /\ ctrl[q.dst] = q.on
                /\ q.dst \in Variables \/ FieldOf(q.dst, made \ objects))'
    BY <1>4, <1>8, <2>1, <2>3 DEF CallInv
  <2>4. ASSUME q.op \in Adopts PROVE AdoptInv(q)'
    <3>1. AdoptInv(q)
      BY <2>1, <2>4 DEF CallInv
    <3>2. ctrl'[q.dst] = None \/ q.dst \in Released'
      BY <1>4, <1>6, <1>7, <2>1, <3>1 DEF AdoptInv
    <3>3. ctrl[q.dst] = None => ctrl'[q.dst] = None
      BY <1>7, <2>1
    <3> QED BY <1>9, <3>1, <3>2, <3>3 DEF AdoptInv
  <2> QED BY <2>1, <2>2, <2>3, <2>4 DEF CallInv
<1>11. CellsInv'
  <2>1. \A z \in Cells : ctrl'[z] \in made \cup {None}
    BY <1>4 DEF IInv, CellsInv
  <2>2. \A c \in Blocks : ctrl'[<<c, "weak">>] = None
    BY <1>7, FieldCells DEF IInv, CellsInv
  <2>3. ASSUME NEW c \in Blocks \ objects, NEW z \in Fields(c)
        PROVE  ctrl'[z] = None \/ z \in Released'
    <3>1. z \in Cells
      BY FieldCells
    <3>2. ctrl[z] = None \/ z \in Released
      BY DEF IInv, CellsInv
    <3> QED BY <1>4, <1>6, <1>7, <3>1, <3>2
  <2> QED BY <2>1, <2>2, <2>3 DEF CellsInv
<1>12. \A i \in DOMAIN calls' : calls'[i] \in Call
  BY <1>1 DEF Nested
<1> QED BY <1>1, <1>2, <1>4, <1>8, <1>10, <1>11, <1>12 DEF x

\* A release that is no rest of a deletion changes neither what is leaving nor
\* what is dying.
LEMMA StillLeaving ==
  ASSUME Pending' = Pending \ {Top}, Top.op # "after"
  PROVE  /\ \A z : Leaving(z)' <=> Leaving(z)
         /\ \A c : Dying(c)' <=> Dying(c)
BY DEF Leaving, Dying

LEMMA ReleaseNothingIInv ==
  ASSUME IInv, ReleaseNothing
  PROVE  IInv'
<1>1. /\ calls # <<>> /\ Top.op = "release" /\ ctrl[Top.dst] = None /\ calls' = Rest
      /\ UNCHANGED <<ctrl, shared, weak, made, objects, deleted>>
  BY DEF ReleaseNothing, Runs
<1>2. ctrl' = [ctrl EXCEPT ![Top.dst] = None]
  BY <1>1 DEF IInv, TypeOK
<1>3. /\ Nested' /\ (\A q \in Pending' : CallInv(q)') /\ CellsInv'
      /\ (\A i \in DOMAIN calls' : calls'[i] \in Call) /\ Pending' = Pending \ {Top}
  BY <1>1, <1>2, ReleaseEnds
<1>4. TypeOK'
  BY <1>1, <1>3 DEF IInv, TypeOK
<1>5. /\ \A z : Leaving(z)' <=> Leaving(z)
      /\ \A c : Dying(c)' <=> Dying(c)
  BY <1>1, <1>3, StillLeaving
<1>6. Counted'
  <2>1. \A c : Owners(c)' = Owners(c) /\ Watchers(c)' = Watchers(c)
    BY <1>1, <1>5 DEF Owners, Watchers
  <2> QED BY <1>1, <2>1 DEF IInv, Counted
<1>7. Existing' /\ Freed'
  BY <1>1, <1>5 DEF IInv, Existing, Freed
<1> QED BY <1>3, <1>4, <1>6, <1>7 DEF IInv

\* What is being released is not leaving yet.
LEMMA ReleasedOnceEach ==
  ASSUME IInv, calls # <<>>, Top.op = "release"
  PROVE  ~Leaving(Top.dst)
<1>1. Top \in Pending
  BY PopHolds DEF IInv, Nested, Top, Pending
<1> QED BY <1>1 DEF IInv, Nested, Leaving, Releases

LEMMA ReleaseSharedIInv ==
  ASSUME IInv, ReleaseShared
  PROVE  IInv'
<1> DEFINE x == Top.dst
<1>1. /\ calls # <<>> /\ Top.op = "release" /\ x \in SharedCells /\ ctrl[x] # None
      /\ shared[ctrl[x]] # 1
      /\ shared' = [shared EXCEPT ![ctrl[x]] = @ - 1]
      /\ ctrl' = [ctrl EXCEPT ![x] = None] /\ calls' = Rest
      /\ UNCHANGED <<weak, made, objects, deleted>>
  BY DEF ReleaseShared, Runs
<1>2. /\ Nested' /\ (\A q \in Pending' : CallInv(q)') /\ CellsInv'
      /\ ctrl' \in [Cells -> Blocks \cup {None}] /\ (\A i \in DOMAIN calls' : calls'[i] \in Call)
      /\ Pending' = Pending \ {Top} /\ x \in Cells
      /\ ctrl'[x] = None /\ \A z \in Cells \ {x} : ctrl'[z] = ctrl[z]
  BY <1>1, ReleaseEnds
<1>3. ~Leaving(x)
  BY <1>1, ReleasedOnceEach
<1>4. /\ \A z : Leaving(z)' <=> Leaving(z)
      /\ \A c : Dying(c)' <=> Dying(c)
  BY <1>1, <1>2, StillLeaving
<1> HIDE DEF x
<1>5. PICK c \in Blocks : /\ c = ctrl[x] /\ c \in made /\ x \in Owners(c)
                          /\ shared[c] \in Nat /\ shared[c] >= 2
  <2>1. /\ ctrl[x] \in made /\ ctrl[x] \in Blocks /\ x \in Owners(ctrl[x])
        /\ shared[ctrl[x]] \in Nat /\ shared[ctrl[x]] >= 1
    BY <1>1, <1>3, OwnedIsCounted
  <2> QED BY <1>1, <2>1
<1>6. /\ shared' \in [Blocks -> Nat] /\ shared'[c] = shared[c] - 1
      /\ \A b \in Blocks \ {c} : shared'[b] = shared[b]
  BY <1>1, <1>5 DEF IInv, TypeOK
<1>7. TypeOK'
  BY <1>1, <1>2, <1>6 DEF IInv, TypeOK
<1>8. Counted'
  <2>1. ASSUME NEW b \in Blocks PROVE Watchers(b)' = Watchers(b)
    <3>1. \A z \in WeakCells : z \in Cells /\ z # x
      BY <1>1, CellKinds
    <3> QED BY <1>2, <3>1 DEF Watchers
  <2>2. ASSUME NEW b \in Blocks
        PROVE  /\ Owners(b)' \ {x} = Owners(b) \ {x} /\ x \notin Owners(b)'
               /\ x \in Owners(b) <=> b = c
    <3>1. \A z \in SharedCells : z \in Cells
      BY CellKinds
    <3>2. None \notin Blocks
      BY NamesAssumption
    <3> QED BY <1>2, <1>4, <1>5, <3>1, <3>2 DEF Owners
  <2>3. ASSUME NEW b \in Blocks PROVE shared'[b] = Cardinality(Owners(b))'
    <3>1. /\ Cardinality(Owners(b)) \in Nat /\ Cardinality(Owners(b))' \in Nat
          /\ Cardinality(Owners(b))' + In(x, Owners(b))
               = Cardinality(Owners(b)) + In(x, Owners(b)')
      BY <2>2, OwnersMoved
    <3>2. /\ In(x, Owners(b)') = 0
          /\ In(x, Owners(b)) = IF b = c THEN 1 ELSE 0
      BY <2>2 DEF In
    <3>3. shared[b] = Cardinality(Owners(b))
      BY DEF IInv, Counted
    <3>4. shared'[b] = IF b = c THEN shared[b] - 1 ELSE shared[b]
      BY <1>6
    <3> QED BY <3>1, <3>2, <3>3, <3>4
  <2> QED BY <1>1, <2>1, <2>3 DEF IInv, Counted
<1>9. Existing' /\ Freed'
  <2>1. \A b \in made : shared'[b] = 0 <=> shared[b] = 0
    <3>1. made \subseteq Blocks
      BY DEF IInv, TypeOK
    <3>2. shared'[c] # 0 /\ shared[c] # 0
      BY <1>5, <1>6
    <3> QED BY <1>6, <3>1, <3>2
  <2> QED BY <1>1, <1>4, <2>1 DEF IInv, Existing, Freed
<1> QED BY <1>2, <1>7, <1>8, <1>9 DEF IInv

\* A weak pointer goes: the block goes too if nothing else refers to it.
LEMMA ReleaseWeakIInv ==
  ASSUME IInv, ReleaseWeak
  PROVE  IInv'
<1> DEFINE x == Top.dst
<1>1. /\ calls # <<>> /\ Top.op = "release" /\ x \in WeakCells /\ ctrl[x] # None
      /\ weak' = [weak EXCEPT ![ctrl[x]] = @ - 1]
      /\ deleted' = IF shared[ctrl[x]] = 0 /\ weak[ctrl[x]] = 1
                      THEN deleted \cup {ctrl[x]} ELSE deleted
      /\ ctrl' = [ctrl EXCEPT ![x] = None] /\ calls' = Rest
      /\ UNCHANGED <<shared, made, objects>>
  BY DEF ReleaseWeak, Runs, LastOfAll
<1>2. /\ Nested' /\ (\A q \in Pending' : CallInv(q)') /\ CellsInv'
      /\ ctrl' \in [Cells -> Blocks \cup {None}] /\ (\A i \in DOMAIN calls' : calls'[i] \in Call)
      /\ Pending' = Pending \ {Top} /\ x \in Cells /\ CallInv(Top)
      /\ ctrl'[x] = None /\ \A z \in Cells \ {x} : ctrl'[z] = ctrl[z]
  BY <1>1, ReleaseEnds
<1>3. PICK c \in Blocks : /\ c = ctrl[x] /\ c \in made /\ x \in Watchers(c)
                          /\ weak[c] \in Nat /\ weak[c] >= 1
  BY <1>1, WatchedIsCounted
<1>4. /\ \A z : Leaving(z)' <=> Leaving(z)
      /\ \A b : Dying(b)' <=> Dying(b)
  BY <1>1, <1>2, StillLeaving
\* A weak pointer is no field here, so no deletion waits for its release
<1>5. \A b : ~Dying(b)
  <2>1. x \in WeakVars
    BY <1>1, WatchedIsCounted
  <2>2. \A b \in Blocks : x \notin Fields(b)
    BY <2>1, CellKinds DEF Variables
  <2>3. ~FieldOf(x, made \ objects)
    BY <2>2 DEF FieldOf, IInv, TypeOK
  <2>4. \A r \in Pending : r = Top \/ r.op \in Adopts
    BY <1>1, <1>2, <2>3 DEF CallInv, ReleaseInv
  <2> QED BY <1>1, <2>4 DEF Dying, Adopts
<1> HIDE DEF x
<1>6. /\ weak' \in [Blocks -> Nat] /\ weak'[c] = weak[c] - 1
      /\ \A b \in Blocks \ {c} : weak'[b] = weak[b]
  BY <1>1, <1>3 DEF IInv, TypeOK
<1>7. TypeOK'
  BY <1>1, <1>2, <1>3, <1>6 DEF IInv, TypeOK
<1>8. Counted'
  <2>1. ASSUME NEW b \in Blocks PROVE Owners(b)' = Owners(b)
    <3>1. \A z \in SharedCells : z \in Cells /\ z # x
      BY <1>1, CellKinds
    <3> QED BY <1>2, <1>4, <3>1 DEF Owners
  <2>2. ASSUME NEW b \in Blocks
        PROVE  /\ Watchers(b)' \ {x} = Watchers(b) \ {x} /\ x \notin Watchers(b)'
               /\ x \in Watchers(b) <=> b = c
    <3>1. \A z \in WeakCells : z \in Cells
      BY CellKinds
    <3>2. None \notin Blocks
      BY NamesAssumption
    <3> QED BY <1>1, <1>2, <1>3, <3>1, <3>2 DEF Watchers
  <2>3. ASSUME NEW b \in Blocks PROVE weak'[b] = Cardinality(Watchers(b))'
    <3>1. /\ Cardinality(Watchers(b)) \in Nat /\ Cardinality(Watchers(b))' \in Nat
          /\ Cardinality(Watchers(b))' + In(x, Watchers(b))
               = Cardinality(Watchers(b)) + In(x, Watchers(b)')
      BY <2>2, WatchersMoved
    <3>2. /\ In(x, Watchers(b)') = 0
          /\ In(x, Watchers(b)) = IF b = c THEN 1 ELSE 0
      BY <2>2 DEF In
    <3>3. weak[b] = Cardinality(Watchers(b))
      BY DEF IInv, Counted
    <3>4. weak'[b] = IF b = c THEN weak[b] - 1 ELSE weak[b]
      BY <1>6
    <3> QED BY <3>1, <3>2, <3>3, <3>4
  <2> QED BY <1>1, <2>1, <2>3 DEF IInv, Counted
<1>9. Existing'
  BY <1>1 DEF IInv, Existing
<1>10. Freed'
  <2>1. deleted = {b \in made : shared[b] = 0 /\ weak[b] = 0}
    BY <1>5 DEF IInv, Freed
  <2>2. deleted' = IF shared[c] = 0 /\ weak[c] = 1 THEN deleted \cup {c} ELSE deleted
    BY <1>1, <1>3
  <2>3. \A b \in made : b \in deleted' <=> shared[b] = 0 /\ weak'[b] = 0
    <3>1. made \subseteq Blocks
      BY DEF IInv, TypeOK
    <3>2. CASE shared[c] = 0 /\ weak[c] = 1
      BY <1>3, <1>6, <2>1, <2>2, <3>1, <3>2
    <3>3. CASE ~(shared[c] = 0 /\ weak[c] = 1)
      <4>1. shared[c] = 0 => weak'[c] # 0 /\ weak[c] # 0
        BY <1>3, <1>6, <3>3
      <4> QED BY <1>6, <2>1, <2>2, <3>1, <3>3, <4>1
    <3> QED BY <3>2, <3>3
  <2>4. deleted' \subseteq made
    BY <1>3, <2>1, <2>2
  <2> QED BY <1>1, <1>4, <1>5, <2>3, <2>4 DEF Freed
<1> QED BY <1>2, <1>7, <1>8, <1>9, <1>10 DEF IInv

\* The deletion has ended: the pointer that started it is emptied, and had been
\* taken off the count; the block goes unless it is observed.
LEMMA AfterDeleteIInv ==
  ASSUME IInv, AfterDelete
  PROVE  IInv'
<1>1. /\ calls # <<>> /\ Top.op = "after" /\ calls' = Rest
      /\ deleted' = IF weak[Top.on] = 0 THEN deleted \cup {Top.on} ELSE deleted
      /\ ctrl' = [ctrl EXCEPT ![Top.dst] = None]
      /\ UNCHANGED <<shared, weak, made, objects>>
  BY DEF AfterDelete, Runs, Unobserved
<1>2. /\ Nested' /\ (\A q \in Pending' : CallInv(q)') /\ CellsInv'
      /\ ctrl' \in [Cells -> Blocks \cup {None}] /\ (\A i \in DOMAIN calls' : calls'[i] \in Call)
      /\ Pending' = Pending \ {Top} /\ Top \in Pending /\ Top.dst \in Cells /\ CallInv(Top)
      /\ ctrl'[Top.dst] = None /\ (\A z \in Cells \ {Top.dst} : ctrl'[z] = ctrl[z])
  BY <1>1, ReleaseEnds
<1>3. PICK x \in SharedCells, c \in Blocks :
        /\ x = Top.dst /\ c = Top.on /\ c \in made /\ c \notin objects /\ ctrl[x] = c
        /\ shared[c] = 0 /\ Leaving(x) /\ Dying(c) /\ x \in Cells /\ ctrl'[x] = None
        /\ \A z \in Cells \ {x} : ctrl'[z] = ctrl[z]
        /\ deleted' = IF weak[c] = 0 THEN deleted \cup {c} ELSE deleted
  <2>1. /\ Top.dst \in SharedCells /\ Top.on \in made /\ Top.on \notin objects
        /\ ctrl[Top.dst] = Top.on
    BY <1>1, <1>2 DEF CallInv
  <2>2. Top.on \in Blocks /\ shared[Top.on] = 0
    BY <2>1 DEF IInv, TypeOK, Existing
  <2>3. Leaving(Top.dst) /\ Dying(Top.on)
    BY <1>1, <1>2 DEF Leaving, Dying
  <2> QED BY <1>1, <1>2, <2>1, <2>2, <2>3
<1>4. /\ \A z : z # x => (Leaving(z)' <=> Leaving(z))
      /\ \A b : b # c => (Dying(b)' <=> Dying(b))
      /\ ~Leaving(x)' /\ ~Dying(c)'
  <2>1. \A q \in Pending \ {Top} : q.op = "after" => q.dst # x /\ q.on # c
    BY <1>1, <1>2, <1>3 DEF IInv, Nested, Releases
  <2>2. \A z : z # x => (Leaving(z)' <=> Leaving(z))
    BY <1>2, <1>3 DEF Leaving
  <2>3. \A b : b # c => (Dying(b)' <=> Dying(b))
    BY <1>2, <1>3 DEF Dying
  <2>4. ~Leaving(x)' /\ ~Dying(c)'
    BY <1>2, <2>1 DEF Leaving, Dying
  <2> QED BY <2>2, <2>3, <2>4
<1>5. TypeOK'
  BY <1>1, <1>2, <1>3 DEF IInv, TypeOK
<1>6. Counted'
  <2>1. ASSUME NEW b \in Blocks PROVE Watchers(b)' = Watchers(b)
    <3>1. \A z \in WeakCells : z \in Cells /\ z # x
      BY CellKinds
    <3> QED BY <1>3, <3>1 DEF Watchers
  <2>2. ASSUME NEW b \in Blocks PROVE Owners(b)' = Owners(b)
    <3>1. \A z \in SharedCells : z \in Cells
      BY CellKinds
    <3>2. None \notin Blocks
      BY NamesAssumption
    <3>3. x \notin Owners(b) /\ x \notin Owners(b)'
      BY <1>3, <3>2 DEF Owners
    <3>4. \A z \in SharedCells \ {x} : z \in Owners(b)' <=> z \in Owners(b)
      BY <1>3, <1>4, <3>1 DEF Owners
    <3>5. Owners(b) \subseteq SharedCells /\ Owners(b)' \subseteq SharedCells
      BY DEF Owners, SharedCells
    <3> QED BY <3>3, <3>4, <3>5
  <2> QED BY <1>1, <2>1, <2>2 DEF IInv, Counted
<1>7. Existing'
  BY <1>1 DEF IInv, Existing
<1>8. Freed'
  <2>1. \A b \in made : b \in deleted <=> shared[b] = 0 /\ weak[b] = 0 /\ ~Dying(b)
    BY DEF IInv, Freed
  <2>2. deleted \subseteq made /\ deleted' \subseteq made
    BY <1>1, <1>3 DEF IInv, TypeOK
  <2>3. \A b \in made : b \in deleted' <=> shared[b] = 0 /\ weak[b] = 0 /\ ~Dying(b)'
    <3>1. \A b \in made : b # c => (b \in deleted' <=> b \in deleted)
      BY <1>3
    <3>2. c \in deleted' <=> weak[c] = 0
      BY <1>3, <2>1
    <3>3. ASSUME NEW b \in made
          PROVE  b \in deleted' <=> shared[b] = 0 /\ weak[b] = 0 /\ ~Dying(b)'
      <4>1. CASE b = c
        BY <1>3, <1>4, <3>2, <4>1
      <4>2. CASE b # c
        BY <1>4, <2>1, <3>1, <4>2
      <4> QED BY <4>1, <4>2
    <3> QED BY <3>3
  <2> QED BY <1>1, <2>2, <2>3 DEF Freed
<1> QED BY <1>2, <1>5, <1>6, <1>7, <1>8 DEF IInv

\* The last owner goes: the object with it, and its fields are about to.
LEMMA ReleaseLastIInv ==
  ASSUME IInv, ReleaseLast
  PROVE  IInv'
<1> DEFINE d == Top.dst
<1>1. /\ calls # <<>> /\ Top.op = "release" /\ d \in SharedCells /\ ctrl[d] # None
      /\ shared[ctrl[d]] = 1
      /\ shared' = [shared EXCEPT ![ctrl[d]] = 0] /\ objects' = objects \ {ctrl[d]}
      /\ UNCHANGED <<ctrl, weak, made, deleted>>
  BY DEF ReleaseLast, Runs
<1>2. ~Leaving(d)
  BY <1>1, ReleasedOnceEach
<1>3. PICK c \in Blocks : /\ c = ctrl[d] /\ c \in made /\ d \in Owners(c) /\ c \in objects
  BY <1>1, <1>2, OwnedIsCounted
<1>4. PICK x, y \in Fields(c) :
        x # y /\ calls' = <<Release(x), Release(y), After(d, c)>> \o Rest
  BY <1>3 DEF ReleaseLast
<1>5. /\ x \in Cells /\ y \in Cells /\ Fields(c) = {x, y} /\ x \notin Variables /\ y \notin Variables
      /\ FieldOf(x, objects) /\ FieldOf(y, objects)
  <2>1. Fields(c) = {x, y} /\ x \in Cells /\ y \in Cells /\ x \notin Variables /\ y \notin Variables
    <3>1. x \in Fields(c) /\ y \in Fields(c) /\ x # y
      BY <1>4
    <3>2. Fields(c) = {x, y}
      BY ONLY <3>1 DEF Fields
    <3> QED BY <3>1, <3>2, FieldCells
  <2> QED BY <1>3, <1>4, <2>1 DEF FieldOf
<1>6. /\ Top \in Pending /\ CallInv(Top)
      /\ \A q \in Pending : q \in Call /\ CallInv(q)
  <2>1. Top \in Pending
    BY <1>1, PopHolds DEF IInv, Nested, Top, Pending
  <2>2. \A q \in Pending : q \in Call /\ CallInv(q)
    BY DEF Pending, Range, IInv, TypeOK
  <2> QED BY <2>1, <2>2
\* The object and its fields are left alone by the other calls
<1>7. ~Dying(c)
  BY <1>3, <1>6 DEF Dying, CallInv
<1>8. objects \subseteq made /\ made \subseteq Blocks /\ objects' \subseteq objects
  BY <1>1 DEF IInv, TypeOK
<1>9. ASSUME NEW z \in Cells, z \notin Variables, FieldOf(z, objects) PROVE z \notin Released
  <2> SUFFICES ASSUME NEW q \in Pending, q.op \in {"release", "after"}, q.dst = z PROVE FALSE
    BY DEF Released, Releases
  <2>1. ~FieldOf(z, made \ objects)
    BY <1>8, <1>9, OneObject
  <2>2. CASE q.op = "after"
    BY <1>6, <1>9, <2>1, <2>2 DEF CallInv
  <2>3. CASE q.op = "release"
    <3>1. ctrl[z] = None /\ \A r \in Pending : r = q \/ r.op \in Adopts
      BY <1>6, <1>9, <2>1, <2>3 DEF CallInv, ReleaseInv
    <3>2. Top = q
      BY <1>1, <1>6, <3>1 DEF Adopts
    <3> QED BY <1>1, <3>1, <3>2
  <2> QED BY <2>2, <2>3
<1>10. x \notin Released /\ y \notin Released
  BY <1>5, <1>9
<1>11. /\ Nested'
       /\ Pending' = (Pending \ {Top}) \cup {Release(x), Release(y), After(d, c)}
       /\ Releases' = (Releases \ {Top}) \cup {Release(x), Release(y), After(d, c)}
       /\ Released' = Released \cup {x, y}
  <2>1. d \in Cells /\ Top.op = "release" /\ Top.dst = d /\ Nested
    BY <1>1, CellKinds DEF IInv
  <2> HIDE DEF d, Top, Rest, Nested
  <2> QED BY <1>1, <1>4, <1>5, <1>7, <1>10, <2>1, DeletionStarts
<1>12. /\ Release(x).op = "release" /\ Release(x).dst = x /\ Release(x).on = None
       /\ Release(y).op = "release" /\ Release(y).dst = y /\ Release(y).on = None
       /\ After(d, c).op = "after" /\ After(d, c).dst = d /\ After(d, c).on = c
  BY DEF Release, After
<1>13. /\ \A z : Leaving(z)' <=> Leaving(z) \/ z = d
       /\ \A b : Dying(b)' <=> Dying(b) \/ b = c
  <2>1. \A q : q \in Pending' /\ q.op = "after"
                 <=> (q \in Pending /\ q.op = "after") \/ q = After(d, c)
    BY <1>1, <1>11, <1>12
  <2>2. ASSUME NEW z PROVE Leaving(z)' <=> Leaving(z) \/ z = d
    BY <1>12, <2>1 DEF Leaving
  <2>3. ASSUME NEW b PROVE Dying(b)' <=> Dying(b) \/ b = c
    BY <1>12, <2>1 DEF Dying
  <2> QED BY <2>2, <2>3
<1>14. d \in Variables \/ FieldOf(d, made \ objects)
  BY <1>1, <1>6 DEF CallInv, ReleaseInv
<1> HIDE DEF d
<1>15. /\ c \notin objects' /\ objects' = objects \ {c} /\ made' = made /\ ctrl' = ctrl
       /\ \A S : S \subseteq made \ objects => S \subseteq made' \ objects'
       /\ \A z : FieldOf(z, made \ objects) => FieldOf(z, made' \ objects')
       /\ FieldOf(x, made' \ objects') /\ FieldOf(y, made' \ objects')
  BY <1>1, <1>3, <1>4 DEF FieldOf
<1>16. ASSUME NEW q \in Pending' PROVE CallInv(q)'
  <2>1. CASE q = Release(x) \/ q = Release(y)
    <3>1. q.op = "release" /\ q.on = None /\ q.dst \in {x, y}
      BY <1>12, <2>1
    <3>2. ReleaseInv(q)'
      BY <1>15, <3>1 DEF ReleaseInv
    <3> QED BY <3>1, <3>2 DEF CallInv, Adopts
  <2>2. CASE q = After(d, c)
    <3>1. q.op = "after" /\ q.on = c /\ q.dst = d
      BY <1>12, <2>2
    <3>2. (/\ q.dst \in SharedCells /\ q.on \in made \ objects /\ ctrl[q.dst] = q.on
           /\ q.dst \in Variables \/ FieldOf(q.dst, made \ objects))'
      BY <1>1, <1>3, <1>14, <1>15, <3>1
    <3> QED BY <3>1, <3>2 DEF CallInv, Adopts
  <2>3. CASE q \in Pending \ {Top}
    <3>1. CallInv(q) /\ q \in Pending /\ q # Top
      BY <1>6, <2>3
    <3>2. ASSUME q.op = "release" PROVE ReleaseInv(q)'
      <4>1. FieldOf(q.dst, made \ objects)
        BY <1>1, <1>6, <3>1, <3>2 DEF CallInv, ReleaseInv, Adopts
      <4> QED BY <1>15, <4>1 DEF ReleaseInv
    <3>3. ASSUME q.op = "after"
          PROVE  (/\ q.dst \in SharedCells /\ q.on \in made \ objects /\ ctrl[q.dst] = q.on
                  /\ q.dst \in Variables \/ FieldOf(q.dst, made \ objects))'
      BY <1>15, <3>1, <3>3 DEF CallInv
    <3>4. ASSUME q.op \in Adopts PROVE AdoptInv(q)'
      <4>1. AdoptInv(q)
        BY <3>1, <3>4 DEF CallInv
      <4>2. q.dst \in Variables
        <5>1. ASSUME Top = Release(q.dst), ctrl[q.dst] = None PROVE FALSE
          <6>1. Release(q.dst).dst = q.dst
            BY DEF Release
          <6> QED BY <1>1, <5>1, <6>1 DEF d
        <5> QED BY <1>6, <3>1, <4>1, <5>1 DEF AdoptInv
      <4>3. (ctrl[q.dst] = None \/ q.dst \in Released)'
        BY <1>11, <1>15, <4>1 DEF AdoptInv
      <4> QED BY <4>1, <4>2, <4>3 DEF AdoptInv
    <3> QED BY <3>1, <3>2, <3>3, <3>4 DEF CallInv
  <2> QED BY <1>11, <2>1, <2>2, <2>3
<1>17. TypeOK'
  <2>1. \A i \in DOMAIN calls' : calls'[i] \in Call
    BY <1>11 DEF Nested
  <2>2. shared' \in [Blocks -> Nat]
    BY <1>1, <1>3 DEF IInv, TypeOK
  <2> QED BY <1>1, <1>8, <2>1, <2>2 DEF IInv, TypeOK
<1>18. CellsInv'
  <2>1. ASSUME NEW b \in Blocks \ objects', NEW z \in Fields(b)
        PROVE  ctrl[z] = None \/ z \in Released'
    <3>1. CASE b = c
      BY <1>5, <1>11, <3>1
    <3>2. CASE b # c
      BY <1>11, <1>15, <3>2 DEF IInv, CellsInv
    <3> QED BY <3>1, <3>2
  <2> QED BY <1>15, <2>1 DEF IInv, CellsInv
<1>19. Counted'
  <2>1. ASSUME NEW b \in Blocks PROVE Watchers(b)' = Watchers(b)
    BY <1>15 DEF Watchers
  <2>2. ASSUME NEW b \in Blocks
        PROVE  /\ Owners(b)' \ {d} = Owners(b) \ {d} /\ d \notin Owners(b)'
               /\ d \in Owners(b) <=> b = c
    BY <1>3, <1>13, <1>15 DEF Owners
  <2>3. ASSUME NEW b \in Blocks PROVE shared'[b] = Cardinality(Owners(b))'
    <3>1. /\ Cardinality(Owners(b)) \in Nat /\ Cardinality(Owners(b))' \in Nat
          /\ Cardinality(Owners(b))' + In(d, Owners(b))
               = Cardinality(Owners(b)) + In(d, Owners(b)')
      BY <2>2, OwnersMoved
    <3>2. /\ In(d, Owners(b)') = 0
          /\ In(d, Owners(b)) = IF b = c THEN 1 ELSE 0
      BY <2>2 DEF In
    <3>3. shared[b] = Cardinality(Owners(b))
      BY DEF IInv, Counted
    <3>4. shared'[b] = IF b = c THEN shared[b] - 1 ELSE shared[b]
      BY <1>1, <1>3 DEF IInv, TypeOK
    <3> QED BY <3>1, <3>2, <3>3, <3>4
  <2> QED BY <1>1, <2>1, <2>3 DEF IInv, Counted
<1>20. Existing' /\ Freed'
  <2>1. /\ shared'[c] = 0 /\ shared[c] = 1
        /\ \A b \in made : b # c => shared'[b] = shared[b]
    BY <1>1, <1>3 DEF IInv, TypeOK
  <2>2. Existing'
    BY <1>1, <1>3, <2>1 DEF IInv, Existing
  <2>3. Freed'
    <3>1. \A b \in made : b \in deleted <=> shared[b] = 0 /\ weak[b] = 0 /\ ~Dying(b)
      BY DEF IInv, Freed
    <3>2. ASSUME NEW b \in made
          PROVE  b \in deleted <=> shared'[b] = 0 /\ weak[b] = 0 /\ ~Dying(b)'
      <4>1. CASE b = c
        BY <1>13, <2>1, <3>1, <4>1
      <4>2. CASE b # c
        BY <1>13, <2>1, <3>1, <4>2
      <4> QED BY <4>1, <4>2
    <3>3. deleted \subseteq made
      BY DEF IInv, TypeOK
    <3> QED BY <1>1, <3>2, <3>3 DEF Freed
  <2> QED BY <2>2, <2>3
<1> QED BY <1>11, <1>16, <1>17, <1>18, <1>19, <1>20 DEF IInv

-----------------------------------------------------------------------------
\* Adoptions

\* Nothing else is in progress when a pointer adopts, and what it held is gone.
LEMMA AdoptionEnds ==
  ASSUME IInv, calls # <<>>, Top.op \in Adopts, calls' = Rest
  PROVE  /\ Nested' /\ Pending' = {} /\ Released = {} /\ Released' = {}
         /\ \A z : ~Leaving(z) /\ ~Leaving(z)'
         /\ \A c : ~Dying(c) /\ ~Dying(c)'
         /\ Top.dst \in Cells /\ ctrl[Top.dst] = None /\ AdoptInv(Top)
         /\ \A c \in Blocks : Top.dst # <<c, "weak">>
         /\ \A c \in Blocks \ objects : Top.dst \notin Fields(c)
<1>1. Nested' /\ Pending = {Top} /\ Pending' = {} /\ Top \in Call
  BY CallEnds DEF IInv
<1>2. Releases = {} /\ Released = {} /\ Released' = {}
  BY <1>1 DEF Releases, Released, Adopts
<1>3. /\ \A z : ~Leaving(z) /\ ~Leaving(z)'
      /\ \A c : ~Dying(c) /\ ~Dying(c)'
  BY <1>1 DEF Leaving, Dying, Adopts
<1>4. AdoptInv(Top) /\ Top.dst \in Cells
  BY <1>1 DEF IInv, CallInv, Call
<1>5. /\ ctrl[Top.dst] = None
      /\ Top.dst \in Variables \/ (Top.dst \in SharedCells /\ FieldOf(Top.dst, objects))
  <2>1. ctrl[Top.dst] = None \/ Top.dst \in Released
    BY <1>4 DEF AdoptInv
  <2>2. Top.dst \in Variables \/ (Top.dst \in SharedCells /\ FieldOf(Top.dst, objects))
    BY <1>4 DEF AdoptInv
  <2> QED BY <1>2, <2>1, <2>2
<1>6. PICK x \in Cells : x = Top.dst
  BY <1>4
<1>7. \A c \in Blocks : x # <<c, "weak">>
  BY <1>5, <1>6, FieldCells
<1>8. \A c \in Blocks \ objects : x \notin Fields(c)
  <2>1. CASE x \in Variables
    BY <2>1, FieldCells
  <2>2. CASE FieldOf(x, objects)
    <3>1. objects \subseteq Blocks
      BY DEF IInv, TypeOK
    <3>2. ~FieldOf(x, Blocks \ objects)
      BY <2>2, <3>1, OneObject
    <3> QED BY <3>2 DEF FieldOf
  <2> QED BY <1>5, <1>6, <2>1, <2>2
<1> QED BY <1>1, <1>2, <1>3, <1>4, <1>5, <1>6, <1>7, <1>8

\* y has gone from a set, and x has come if y was in it.
LEMMA SetSwapped ==
  ASSUME NEW F, NEW G, NEW x, NEW y, IsFiniteSet(F), IsFiniteSet(G), x \notin F, y \notin G,
         F \ {x, y} = G \ {x, y}, x \in G <=> y \in F
  PROVE  Cardinality(G) = Cardinality(F)
<1>1. /\ Cardinality(F) \in Nat /\ Cardinality(G) \in Nat
      /\ Cardinality(F \ {y}) = IF y \in F THEN Cardinality(F) - 1 ELSE Cardinality(F)
      /\ Cardinality(G \ {x}) = IF x \in G THEN Cardinality(G) - 1 ELSE Cardinality(G)
  BY FS_CardinalityType, FS_RemoveElement
<1>2. F \ {y} = G \ {x}
  OBVIOUS
<1> QED BY <1>1, <1>2

\* The counts after an adoption are those of the pointers: one more for a copy, the
\* same for a move.
LEMMA OwnersAdopted ==
  ASSUME NEW x \in SharedCells, NEW y \in SharedCells, x # y, ctrl[x] = None, ctrl'[x] = ctrl[y],
         \A z : ~Leaving(z) /\ ~Leaving(z)',
         \A z \in SharedCells \ {x, y} : ctrl'[z] = ctrl[z],
         ctrl'[y] \in {None, ctrl[y]},
         NEW b \in Blocks
  PROVE  /\ Cardinality(Owners(b)) \in Nat
         /\ ctrl'[y] = None => Cardinality(Owners(b))' = Cardinality(Owners(b))
         /\ ctrl'[y] = ctrl[y] => Cardinality(Owners(b))'
                                    = Cardinality(Owners(b)) + IF b = ctrl[y] THEN 1 ELSE 0
<1> DEFINE F == Owners(b)
           G == Owners(b)'
<1>1. b # None
  BY NamesAssumption
<1>2. /\ IsFiniteSet(F) /\ IsFiniteSet(G) /\ F \ {x, y} = G \ {x, y} /\ x \notin F
      /\ x \in G <=> b = ctrl[y]
      /\ y \in F <=> b = ctrl[y]
      /\ y \in G <=> b = ctrl'[y]
  <2>1. IsFiniteSet(F) /\ IsFiniteSet(G)
    BY CountsAreFinite
  <2>2. \A z : /\ z \in F <=> z \in SharedCells /\ ctrl[z] = b
               /\ z \in G <=> z \in SharedCells /\ ctrl'[z] = b
    BY DEF Owners, SharedCells
  <2> HIDE DEF F, G
  <2> QED BY <1>1, <2>1, <2>2
<1> HIDE DEF F, G
<1>3. Cardinality(F) \in Nat
  BY <1>2, FS_CardinalityType
<1>4. ASSUME ctrl'[y] = None PROVE Cardinality(G) = Cardinality(F)
  <2>1. y \notin G /\ (x \in G <=> y \in F)
    BY <1>1, <1>2, <1>4
  <2> QED BY <1>2, <2>1, SetSwapped
<1>5. ASSUME ctrl'[y] = ctrl[y]
      PROVE  Cardinality(G) = Cardinality(F) + IF b = ctrl[y] THEN 1 ELSE 0
  <2>1. F \ {x} = G \ {x}
    BY <1>2, <1>5
  <2>2. /\ Cardinality(G) \in Nat
        /\ Cardinality(G) + In(x, F) = Cardinality(F) + In(x, G)
    BY <1>2, <2>1, SetMoved
  <2> QED BY <1>2, <1>3, <2>2 DEF In
<1> QED BY <1>3, <1>4, <1>5 DEF F, G

LEMMA WatchersAdopted ==
  ASSUME NEW x \in WeakCells, NEW y \in WeakCells, x # y, ctrl[x] = None, ctrl'[x] = ctrl[y],
         \A z \in WeakCells \ {x, y} : ctrl'[z] = ctrl[z],
         ctrl'[y] \in {None, ctrl[y]},
         NEW b \in Blocks
  PROVE  /\ Cardinality(Watchers(b)) \in Nat
         /\ ctrl'[y] = None => Cardinality(Watchers(b))' = Cardinality(Watchers(b))
         /\ ctrl'[y] = ctrl[y] => Cardinality(Watchers(b))'
                                    = Cardinality(Watchers(b)) + IF b = ctrl[y] THEN 1 ELSE 0
<1> DEFINE F == Watchers(b)
           G == Watchers(b)'
<1>1. b # None
  BY NamesAssumption
<1>2. /\ IsFiniteSet(F) /\ IsFiniteSet(G) /\ F \ {x, y} = G \ {x, y} /\ x \notin F
      /\ x \in G <=> b = ctrl[y]
      /\ y \in F <=> b = ctrl[y]
      /\ y \in G <=> b = ctrl'[y]
  <2>1. IsFiniteSet(F) /\ IsFiniteSet(G)
    BY CountsAreFinite
  <2>2. \A z : /\ z \in F <=> z \in WeakCells /\ ctrl[z] = b
               /\ z \in G <=> z \in WeakCells /\ ctrl'[z] = b
    BY DEF Watchers, WeakCells
  <2> HIDE DEF F, G
  <2> QED BY <1>1, <2>1, <2>2
<1> HIDE DEF F, G
<1>3. Cardinality(F) \in Nat
  BY <1>2, FS_CardinalityType
<1>4. ASSUME ctrl'[y] = None PROVE Cardinality(G) = Cardinality(F)
  <2>1. y \notin G /\ (x \in G <=> y \in F)
    BY <1>1, <1>2, <1>4
  <2> QED BY <1>2, <2>1, SetSwapped
<1>5. ASSUME ctrl'[y] = ctrl[y]
      PROVE  Cardinality(G) = Cardinality(F) + IF b = ctrl[y] THEN 1 ELSE 0
  <2>1. F \ {x} = G \ {x}
    BY <1>2, <1>5
  <2>2. /\ Cardinality(G) \in Nat
        /\ Cardinality(G) + In(x, F) = Cardinality(F) + In(x, G)
    BY <1>2, <2>1, SetMoved
  <2> QED BY <1>2, <1>3, <2>2 DEF In
<1> QED BY <1>3, <1>4, <1>5 DEF F, G

LEMMA FinishResetIInv ==
  ASSUME IInv, FinishReset
  PROVE  IInv'
<1>1. /\ calls # <<>> /\ Top.op = "new" /\ calls' = Rest
      /\ UNCHANGED <<weak, deleted>>
  BY DEF FinishReset, Runs
<1>2. PICK c \in Blocks \ made :
        /\ made' = made \cup {c} /\ objects' = objects \cup {c}
        /\ shared' = [shared EXCEPT ![c] = 1]
        /\ ctrl' = [ctrl EXCEPT ![Top.dst] = c]
  BY DEF FinishReset
<1>3. /\ Nested' /\ Pending' = {} /\ Released = {} /\ Released' = {}
      /\ \A z : ~Leaving(z) /\ ~Leaving(z)'
      /\ \A b : ~Dying(b) /\ ~Dying(b)'
  BY <1>1, AdoptionEnds DEF Adopts
<1>4. PICK x \in Cells :
        /\ x = Top.dst /\ ctrl[x] = None /\ x \in SharedCells
        /\ \A b \in Blocks : x # <<b, "weak">>
        /\ \A b \in Blocks \ objects : x \notin Fields(b)
  <2>1. /\ Top.dst \in Cells /\ ctrl[Top.dst] = None /\ AdoptInv(Top)
        /\ \A b \in Blocks : Top.dst # <<b, "weak">>
        /\ \A b \in Blocks \ objects : Top.dst \notin Fields(b)
    BY <1>1, AdoptionEnds DEF Adopts
  <2>2. Top.dst \in SharedCells
    BY <1>1, <2>1 DEF AdoptInv
  <2> QED BY <2>1, <2>2
<1>5. /\ ctrl' \in [Cells -> Blocks \cup {None}] /\ ctrl'[x] = c
      /\ \A z \in Cells \ {x} : ctrl'[z] = ctrl[z]
      /\ shared' \in [Blocks -> Nat] /\ shared'[c] = 1
      /\ \A b \in Blocks \ {c} : shared'[b] = shared[b]
  BY <1>2, <1>4 DEF IInv, TypeOK
<1>6. TypeOK'
  <2>1. \A i \in DOMAIN calls' : calls'[i] \in Call
    BY <1>3 DEF Nested
  <2> QED BY <1>1, <1>2, <1>5, <2>1 DEF IInv, TypeOK
<1>7. CellsInv'
  <2>1. \A z \in Cells : ctrl'[z] \in made' \cup {None}
    BY <1>2, <1>5 DEF IInv, CellsInv
  <2>2. \A b \in Blocks : ctrl'[<<b, "weak">>] = None
    BY <1>4, <1>5, FieldCells DEF IInv, CellsInv
  <2>3. ASSUME NEW b \in Blocks \ objects', NEW z \in Fields(b) PROVE ctrl'[z] = None
    <3>1. b \in Blocks \ objects /\ z \in Cells /\ z # x
      BY <1>2, <1>4, FieldCells
    <3> QED BY <1>3, <1>5, <3>1 DEF IInv, CellsInv
  <2> QED BY <2>1, <2>2, <2>3 DEF CellsInv
\* No pointer refers to a block that has not been made
<1>8. \A z \in Cells : ctrl[z] # c
  BY <1>2, NamesAssumption DEF IInv, CellsInv
<1>9. Counted'
  <2>1. ASSUME NEW b \in Blocks PROVE Watchers(b)' = Watchers(b)
    <3>1. \A z \in WeakCells : z \in Cells /\ z # x
      BY <1>4, CellKinds
    <3> QED BY <1>5, <3>1 DEF Watchers
  <2>2. ASSUME NEW b \in Blocks
        PROVE  /\ Owners(b)' \ {x} = Owners(b) \ {x} /\ x \notin Owners(b)
               /\ x \in Owners(b)' <=> b = c
    <3>1. \A z \in SharedCells : z \in Cells
      BY CellKinds
    <3>2. None \notin Blocks
      BY NamesAssumption
    <3> QED BY <1>3, <1>4, <1>5, <3>1, <3>2 DEF Owners
  <2>3. shared[c] = 0
    <3>1. \A z \in SharedCells : z \in Cells
      BY CellKinds
    <3>2. Owners(c) = {}
      BY <1>8, <3>1 DEF Owners
    <3> QED BY <3>2, FS_EmptySet DEF IInv, Counted
  <2>4. ASSUME NEW b \in Blocks PROVE shared'[b] = Cardinality(Owners(b))'
    <3>1. /\ Cardinality(Owners(b)) \in Nat /\ Cardinality(Owners(b))' \in Nat
          /\ Cardinality(Owners(b))' + In(x, Owners(b))
               = Cardinality(Owners(b)) + In(x, Owners(b)')
      BY <2>2, OwnersMoved
    <3>2. /\ In(x, Owners(b)) = 0
          /\ In(x, Owners(b)') = IF b = c THEN 1 ELSE 0
      BY <2>2 DEF In
    <3>3. shared[b] = Cardinality(Owners(b))
      BY DEF IInv, Counted
    <3>4. shared'[b] = IF b = c THEN shared[b] + 1 ELSE shared[b]
      BY <1>5, <2>3
    <3> QED BY <3>1, <3>2, <3>3, <3>4
  <2> QED BY <1>1, <2>1, <2>4 DEF IInv, Counted
<1>10. Existing' /\ Freed'
  <2>1. \A b \in made : shared'[b] = shared[b] /\ b # c
    BY <1>2, <1>5 DEF IInv, TypeOK
  <2>2. Existing'
    BY <1>2, <1>5, <2>1 DEF IInv, Existing
  <2>3. Freed'
    BY <1>1, <1>2, <1>3, <1>5, <2>1 DEF IInv, Freed
  <2> QED BY <2>2, <2>3
<1> QED BY <1>3, <1>6, <1>7, <1>9, <1>10 DEF IInv

\* The rest of operator=.
LEMMA FinishAssignIInv ==
  ASSUME IInv, FinishAssign
  PROVE  IInv'
<1>1. /\ calls # <<>> /\ Top.op \in {"copy", "move"} /\ calls' = Rest
      /\ UNCHANGED <<made, objects, deleted>>
  BY DEF FinishAssign, Runs
<1>2. /\ Nested' /\ Pending' = {} /\ Released = {} /\ Released' = {}
      /\ \A z : ~Leaving(z) /\ ~Leaving(z)'
      /\ \A b : ~Dying(b) /\ ~Dying(b)'
  BY <1>1, AdoptionEnds DEF Adopts
<1>3. PICK x \in Cells, y \in Cells, c \in made \cup {None}, n \in {0, 1} :
        /\ x = Top.dst /\ y = Top.src /\ c = ctrl[y] /\ x # y /\ ctrl[x] = None
        /\ y \in SharedCells <=> x \in SharedCells
        /\ \A b \in Blocks : x # <<b, "weak">>
        /\ \A b \in Blocks \ objects : x \notin Fields(b)
        /\ n = IF c # None /\ Top.op = "copy" THEN 1 ELSE 0
  <2>1. /\ Top.dst \in Cells /\ ctrl[Top.dst] = None /\ AdoptInv(Top)
        /\ \A b \in Blocks : Top.dst # <<b, "weak">>
        /\ \A b \in Blocks \ objects : Top.dst \notin Fields(b)
    BY <1>1, AdoptionEnds DEF Adopts
  <2>2. /\ Top.src \in Cells /\ Top.dst # Top.src
        /\ Top.src \in SharedCells <=> Top.dst \in SharedCells
    BY <1>1, <2>1 DEF AdoptInv
  <2>3. ctrl[Top.src] \in made \cup {None}
    BY <2>2 DEF IInv, CellsInv
  <2> QED BY <2>1, <2>2, <2>3
<1>4. /\ ctrl' = [z \in Cells |-> IF z = x THEN c
                                  ELSE IF z = y /\ Top.op = "move" THEN None ELSE ctrl[z]]
      /\ x \in SharedCells => /\ shared' = [b \in Blocks |-> IF b = c THEN shared[b] + n ELSE shared[b]]
                              /\ weak' = weak
      /\ x \notin SharedCells => /\ weak' = [b \in Blocks |-> IF b = c THEN weak[b] + n ELSE weak[b]]
                                 /\ shared' = shared
  BY <1>3 DEF FinishAssign, MovedFrom
<1>5. /\ ctrl' \in [Cells -> Blocks \cup {None}] /\ ctrl'[x] = c
      /\ ctrl'[y] = IF Top.op = "move" THEN None ELSE c
      /\ \A z \in Cells \ {x, y} : ctrl'[z] = ctrl[z]
      /\ shared' \in [Blocks -> Nat] /\ weak' \in [Blocks -> Nat]
  <2>1. /\ ctrl \in [Cells -> Blocks \cup {None}] /\ made \subseteq Blocks
        /\ shared \in [Blocks -> Nat] /\ weak \in [Blocks -> Nat] /\ n \in Nat
    BY DEF IInv, TypeOK
  <2>2. shared' \in [Blocks -> Nat] /\ weak' \in [Blocks -> Nat]
    BY <1>4, <2>1
  <2> QED BY <1>3, <1>4, <2>1, <2>2
<1>6. TypeOK'
  <2>1. \A i \in DOMAIN calls' : calls'[i] \in Call
    BY <1>2 DEF Nested
  <2> QED BY <1>1, <1>5, <2>1 DEF IInv, TypeOK
<1>7. CellsInv'
  <2>1. \A z \in Cells : ctrl'[z] \in made \cup {None}
    BY <1>3, <1>5 DEF IInv, CellsInv
  <2>2. \A z \in Cells : ctrl[z] = None /\ z # x => ctrl'[z] = None
    BY <1>3, <1>5
  <2>3. \A b \in Blocks : ctrl'[<<b, "weak">>] = None
    BY <1>3, <2>2, FieldCells DEF IInv, CellsInv
  <2>4. ASSUME NEW b \in Blocks \ objects, NEW z \in Fields(b) PROVE ctrl'[z] = None
    <3>1. z \in Cells /\ z # x /\ ctrl[z] = None
      BY <1>2, <1>3, FieldCells DEF IInv, CellsInv
    <3> QED BY <2>2, <3>1
  <2> QED BY <1>1, <2>1, <2>3, <2>4 DEF CellsInv
<1>8. \A b \in Blocks : b # None
  BY NamesAssumption
<1>9. /\ Top.op = "move" => ctrl'[y] = None /\ n = 0
      /\ Top.op = "copy" => ctrl'[y] = c /\ (c # None => n = 1)
  BY <1>3, <1>5
<1>10. CASE x \in SharedCells
  <2>1. x \in SharedCells /\ y \in SharedCells /\ \A z \in SharedCells : z \in Cells
    BY <1>3, <1>10, CellKinds
  <2>2. /\ weak' = weak
        /\ \A b \in Blocks : shared'[b] = IF b = c THEN shared[b] + n ELSE shared[b]
    BY <1>4, <1>10
  <2>3. Counted'
    <3>1. ASSUME NEW b \in Blocks PROVE Watchers(b)' = Watchers(b)
      <4>1. \A z \in WeakCells : z \in Cells /\ z # x /\ z # y
        BY <2>1, CellKinds
      <4> QED BY <1>5, <4>1 DEF Watchers
    <3>2. ASSUME NEW b \in Blocks PROVE shared'[b] = Cardinality(Owners(b))'
      <4>1. \A z \in SharedCells \ {x, y} : ctrl'[z] = ctrl[z]
        BY <1>5, <2>1
      <4>2. ctrl'[x] = ctrl[y] /\ ctrl'[y] \in {None, ctrl[y]} /\ x # y /\ ctrl[x] = None
        BY <1>3, <1>5
      <4>3. /\ Cardinality(Owners(b)) \in Nat
            /\ ctrl'[y] = None => Cardinality(Owners(b))' = Cardinality(Owners(b))
            /\ ctrl'[y] = ctrl[y] => Cardinality(Owners(b))'
                                       = Cardinality(Owners(b)) + IF b = ctrl[y] THEN 1 ELSE 0
        BY ONLY <1>2, <2>1, <4>1, <4>2, b \in Blocks, OwnersAdopted
      <4>4. shared[b] = Cardinality(Owners(b))
        BY DEF IInv, Counted
      <4> QED BY <1>1, <1>3, <1>8, <1>9, <2>2, <4>3, <4>4
    <3> QED BY <2>2, <3>1, <3>2 DEF IInv, Counted
  <2>4. \A b \in made : shared'[b] = 0 <=> shared[b] = 0
    <3>1. made \subseteq Blocks /\ shared \in [Blocks -> Nat]
      BY DEF IInv, TypeOK
    <3>2. c # None => shared[c] \in Nat /\ shared[c] >= 1
      BY <1>2, <1>3, <2>1, OwnedIsCounted
    <3> QED BY <1>3, <1>8, <2>2, <3>1, <3>2
  <2>5. Existing' /\ Freed'
    BY <1>1, <1>2, <2>2, <2>4 DEF IInv, Existing, Freed
  <2> QED BY <1>2, <1>6, <1>7, <2>3, <2>5 DEF IInv
<1>11. CASE x \notin SharedCells
  <2>1. x \in WeakCells /\ y \in WeakCells /\ \A z \in WeakCells : z \in Cells
    BY <1>3, <1>11, CellKinds
  <2>2. /\ shared' = shared
        /\ \A b \in Blocks : weak'[b] = IF b = c THEN weak[b] + n ELSE weak[b]
    BY <1>4, <1>11
  <2>3. Counted'
    <3>1. ASSUME NEW b \in Blocks PROVE Owners(b)' = Owners(b)
      <4>1. \A z \in SharedCells : z \in Cells /\ z # x /\ z # y
        BY <2>1, CellKinds
      <4> QED BY <1>2, <1>5, <4>1 DEF Owners
    <3>2. ASSUME NEW b \in Blocks PROVE weak'[b] = Cardinality(Watchers(b))'
      <4>1. \A z \in WeakCells \ {x, y} : ctrl'[z] = ctrl[z]
        BY <1>5, <2>1
      <4>2. ctrl'[x] = ctrl[y] /\ ctrl'[y] \in {None, ctrl[y]} /\ x # y /\ ctrl[x] = None
        BY <1>3, <1>5
      <4>3. /\ Cardinality(Watchers(b)) \in Nat
            /\ ctrl'[y] = None => Cardinality(Watchers(b))' = Cardinality(Watchers(b))
            /\ ctrl'[y] = ctrl[y] => Cardinality(Watchers(b))'
                                       = Cardinality(Watchers(b)) + IF b = ctrl[y] THEN 1 ELSE 0
        BY ONLY <2>1, <4>1, <4>2, b \in Blocks, WatchersAdopted
      <4>4. weak[b] = Cardinality(Watchers(b))
        BY DEF IInv, Counted
      <4> QED BY <1>1, <1>3, <1>8, <1>9, <2>2, <4>3, <4>4
    <3> QED BY <2>2, <3>1, <3>2 DEF IInv, Counted
  <2>4. \A b \in made : weak'[b] = 0 <=> weak[b] = 0
    <3>1. made \subseteq Blocks /\ weak \in [Blocks -> Nat]
      BY DEF IInv, TypeOK
    <3>2. c # None => weak[c] \in Nat /\ weak[c] >= 1
      BY <1>3, <2>1, WatchedIsCounted
    <3> QED BY <1>3, <1>8, <2>2, <3>1, <3>2
  <2>5. Existing' /\ Freed'
    BY <1>1, <1>2, <2>2, <2>4 DEF IInv, Existing, Freed
  <2> QED BY <1>2, <1>6, <1>7, <2>3, <2>5 DEF IInv
<1> QED BY <1>10, <1>11

-----------------------------------------------------------------------------
\* All steps

LEMMA Stutter ==
  ASSUME IInv, UNCHANGED vars
  PROVE  IInv'
<1>1. /\ UNCHANGED <<ctrl, shared, weak, made, objects, deleted, calls>>
  BY DEF vars
<1>2. Pending' = Pending /\ Releases' = Releases /\ Released' = Released
  BY <1>1 DEF Pending, Releases, Released
<1>3. Nested' /\ TypeOK'
  BY <1>1, <1>2 DEF IInv, Nested, TypeOK
<1>4. /\ \A z : Leaving(z)' <=> Leaving(z)
      /\ \A c : Dying(c)' <=> Dying(c)
  BY <1>2 DEF Leaving, Dying
<1>5. \A q \in Pending' : CallInv(q)'
  BY <1>1, <1>2 DEF IInv, CallInv, ReleaseInv, AdoptInv
<1>6. CellsInv'
  BY <1>1, <1>2 DEF IInv, CellsInv
<1>7. Counted'
  <2>1. \A c : Owners(c)' = Owners(c) /\ Watchers(c)' = Watchers(c)
    BY <1>1, <1>4 DEF Owners, Watchers
  <2> QED BY <1>1, <2>1 DEF IInv, Counted
<1>8. Existing' /\ Freed'
  BY <1>1, <1>4 DEF IInv, Existing, Freed
<1> QED BY <1>3, <1>5, <1>6, <1>7, <1>8 DEF IInv

LEMMA NextIInv ==
  ASSUME Orderly, IInv, [Next]_vars
  PROVE  IInv'
<1>1. CASE Operation
  <2>1. ASSUME NEW x \in Cells, NEW y \in Cells,
               \/ Assign("copy", x, y) \/ Assign("move", x, y)
               \/ Observe(x, y) \/ Lock(x, y)
        PROVE  IInv'
    <3>1. CASE Assign("copy", x, y) \/ Assign("move", x, y)
      BY <3>1, AssignIInv
    <3>2. CASE Observe(x, y)
      BY <3>2, ObserveIInv
    <3>3. CASE Lock(x, y)
      BY <3>3, LockIInv
    <3> QED BY <2>1, <3>1, <3>2, <3>3
  <2>2. ASSUME NEW x \in Cells, ResetTo(x) \/ Reset(x) PROVE IInv'
    BY <2>2, ResetToIInv, ResetIInv
  <2> QED BY <1>1, <2>1, <2>2 DEF Operation
<1>2. CASE Step
  BY <1>2, ReleaseNothingIInv, ReleaseSharedIInv, ReleaseLastIInv, AfterDeleteIInv,
     ReleaseWeakIInv, FinishAssignIInv, FinishResetIInv DEF Step
<1>3. CASE UNCHANGED vars
  BY <1>3, Stutter
<1> QED BY <1>1, <1>2, <1>3 DEF Next

LEMMA SpecIInv ==
  ASSUME Orderly
  PROVE  Spec => []IInv
BY InitIInv, NextIInv, PTL DEF Spec

-----------------------------------------------------------------------------
\* What follows

\* Between operations what is counted is what can be seen.
LEMMA AllSeen ==
  ASSUME IInv, calls = <<>>, NEW c \in made
  PROVE  /\ Owners(c) = {x \in SharedCells \cap Reachable : ctrl[x] = c}
         /\ Watchers(c) = {x \in WeakCells \cap Reachable : ctrl[x] = c}
         /\ ~Dying(c)
<1>1. Pending = {} /\ Released = {}
  BY NoCalls
<1>2. ~Dying(c) /\ \A x : ~Leaving(x)
  BY <1>1 DEF Dying, Leaving
<1>3. c # None
  BY NamesAssumption DEF IInv, TypeOK
<1>4. ASSUME NEW x \in Cells, ctrl[x] = c PROVE x \in Reachable
  <2>1. CASE x \in Variables
    BY <2>1 DEF Variables, Reachable
  <2>2. CASE x \notin Variables
    <3>1. PICK b \in Blocks : x \in Fields(b)
      BY <2>2, CellKinds DEF FieldOf
    <3>2. b \in objects
      BY <1>1, <1>3, <1>4, <3>1 DEF IInv, CellsInv
    <3> QED BY <3>1, <3>2 DEF Reachable
  <2> QED BY <2>1, <2>2
<1>5. SharedCells \subseteq Cells /\ WeakCells \subseteq Cells
  BY CellKinds
<1> QED BY <1>2, <1>4, <1>5 DEF Owners, Watchers

LEMMA SeenIsCounted == IInv => CountsExact
<1> SUFFICES ASSUME IInv PROVE CountsExact
  OBVIOUS
<1>1. TypeOK
  BY DEF IInv
<1>2. ASSUME calls = <<>>, NEW c \in made
      PROVE  /\ shared[c] = Holding(SharedCells, c)
             /\ weak[c] = Holding(WeakCells, c)
             /\ c \in objects <=> shared[c] > 0
             /\ c \in deleted <=> shared[c] + weak[c] = 0
  <2>1. /\ Owners(c) = {x \in SharedCells \cap Reachable : ctrl[x] = c}
        /\ Watchers(c) = {x \in WeakCells \cap Reachable : ctrl[x] = c}
        /\ ~Dying(c)
    BY <1>2, AllSeen
  <2>2. c \in Blocks /\ shared[c] \in Nat /\ weak[c] \in Nat
    BY <1>1 DEF TypeOK
  <2>3. shared[c] = Cardinality(Owners(c)) /\ weak[c] = Cardinality(Watchers(c))
    BY <2>2 DEF IInv, Counted
  <2>4. c \in objects <=> shared[c] > 0
    BY <2>2 DEF IInv, Existing
  <2>5. c \in deleted <=> shared[c] + weak[c] = 0
    <3>1. c \in deleted <=> shared[c] = 0 /\ weak[c] = 0
      BY <2>1 DEF IInv, Freed
    <3> QED BY <2>2, <3>1
  <2>6. shared[c] = Holding(SharedCells, c) /\ weak[c] = Holding(WeakCells, c)
    BY <2>1, <2>3 DEF Holding
  <2> QED BY <2>4, <2>5, <2>6
<1> QED BY <1>1, <1>2 DEF CountsExact

LEMMA UsedIsKept == IInv => BlocksOutliveUse
<1> SUFFICES ASSUME IInv PROVE BlocksOutliveUse
  OBVIOUS
<1>1. /\ deleted \subseteq made /\ made \subseteq Blocks /\ None \notin Blocks
      /\ \A c \in deleted : shared[c] = 0 /\ weak[c] = 0 /\ ~Dying(c)
  BY NamesAssumption DEF IInv, TypeOK, Freed
<1>2. \A q \in Pending : CallInv(q) /\ q \in Call
  BY DEF IInv, TypeOK, Pending, Range
<1>3. \A q \in Pending : q.on \notin deleted
  <2> SUFFICES ASSUME NEW q \in Pending PROVE q.on \notin deleted
    OBVIOUS
  <2>1. CASE q.op = "after"
    BY <1>1, <2>1 DEF Dying
  <2>2. CASE q.op # "after"
    BY <1>1, <1>2, <2>2 DEF CallInv
  <2> QED BY <2>1, <2>2
<1>4. \A i \in DOMAIN calls : calls[i].on \notin deleted
  BY <1>3 DEF Pending, Range
<1>5. ASSUME NEW x \in Reachable PROVE ctrl[x] \notin deleted
  <2>1. x \in Cells
    <3>1. objects \subseteq Blocks
      BY <1>1 DEF IInv, TypeOK
    <3>2. x \in Variables \/ \E c \in objects : x \in Fields(c)
      BY DEF Reachable, Variables
    <3> QED BY <3>1, <3>2, FieldCells, CellKinds
  <2>2. CASE ctrl[x] = None
    BY <1>1, <2>2
  <2>3. CASE x \in SharedCells /\ ctrl[x] # None /\ Leaving(x)
    BY <1>2, <1>3, <2>3 DEF Leaving, CallInv
  <2>4. CASE x \in SharedCells /\ ctrl[x] # None /\ ~Leaving(x)
    <3>1. shared[ctrl[x]] >= 1
      BY <2>4, OwnedIsCounted
    <3> QED BY <1>1, <3>1
  <2>5. CASE x \in WeakCells /\ ctrl[x] # None
    <3>1. weak[ctrl[x]] >= 1
      BY <2>5, WatchedIsCounted
    <3> QED BY <1>1, <3>1
  <2> QED BY <2>1, <2>2, <2>3, <2>4, <2>5 DEF Cells
<1> QED BY <1>4, <1>5 DEF BlocksOutliveUse

\* Only what has never been made begins to exist.
LEMMA OnlyNewObjects ==
  ASSUME IInv, [Next]_vars
  PROVE  made \subseteq made' /\ objects' \cap made \subseteq objects
<1>1. CASE Operation
  BY <1>1 DEF Operation, Assign, Starts, Observe, Lock, ResetTo, Reset
<1>2. CASE Step
  BY <1>2 DEF Step, ReleaseNothing, ReleaseShared, ReleaseLast, AfterDelete, ReleaseWeak,
              FinishAssign, FinishReset
<1>3. CASE UNCHANGED vars
  BY <1>3 DEF vars
<1> QED BY <1>1, <1>2, <1>3 DEF Next

LEMMA StaysDead ==
  ASSUME IInv, IInv', [Next]_vars
  PROVE  \A c \in made : shared[c] = 0 => shared'[c] = 0
<1>1. made \subseteq made' /\ objects' \cap made \subseteq objects
  BY OnlyNewObjects
<1>2. /\ objects = {c \in made : shared[c] # 0}
      /\ objects' = {c \in made' : shared'[c] # 0}
  BY DEF IInv, Existing
<1> QED BY <1>1, <1>2

-----------------------------------------------------------------------------
\* Theorems

\* Every variable keeps its type: no count falls below zero, and what exists or is
\* deleted has been made.
THEOREM PointersTypeCorrect == Orderly => (Spec => []TypeOK)
<1> SUFFICES ASSUME Orderly PROVE Spec => []TypeOK
  OBVIOUS
<1>1. IInv => TypeOK
  BY DEF IInv
<1> QED BY <1>1, SpecIInv, PTL

\* Between operations the counts are the numbers of pointers that can be reached, an
\* object exists as long as it has an owner, and no call in progress and no pointer
\* refers to a control block that is gone: "the object is destroyed when the last
\* owner releases it", however deep the deletions nest.
THEOREM PointersAreCounted == Orderly => (Spec => []CountsAndBlocks)
<1> SUFFICES ASSUME Orderly PROVE Spec => []CountsAndBlocks
  OBVIOUS
<1>1. IInv => CountsAndBlocks
  BY SeenIsCounted, UsedIsKept DEF CountsAndBlocks
<1> QED BY <1>1, SpecIInv, PTL

\* An object that has lost its last owner never gets another, in the middle of a
\* deletion either.
THEOREM NothingRevives == Orderly => (Spec => NoRevival)
<1> SUFFICES ASSUME Orderly PROVE Spec => NoRevival
  OBVIOUS
<1>1. IInv /\ IInv' /\ [Next]_vars => [\A c \in made : shared[c] = 0 => shared'[c] = 0]_vars
  BY StaysDead
<1> QED BY <1>1, SpecIInv, PTL DEF Spec, NoRevival
=============================================================================
