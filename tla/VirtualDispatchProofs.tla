------------------------ MODULE VirtualDispatchProofs ------------------------
(***************************************************************************)
(* What holds of every set of programs: the state of the type checker is   *)
(* well formed, every class of a program that runs has a layout, and       *)
(* methods share a slot exactly when they share a name.                    *)
(*                                                                         *)
(* Of those whose classes are declared after the ones they extend and get  *)
(* their tables from the top of their chains: fields keep their place,     *)
(* "is" finds the relatives of a class, and a virtual call runs the        *)
(* override where every promised method is implemented in time.            *)
(***************************************************************************)
EXTENDS VirtualDispatch, FiniteSetTheorems, SequenceTheorems, WellFoundedInduction, TLAPS

\* A program declares each of its classes, and the names of methods are
\* numbers, in the order of the strings they stand for.
WellFormed(p) ==
  /\ p.order \in Seq(DOMAIN p.base \cup {Body})
  /\ DOMAIN p.base \subseteq {p.order[i] : i \in 1 .. Len(p.order)}
  /\ Body \notin DOMAIN p.base /\ None \notin DOMAIN p.base
  /\ \A c \in DOMAIN p.base :
       /\ p.methods[c] \in Seq(Range(p.methods[c]))
       /\ \A k \in DOMAIN p.methods[c] : p.methods[c][k].name \in Nat

TypeOK ==
  /\ program \in Programs
  /\ next \in 1 .. Len(program.order) + 1
  /\ turn \in Nat
  /\ visited \subseteq Classes /\ seen \subseteq visited /\ polymorphic \subseteq visited
  /\ DOMAIN layout = visited
  /\ stopped \in {"", "rejected", "overflowed"}
  /\ object \in Classes \cup {None}

\* What has been visited, and what only an accepted program has
Visits ==
  /\ visited = {program.order[i] : i \in 1 .. next - 1} \ {Body}
  /\ object # None => Accepted

\* The slots that were handed out, against the names met so far
Slots ==
  /\ slotNames \subseteq Nat /\ IsFiniteSet(slotNames)
  /\ \A m \in DOMAIN vtableIndex :
       Name(m) \in slotNames /\ vtableIndex[m] = Rank(Name(m), slotNames)

IInv == TypeOK /\ Visits /\ Slots

\* Reading a field always finds the layouts it needs.
ObjectsHaveLayouts == object # None => DOMAIN layout = Classes

\* The class the visit stands at is declared, and its methods have names.
LEMMA ClassIsDeclared ==
  ASSUME \A p \in Programs : WellFormed(p), TypeOK, InClass
  PROVE  /\ Class \in Classes
         /\ \A k \in DOMAIN program.methods[Class] : Name(<<Class, k>>) \in Nat
<1>1. WellFormed(program)
  BY DEF TypeOK
<1>2. Class \in Classes
  <2> DEFINE order == program.order
  <2>1. order \in Seq(Classes \cup {Body}) /\ next \in DOMAIN order
    BY <1>1 DEF WellFormed, Classes, InClass
  <2>2. order[next] \in Classes \cup {Body}
    BY <2>1
  <2> QED
    BY <2>2 DEF Class, InClass
<1>3. ASSUME NEW k \in DOMAIN program.methods[Class]
      PROVE  Name(<<Class, k>>) \in Nat
  <2>1. program.methods[Class][k].name \in Nat
    BY <1>1, <1>2, <1>3 DEF WellFormed, Classes
  <2> QED
    BY <2>1 DEF Name, Decl
<1> QED
  BY <1>2, <1>3

\* Among finitely many names, two have the same rank only if they are one.
LEMMA RankIsInjective ==
  ASSUME NEW names, names \subseteq Nat, IsFiniteSet(names),
         NEW a \in names, NEW b \in names, Rank(a, names) = Rank(b, names)
  PROVE  a = b
<1> DEFINE Below(x) == {n \in names : n < x}
<1>1. ASSUME NEW x \in names, NEW y \in names, x < y, Rank(x, names) = Rank(y, names)
      PROVE  FALSE
  <2>1. Below(x) \subseteq Below(y)
    <3> SUFFICES ASSUME NEW n \in names, n < x PROVE n < y
      OBVIOUS
    <3>1. n \in Nat /\ x \in Nat /\ y \in Nat
      OBVIOUS
    <3> QED
      BY <1>1, <3>1
  <2>2. IsFiniteSet(Below(y))
    BY FS_Subset, Below(y) \subseteq names
  <2>3. Cardinality(Below(x)) = Cardinality(Below(y))
    BY <1>1 DEF Rank
  <2>4. Below(x) = Below(y)
    BY <2>1, <2>2, <2>3, FS_Subset
  <2>5. x \in Below(y) /\ x \notin Below(x)
    <3>1. x \in Nat /\ y \in Nat
      OBVIOUS
    <3> QED
      BY <1>1, <3>1
  <2> QED
    BY <2>4, <2>5
<1>2. a \in Nat /\ b \in Nat
  OBVIOUS
<1>3. a < b \/ b < a \/ a = b
  BY <1>2
<1> QED
  BY <1>1, <1>3

LEMMA InitIsGood ==
  ASSUME \A p \in Programs : WellFormed(p), Init
  PROVE  IInv
<1> PICK p \in Programs : InitWith(p)
  BY DEF Init
<1>1. WellFormed(p)
  OBVIOUS
<1>2. DOMAIN <<>> = {} /\ 1 .. 1 - 1 = {}
  OBVIOUS
<1>3. TypeOK
  <2>1. Len(program.order) \in Nat
    <3> DEFINE order == program.order
    <3>1. order \in Seq(DOMAIN p.base \cup {Body})
      BY <1>1 DEF WellFormed, InitWith
    <3> QED
      BY <3>1
  <2>2. DOMAIN layout = {}
    BY <1>2 DEF InitWith
  <2>3. next \in 1 .. Len(program.order) + 1
    <3>1. next = 1
      BY DEF InitWith
    <3> QED
      BY <2>1, <3>1
  <2> QED
    BY <2>2, <2>3 DEF InitWith, TypeOK
<1>4. Visits
  BY <1>2 DEF InitWith, Visits
<1>5. Slots
  <2>1. DOMAIN vtableIndex = {}
    BY <1>2 DEF InitWith
  <2> QED
    BY <2>1, FS_EmptySet DEF InitWith, Slots
<1> QED
  BY <1>3, <1>4, <1>5 DEF IInv

\* While declarations remain nothing runs.
LEMMA NothingRunsYet ==
  ASSUME \A p \in Programs : WellFormed(p), TypeOK, Visits, next \in DOMAIN program.order
  PROVE  /\ object = None
         /\ Len(program.order) \in Nat /\ next \in 1 .. Len(program.order)
<1> DEFINE order == program.order
<1>1. order \in Seq(Classes \cup {Body})
  BY DEF TypeOK, WellFormed, Classes
<1>2. Len(order) \in Nat /\ DOMAIN order = 1 .. Len(order)
  BY <1>1
<1>3. next # Len(order) + 1
  BY <1>2
<1> QED
  BY <1>2, <1>3 DEF Visits, Accepted

LEMMA StepKeepsTypes ==
  ASSUME \A p \in Programs : WellFormed(p), TypeOK, Visits, [Next]_vars
  PROVE  TypeOK'
<1>1. ASSUME EnterClass PROVE TypeOK'
  BY <1>1 DEF EnterClass, TypeOK, Classes
<1>2. ASSUME CheckMethod PROVE TypeOK'
  <2>1. /\ UNCHANGED <<program, next, visited, polymorphic, layout, seen, object>>
        /\ stopped' \in {"", "rejected"}
    BY <1>2 DEF CheckMethod
  <2>2. turn' \in Nat
    <3>1. turn \in Nat
      BY DEF TypeOK
    <3>2. turn' = turn + 1
      BY <1>2 DEF CheckMethod
    <3> QED
      BY ONLY <3>1, <3>2
  <2>3. program' \in Programs /\ next' \in 1 .. Len(program'.order) + 1
    BY <2>1 DEF TypeOK
  <2> QED
    BY <2>1, <2>2, <2>3 DEF TypeOK, Classes
<1>3. ASSUME LeaveClass PROVE TypeOK'
  <2>1. Class \in Classes /\ next \in DOMAIN program.order
    BY <1>3, ClassIsDeclared DEF LeaveClass, InClass
  <2>2. next + 1 \in 1 .. Len(program.order) + 1
    BY <2>1, NothingRunsYet
  <2>3. /\ visited' = visited \cup {Class} /\ program' = program /\ next' = next + 1
        /\ polymorphic' \subseteq polymorphic \cup {Class} /\ DOMAIN layout' = visited'
        /\ turn' = 0 /\ stopped' \in {"", "rejected"} /\ UNCHANGED <<seen, object>>
    BY <1>3 DEF LeaveClass
  <2> QED
    BY <2>1, <2>2, <2>3 DEF TypeOK, Classes
<1>4. ASSUME CheckBody PROVE TypeOK'
  <2>1. next \in DOMAIN program.order
    BY <1>4 DEF CheckBody, InBody
  <2>2. next + 1 \in 1 .. Len(program.order) + 1
    BY <2>1, NothingRunsYet
  <2> QED
    BY <1>4, <2>2 DEF CheckBody, TypeOK, Classes
<1>5. ASSUME New PROVE TypeOK'
  BY <1>5 DEF New, TypeOK, Classes, checking
<1>6. ASSUME Call \/ Read \/ Test \/ UNCHANGED vars PROVE TypeOK'
  BY <1>6 DEF Call, Read, Test, TypeOK, Classes, checking, vars
<1> QED
  BY <1>1, <1>2, <1>3, <1>4, <1>5, <1>6 DEF Next

LEMMA StepKeepsVisits ==
  ASSUME \A p \in Programs : WellFormed(p), TypeOK, Visits, [Next]_vars
  PROVE  Visits'
<1> DEFINE Upto(k) == {program.order[i] : i \in 1 .. k} \ {Body}
<1>1. ASSUME EnterClass \/ CheckMethod PROVE Visits'
  <2>1. object = None
    BY <1>1, NothingRunsYet DEF EnterClass, CheckMethod, InClass
  <2> QED
    BY <1>1, <2>1 DEF EnterClass, CheckMethod, Visits
<1>2. ASSUME LeaveClass \/ CheckBody PROVE Visits'
  <2>1. object = None /\ Len(program.order) \in Nat /\ next \in 1 .. Len(program.order)
    BY <1>2, NothingRunsYet DEF LeaveClass, CheckBody, InClass, InBody
  <2>2. 1 .. next = (1 .. next - 1) \cup {next} /\ (next + 1) - 1 = next
    BY <2>1
  <2>3. Upto(next) = Upto(next - 1) \cup ({Class} \ {Body})
    BY <2>2 DEF Class
  <2>4. visited' = visited \cup ({Class} \ {Body})
    BY <1>2 DEF LeaveClass, CheckBody, InClass, InBody
  <2>5. visited' = Upto(next' - 1)
    BY <1>2, <2>2, <2>3, <2>4 DEF Visits, LeaveClass, CheckBody
  <2>6. program' = program /\ object' = None
    BY <1>2, <2>1 DEF LeaveClass, CheckBody
  <2> QED
    BY <2>5, <2>6 DEF Visits
<1>3. ASSUME New \/ Call \/ Read \/ Test \/ UNCHANGED vars PROVE Visits'
  <2>1. UNCHANGED checking /\ (object' # None => object # None \/ Accepted)
    BY <1>3 DEF New, Call, Read, Test, vars
  <2> QED
    BY <2>1 DEF Visits, Accepted, checking
<1> QED
  BY <1>1, <1>2, <1>3 DEF Next

LEMMA StepKeepsSlots ==
  ASSUME \A p \in Programs : WellFormed(p), TypeOK, Slots, [Next]_vars
  PROVE  Slots'
<1>1. ASSUME UNCHANGED <<program, slotNames, vtableIndex>> PROVE Slots'
  BY <1>1 DEF Slots, Name, Decl, Rank
<1>2. ASSUME CheckMethod PROVE Slots'
  <2> DEFINE m == <<Class, turn>>
  <2>1. CASE ~(BecomesVirtual(m) /\ ~Refused(m))
    BY <1>1, <1>2, <2>1 DEF CheckMethod
  <2>2. CASE BecomesVirtual(m) /\ ~Refused(m)
    <3>1. AssignVTableSlot(m) /\ program' = program
      BY <1>2, <2>2 DEF CheckMethod
    <3>2. Name(m) \in Nat
      BY <1>2, ClassIsDeclared DEF CheckMethod
    <3>3. /\ slotNames' = slotNames \cup {Name(m)}
          /\ vtableIndex' = [n \in DOMAIN vtableIndex \cup {m} |-> Rank(Name(n), slotNames')]
      BY <3>1 DEF AssignVTableSlot
    <3>4. slotNames' \subseteq Nat /\ IsFiniteSet(slotNames')
      BY <3>2, <3>3, FS_AddElement DEF Slots
    <3>5. ASSUME NEW n \in DOMAIN vtableIndex'
          PROVE  Name(n)' \in slotNames' /\ vtableIndex'[n] = Rank(Name(n), slotNames)'
      <4>1. Name(n)' = Name(n)
        BY <3>1 DEF Name, Decl
      <4>2. n \in DOMAIN vtableIndex \/ n = m
        BY <3>3, <3>5
      <4>3. Name(n) \in slotNames'
        BY <3>3, <4>2 DEF Slots
      <4>4. vtableIndex'[n] = Rank(Name(n), slotNames')
        BY <3>3, <3>5
      <4> QED
        BY <4>1, <4>3, <4>4 DEF Rank
    <3> QED
      BY <3>4, <3>5 DEF Slots
  <2> QED
    BY <2>1, <2>2
<1>3. ASSUME EnterClass \/ LeaveClass \/ CheckBody \/ New \/ Call \/ Read \/ Test \/ UNCHANGED vars
      PROVE  UNCHANGED <<program, slotNames, vtableIndex>>
  BY <1>3 DEF EnterClass, LeaveClass, CheckBody, New, Call, Read, Test, vars, checking
<1> QED
  BY <1>1, <1>2, <1>3 DEF Next

LEMMA SlotsAreNames ==
  ASSUME Slots
  PROVE  SlotsFollowNames
<1> SUFFICES ASSUME NEW m \in DOMAIN vtableIndex, NEW n \in DOMAIN vtableIndex
             PROVE  vtableIndex[m] = vtableIndex[n] <=> Name(m) = Name(n)
  BY DEF SlotsFollowNames
<1>1. /\ Name(m) \in slotNames /\ Name(n) \in slotNames
      /\ vtableIndex[m] = Rank(Name(m), slotNames)
      /\ vtableIndex[n] = Rank(Name(n), slotNames)
  BY DEF Slots
<1>2. slotNames \subseteq Nat /\ IsFiniteSet(slotNames)
  BY DEF Slots
<1>3. Rank(Name(m), slotNames) = Rank(Name(n), slotNames) => Name(m) = Name(n)
  BY <1>1, <1>2, RankIsInjective
<1> QED
  BY <1>1, <1>3

LEMMA AcceptedVisitedAll ==
  ASSUME \A p \in Programs : WellFormed(p), TypeOK, Visits
  PROVE  ObjectsHaveLayouts
<1> SUFFICES ASSUME object # None PROVE DOMAIN layout = Classes
  BY DEF ObjectsHaveLayouts
<1>1. WellFormed(program)
  BY DEF TypeOK
<1>2. next = Len(program.order) + 1
  BY DEF Visits, Accepted
<1>3. Len(program.order) \in Nat
  <2> DEFINE order == program.order
  <2>1. order \in Seq(Classes \cup {Body})
    BY <1>1 DEF WellFormed, Classes
  <2> QED
    BY <2>1
<1>4. next - 1 = Len(program.order)
  BY <1>2, <1>3
<1>5. Classes \subseteq visited
  BY <1>1, <1>4 DEF Visits, WellFormed, Classes
<1> QED
  BY <1>5 DEF TypeOK

LEMMA InvariantHolds ==
  ASSUME \A p \in Programs : WellFormed(p)
  PROVE  Spec => []IInv
<1>1. Init => IInv
  BY InitIsGood
<1>2. IInv /\ [Next]_vars => IInv'
  BY StepKeepsTypes, StepKeepsVisits, StepKeepsSlots DEF IInv
<1> QED
  BY <1>1, <1>2, PTL DEF Spec

\* The state of the type checker is well formed: what it knows of a class it
\* knows of a class it has visited (TypeChecker.cpp, visit(ClassDeclNode)).
THEOREM CheckerTypeCorrect ==
  ASSUME \A p \in Programs : WellFormed(p)
  PROVE  Spec => []TypeOK
<1>1. IInv => TypeOK
  BY DEF IInv
<1> QED
  BY <1>1, InvariantHolds, PTL

\* Whatever the programs, and at every moment of the check, methods share a slot
\* exactly when they share a name (SemaContext.hpp, assignVTableSlot).
THEOREM SharedSlotsAreSharedNames ==
  ASSUME \A p \in Programs : WellFormed(p)
  PROVE  Spec => []SlotsFollowNames
<1>1. IInv => SlotsFollowNames
  BY SlotsAreNames DEF IInv
<1> QED
  BY <1>1, InvariantHolds, PTL

\* A program that has an object was accepted after every class had been visited
\* and laid out, whatever the order of the declarations.
THEOREM ObjectsAreLaidOut ==
  ASSUME \A p \in Programs : WellFormed(p)
  PROVE  Spec => []ObjectsHaveLayouts
<1>1. IInv => ObjectsHaveLayouts
  BY AcceptedVisitedAll DEF IInv
<1> QED
  BY <1>1, InvariantHolds, PTL

-----------------------------------------------------------------------------
(* Numbers: the least element of a set, and induction.                     *)

Less == {pair \in Nat \X Nat : pair[1] < pair[2]}

LEMMA LeastExists ==
  ASSUME NEW S, S \subseteq Nat, S # {}
  PROVE  \E x \in S : \A y \in S : x <= y
<1>1. IsWellFoundedOn(Less, Nat)
  BY NatLessThanWellFounded, Zenon DEF OpToRel, Less
<1>2. PICK x \in S : \A y \in S : ~(<<y, x>> \in Less)
  BY <1>1, WFMin, Zenon
<1>3. \A y \in S : ~(y < x)
  BY <1>2 DEF Less
<1> QED
  BY <1>3

\* Induction: a set with 0 and with the successor of each member holds every number.
LEMMA Induction ==
  ASSUME NEW S, 0 \in S, \A n \in Nat : n \in S => n + 1 \in S
  PROVE  \A n \in Nat : n \in S
<1> SUFFICES ASSUME NEW T, T = Nat \ S, T # {} PROVE FALSE
  OBVIOUS
<1>1. PICK x \in T : \A y \in T : x <= y
  BY LeastExists
<1>2. x # 0 /\ x - 1 \in Nat /\ x - 1 \in S
  BY <1>1
<1>3. (x - 1) + 1 \in S
  BY <1>2
<1> QED
  BY <1>1, <1>3

-----------------------------------------------------------------------------
(* What FlattenSeq makes of a sequence of sequences.                       *)

\* The sequences that the first i of s make together, for i up to n.
IsFlatten(f, s, n) == f = [i \in 1 .. n |-> IF i = 1 THEN s[i] ELSE f[i - 1] \o s[i]]

LEMMA FlattenExists ==
  ASSUME NEW s, NEW n \in Nat
  PROVE  \E f : IsFlatten(f, s, n)
<1> DEFINE S == {x \in Nat : \E f : IsFlatten(f, s, x)}
<1>1. 0 \in S
  <2> DEFINE f == [i \in 1 .. 0 |-> s]
  <2>1. IsFlatten(f, s, 0)
    BY DEF IsFlatten
  <2> QED
    BY <2>1
<1>2. ASSUME NEW x \in Nat, x \in S PROVE x + 1 \in S
  <2>1. PICK f : IsFlatten(f, s, x)
    BY <1>2
  <2>2. f = [i \in 1 .. x |-> IF i = 1 THEN s[i] ELSE f[i - 1] \o s[i]]
    BY <2>1 DEF IsFlatten
  <2> DEFINE Last1 == IF x = 0 THEN s[1] ELSE f[x] \o s[x + 1]
             g == [i \in 1 .. x + 1 |-> IF i = x + 1 THEN Last1 ELSE f[i]]
  <2>3. ASSUME NEW i \in 1 .. x + 1
        PROVE  g[i] = IF i = 1 THEN s[i] ELSE g[i - 1] \o s[i]
    <3>1. CASE i = x + 1 /\ x = 0
      BY <3>1
    <3>2. CASE i = x + 1 /\ x # 0
      <4>1. i # 1 /\ i - 1 = x /\ x \in 1 .. x + 1 /\ x # x + 1
        BY <3>2
      <4> QED
        BY <3>2, <4>1
    <3>3. CASE i # x + 1
      <4>1. i \in 1 .. x
        BY <3>3
      <4>2. f[i] = IF i = 1 THEN s[i] ELSE f[i - 1] \o s[i]
        BY <2>2, <4>1
      <4>3. i # 1 => i - 1 \in 1 .. x + 1 /\ i - 1 # x + 1
        BY <4>1
      <4> QED
        BY <3>3, <4>2, <4>3
    <3> QED
      BY <3>1, <3>2, <3>3
  <2>4. DOMAIN g = 1 .. x + 1 /\ g = [i \in DOMAIN g |-> g[i]]
    OBVIOUS
  <2>5. IsFlatten(g, s, x + 1)
    <3> HIDE DEF g
    <3> QED
      BY <2>3, <2>4 DEF IsFlatten
  <2> QED
    BY <2>5
<1> HIDE DEF S
<1>3. \A x \in Nat : x \in S
  BY <1>1, <1>2, Induction
<1> QED
  BY <1>3 DEF S

LEMMA FlattenIs ==
  ASSUME NEW T, NEW s \in Seq(T), s # <<>>
  PROVE  \E f : IsFlatten(f, s, Len(s)) /\ FlattenSeq(s) = f[Len(s)]
<1>1. Len(s) \in Nat /\ Len(s) # 0
  BY EmptySeq, LenProperties
<1> DEFINE flatten == CHOOSE f : IsFlatten(f, s, Len(s))
<1>2. IsFlatten(flatten, s, Len(s))
  BY <1>1, FlattenExists
<1>3. FlattenSeq(s) = flatten[Len(s)]
  BY <1>1, Zenon DEF FlattenSeq, IsFlatten
<1> QED
  BY <1>2, <1>3

LEMMA FlattenNone == FlattenSeq(<<>>) = <<>>
BY DEF FlattenSeq

LEMMA FlattenOne ==
  ASSUME NEW e
  PROVE  FlattenSeq(<<e>>) = e
<1>1. <<e>> \in Seq({e}) /\ <<e>> # <<>> /\ Len(<<e>>) = 1 /\ <<e>>[1] = e
  OBVIOUS
<1>2. PICK f : IsFlatten(f, <<e>>, 1) /\ FlattenSeq(<<e>>) = f[1]
  BY <1>1, FlattenIs
<1>3. f[1] = e
  BY <1>1, <1>2 DEF IsFlatten
<1> QED
  BY <1>2, <1>3

\* What a concatenation holds.
LEMMA ConcatHolds ==
  ASSUME NEW T, NEW s \in Seq(T), NEW t \in Seq(T)
  PROVE  \A x : x \in ToSet(s \o t) <=> x \in ToSet(s) \/ x \in ToSet(t)
<1>1. PICK q : q = s \o t
  OBVIOUS
<1>2. /\ Len(s) \in Nat /\ Len(t) \in Nat /\ DOMAIN s = 1 .. Len(s) /\ DOMAIN t = 1 .. Len(t)
      /\ DOMAIN q = 1 .. Len(s) + Len(t)
      /\ \A i \in 1 .. Len(s) + Len(t) : q[i] = IF i <= Len(s) THEN s[i] ELSE t[i - Len(s)]
  BY <1>1, ConcatProperties, LenProperties
<1>3. ASSUME NEW i \in DOMAIN q PROVE q[i] \in ToSet(s) \/ q[i] \in ToSet(t)
  <2>1. CASE i <= Len(s)
    <3>1. i \in DOMAIN s /\ q[i] = s[i]
      BY <1>2, <2>1
    <3> QED
      BY <3>1 DEF ToSet
  <2>2. CASE ~(i <= Len(s))
    <3>1. i - Len(s) \in DOMAIN t /\ q[i] = t[i - Len(s)]
      BY <1>2, <2>2
    <3> QED
      BY <3>1 DEF ToSet
  <2> QED
    BY <2>1, <2>2
<1>4. ASSUME NEW i \in DOMAIN s PROVE s[i] \in ToSet(q)
  <2>1. i \in DOMAIN q /\ q[i] = s[i]
    BY <1>2
  <2> QED
    BY <2>1 DEF ToSet
<1>5. ASSUME NEW i \in DOMAIN t PROVE t[i] \in ToSet(q)
  <2>1. i + Len(s) \in DOMAIN q /\ ~(i + Len(s) <= Len(s)) /\ (i + Len(s)) - Len(s) = i
    BY <1>2
  <2>2. q[i + Len(s)] = t[i]
    BY <1>2, <2>1
  <2> QED
    BY <2>1, <2>2 DEF ToSet
<1>6. \A x : x \in ToSet(q) => x \in ToSet(s) \/ x \in ToSet(t)
  BY <1>3 DEF ToSet
<1>7. \A x : x \in ToSet(s) => x \in ToSet(q)
  <2>1. ToSet(s) = {s[i] : i \in DOMAIN s}
    BY DEF ToSet
  <2> QED
    BY <1>4, <2>1
<1>8. \A x : x \in ToSet(t) => x \in ToSet(q)
  <2>1. ToSet(t) = {t[i] : i \in DOMAIN t}
    BY DEF ToSet
  <2> QED
    BY <1>5, <2>1
<1> QED
  BY <1>1, <1>6, <1>7, <1>8

\* It is a sequence of what the sequences hold.
LEMMA FlattenHolds ==
  ASSUME NEW T, NEW s \in Seq(Seq(T))
  PROVE  /\ FlattenSeq(s) \in Seq(T)
         /\ \A x : x \in ToSet(FlattenSeq(s)) <=> \E i \in DOMAIN s : x \in ToSet(s[i])
<1>1. CASE s = <<>>
  <2>1. DOMAIN s = {} /\ FlattenSeq(s) = <<>> /\ ToSet(s) = {}
    BY <1>1, FlattenNone DEF ToSet
  <2>2. PICK r : r = FlattenSeq(s)
    OBVIOUS
  <2>3. r \in Seq(T) /\ ToSet(r) = {}
    BY <1>1, <2>1, <2>2
  <2> QED
    BY <2>1, <2>2, <2>3
<1>2. CASE s # <<>>
  <2>1. PICK f : IsFlatten(f, s, Len(s)) /\ FlattenSeq(s) = f[Len(s)]
    BY <1>2, FlattenIs
  <2>2. Len(s) \in Nat /\ Len(s) # 0 /\ DOMAIN s = 1 .. Len(s)
    BY <1>2, EmptySeq, LenProperties
  <2>3. PICK n : n = Len(s)
    OBVIOUS
  <2>4. f = [i \in 1 .. n |-> IF i = 1 THEN s[i] ELSE f[i - 1] \o s[i]]
    BY <2>1, <2>3 DEF IsFlatten
  <2> DEFINE P(m) == /\ f[m] \in Seq(T)
                     /\ \A x : x \in ToSet(f[m]) <=> \E i \in 1 .. m : x \in ToSet(s[i])
             S == {m \in Nat : m \in 1 .. n => P(m)}
  <2>5. 0 \in S
    OBVIOUS
  <2>6. ASSUME NEW m \in Nat, m \in S PROVE m + 1 \in S
    <3> SUFFICES ASSUME m + 1 \in 1 .. n PROVE P(m + 1)
      OBVIOUS
    <3>1. s[m + 1] \in Seq(T)
      BY <2>2, <2>3
    <3>2. CASE m = 0
      <4>1. f[1] = s[1]
        BY <2>4, <3>2
      <4>2. 1 .. 1 = {1} /\ m + 1 = 1
        BY <3>2
      <4> QED
        BY <3>1, <4>1, <4>2
    <3>3. CASE m # 0
      <4>1. m \in 1 .. n /\ m + 1 # 1 /\ (m + 1) - 1 = m
        BY <2>2, <2>3, <3>3
      <4>2. P(m)
        BY <2>6, <4>1
      <4>3. f[m + 1] = f[m] \o s[m + 1]
        BY <2>4, <4>1
      <4>4. f[m + 1] \in Seq(T)
        BY <3>1, <4>2, <4>3, ConcatProperties
      <4>5. \A x : x \in ToSet(f[m] \o s[m + 1]) <=> x \in ToSet(f[m]) \/ x \in ToSet(s[m + 1])
        BY <3>1, <4>2, ConcatHolds
      <4>6. 1 .. m + 1 = (1 .. m) \cup {m + 1}
        BY <2>6
      <4> QED
        BY <4>2, <4>3, <4>4, <4>5, <4>6
    <3> QED
      BY <3>2, <3>3
  <2> HIDE DEF S
  <2>7. \A m \in Nat : m \in S
    BY <2>5, <2>6, Induction
  <2>8. n \in 1 .. n
    BY <2>2, <2>3
  <2>9. P(n)
    BY <2>2, <2>3, <2>7, <2>8 DEF S
  <2> QED
    BY <2>1, <2>2, <2>3, <2>9
<1> QED
  BY <1>1, <1>2

\* Appending a sequence to the list appends it to the result.
LEMMA FlattenAppends ==
  ASSUME NEW T, NEW s \in Seq(Seq(T)), NEW e \in Seq(T)
  PROVE  FlattenSeq(Append(s, e)) = FlattenSeq(s) \o e
<1>1. PICK t : t = Append(s, e)
  OBVIOUS
<1>2. PICK n : n = Len(s)
  OBVIOUS
<1>3. /\ t \in Seq(Seq(T)) /\ n \in Nat /\ Len(t) = n + 1 /\ t # <<>>
      /\ t[n + 1] = e /\ \A i \in 1 .. n : t[i] = s[i]
  <2>1. PICK U : U = Seq(T)
    OBVIOUS
  <2>2. s \in Seq(U) /\ e \in U
    BY <2>1
  <2>3. /\ t \in Seq(U) /\ n \in Nat /\ Len(t) = n + 1 /\ t # <<>>
        /\ t[n + 1] = e /\ \A i \in 1 .. n : t[i] = s[i]
    BY ONLY <1>1, <1>2, <2>2, AppendProperties, LenProperties
  <2> QED
    BY <2>1, <2>3
<1>4. PICK f : IsFlatten(f, t, n + 1) /\ FlattenSeq(t) = f[n + 1]
  BY <1>3, FlattenIs
<1>5. f = [i \in 1 .. n + 1 |-> IF i = 1 THEN t[i] ELSE f[i - 1] \o t[i]]
  BY <1>4 DEF IsFlatten
<1>6. CASE s = <<>>
  <2>1. n = 0
    BY <1>2, <1>6
  <2>2. f[1] = e
    BY <1>3, <1>5, <2>1
  <2>3. FlattenSeq(s) = <<>> /\ <<>> \o e = e
    BY <1>6, FlattenNone, ConcatEmptySeq
  <2> QED
    BY <1>1, <1>4, <2>1, <2>2, <2>3
<1>7. CASE s # <<>>
  <2>1. n # 0
    BY <1>2, <1>7, EmptySeq
  <2>2. PICK g : IsFlatten(g, s, n) /\ FlattenSeq(s) = g[n]
    BY <1>2, <1>7, FlattenIs
  <2>3. g = [i \in 1 .. n |-> IF i = 1 THEN s[i] ELSE g[i - 1] \o s[i]]
    BY <2>2 DEF IsFlatten
  <2> DEFINE S == {m \in Nat : m \in 1 .. n => f[m] = g[m]}
  <2>4. 0 \in S
    OBVIOUS
  <2>5. ASSUME NEW m \in Nat, m \in S PROVE m + 1 \in S
    <3> SUFFICES ASSUME m + 1 \in 1 .. n PROVE f[m + 1] = g[m + 1]
      OBVIOUS
    <3>1. m + 1 \in 1 .. n + 1 /\ t[m + 1] = s[m + 1] /\ (m + 1) - 1 = m
      BY <1>3
    <3>2. m + 1 # 1 => f[m] = g[m]
      BY <1>3, <2>5
    <3>3. f[m + 1] = IF m + 1 = 1 THEN t[m + 1] ELSE f[m] \o t[m + 1]
      BY <1>5, <3>1
    <3>4. g[m + 1] = IF m + 1 = 1 THEN s[m + 1] ELSE g[m] \o s[m + 1]
      BY <2>3, <3>1
    <3> QED
      BY <3>1, <3>2, <3>3, <3>4
  <2> HIDE DEF S
  <2>6. \A m \in Nat : m \in S
    BY <2>4, <2>5, Induction
  <2>7. f[n] = g[n]
    BY <1>3, <2>1, <2>6 DEF S
  <2>8. n + 1 \in 1 .. n + 1 /\ n + 1 # 1 /\ (n + 1) - 1 = n
    BY <1>3, <2>1
  <2>9. f[n + 1] = f[n] \o e
    BY <1>3, <1>5, <2>8
  <2> QED
    BY <1>1, <1>4, <2>2, <2>7, <2>9
<1> QED
  BY <1>6, <1>7

-----------------------------------------------------------------------------
(* Walks: what is reached from a class by way of the lists up[c].          *)

\* Every step up goes down in height.
Falls(C, up, N, h) ==
  /\ N \in Nat /\ h \in [C -> 0 .. N]
  /\ \A c \in C : up[c] \in Seq(C) /\ \A i \in DOMAIN up[c] : h[up[c][i]] < h[c]

IsWalk(f, C, up) == f = [c \in C |-> <<c>> \o Each(f, up[c])]

LEMMA EachDependsOn ==
  ASSUME NEW cs, NEW f, NEW g, \A i \in DOMAIN cs : f[cs[i]] = g[cs[i]]
  PROVE  Each(f, cs) = Each(g, cs)
<1>1. [i \in DOMAIN cs |-> f[cs[i]]] = [i \in DOMAIN cs |-> g[cs[i]]]
  OBVIOUS
<1> QED
  BY <1>1 DEF Each

LEMMA EachOfNone == ASSUME NEW f PROVE Each(f, <<>>) = <<>>
<1>1. [i \in DOMAIN <<>> |-> f[<<>>[i]]] = <<>>
  OBVIOUS
<1> QED
  BY <1>1, FlattenNone DEF Each

LEMMA EachOfOne == ASSUME NEW f, NEW b PROVE Each(f, <<b>>) = f[b]
<1>1. [i \in DOMAIN <<b>> |-> f[<<b>>[i]]] = <<f[b]>>
  OBVIOUS
<1> QED
  BY <1>1, FlattenOne DEF Each

\* A set that holds a class when it holds what is above it holds every class.
LEMMA ClassInduction ==
  ASSUME NEW C, NEW up, NEW N, NEW h, Falls(C, up, N, h), NEW S,
         \A c \in C : (\A i \in DOMAIN up[c] : up[c][i] \in S) => c \in S
  PROVE  C \subseteq S
<1> SUFFICES ASSUME NEW T, T = C \ S, T # {} PROVE FALSE
  OBVIOUS
<1> DEFINE H == {h[c] : c \in T}
<1>1. H \subseteq Nat /\ H # {}
  BY DEF Falls
<1>2. PICK x \in H : \A y \in H : x <= y
  BY <1>1, LeastExists
<1>3. PICK c \in T : h[c] = x
  OBVIOUS
<1>4. ASSUME NEW i \in DOMAIN up[c] PROVE up[c][i] \in S
  <2>1. up[c][i] \in C /\ h[up[c][i]] < h[c] /\ h[up[c][i]] \in Nat /\ h[c] \in Nat
    BY <1>4 DEF Falls
  <2>2. ASSUME up[c][i] \in T PROVE FALSE
    <3>1. h[up[c][i]] \in H
      BY <2>2
    <3>2. x <= h[up[c][i]]
      BY <1>2, <3>1
    <3> QED
      BY <1>3, <2>1, <3>2
  <2> QED
    BY <2>1, <2>2
<1> QED
  BY <1>3, <1>4

LEMMA WalkExists ==
  ASSUME NEW C, NEW up, NEW N, NEW h, Falls(C, up, N, h)
  PROVE  \E f : IsWalk(f, C, up)
<1> DEFINE Good(f, n) == /\ DOMAIN f = C /\ f = [c \in C |-> f[c]]
                         /\ \A c \in C : h[c] < n => f[c] = <<c>> \o Each(f, up[c])
           S == {n \in Nat : \E f : Good(f, n)}
<1>1. 0 \in S
  <2> DEFINE f == [c \in C |-> <<>>]
  <2>1. Good(f, 0)
    BY DEF Falls
  <2> QED
    BY <2>1
<1>2. ASSUME NEW n \in Nat, n \in S PROVE n + 1 \in S
  <2>1. PICK f : Good(f, n)
    BY <1>2
  <2> DEFINE g == [c \in C |-> IF h[c] < n THEN f[c] ELSE <<c>> \o Each(f, up[c])]
  <2>2. ASSUME NEW c \in C PROVE g[c] = <<c>> \o Each(f, up[c])
    BY <2>1
  <2>3. ASSUME NEW c \in C, h[c] < n + 1 PROVE g[c] = <<c>> \o Each(g, up[c])
    <3>1. ASSUME NEW i \in DOMAIN up[c] PROVE g[up[c][i]] = f[up[c][i]]
      <4>1. up[c][i] \in C /\ h[up[c][i]] < h[c] /\ h[up[c][i]] \in Nat /\ h[c] \in Nat
        BY <3>1 DEF Falls
      <4>2. h[up[c][i]] < n
        BY <2>3, <4>1
      <4> QED
        BY <4>1, <4>2
    <3>2. Each(f, up[c]) = Each(g, up[c])
      <4> HIDE DEF g
      <4> QED
        BY <3>1, EachDependsOn
    <3> QED
      BY <2>2, <3>2
  <2>4. DOMAIN g = C /\ g = [c \in C |-> g[c]]
    OBVIOUS
  <2>5. Good(g, n + 1)
    <3> HIDE DEF g
    <3> QED
      BY <2>3, <2>4
  <2> HIDE DEF g, Good
  <2> QED
    BY <2>5
<1> HIDE DEF S
<1>3. \A n \in Nat : n \in S
  BY <1>1, <1>2, Induction
<1>4. N + 1 \in S /\ \A c \in C : h[c] < N + 1
  BY <1>3 DEF Falls
<1>5. PICK f : Good(f, N + 1)
  BY <1>4 DEF S
<1>6. \A c \in C : f[c] = <<c>> \o Each(f, up[c])
  BY <1>4, <1>5
<1>7. IsWalk(f, C, up)
  BY <1>5, <1>6 DEF IsWalk
<1> QED
  BY <1>7

\* There is one walk only.
LEMMA WalkIsUnique ==
  ASSUME NEW C, NEW up, NEW N, NEW h, Falls(C, up, N, h),
         NEW f, IsWalk(f, C, up), NEW g, IsWalk(g, C, up)
  PROVE  f = g
<1> DEFINE S == {c \in C : f[c] = g[c]}
<1>1. /\ f = [c \in C |-> <<c>> \o Each(f, up[c])]
      /\ g = [c \in C |-> <<c>> \o Each(g, up[c])]
  BY DEF IsWalk
<1>2. ASSUME NEW c \in C, \A i \in DOMAIN up[c] : up[c][i] \in S PROVE c \in S
  <2>1. Each(f, up[c]) = Each(g, up[c])
    BY <1>2, EachDependsOn
  <2>2. f[c] = <<c>> \o Each(f, up[c]) /\ g[c] = <<c>> \o Each(g, up[c])
    BY <1>1
  <2> QED
    BY <2>1, <2>2
<1> HIDE DEF S
<1>3. C \subseteq S
  BY <1>2, ClassInduction
<1>4. \A c \in C : f[c] = g[c]
  BY <1>3 DEF S
<1>5. DOMAIN f = C /\ DOMAIN g = C /\ f = [c \in C |-> f[c]] /\ g = [c \in C |-> g[c]]
  BY <1>1
<1> QED
  BY <1>4, <1>5

Reached(f, up, c) == {c} \cup UNION {ToSet(f[up[c][i]]) : i \in DOMAIN up[c]}

\* A walk from c is a list of classes: c and those of the walks from above it.
LEMMA WalkHolds ==
  ASSUME NEW C, NEW up, NEW N, NEW h, Falls(C, up, N, h), NEW f, IsWalk(f, C, up)
  PROVE  \A c \in C : f[c] \in Seq(C) /\ ToSet(f[c]) = Reached(f, up, c)
<1>1. \A c \in C : f[c] = <<c>> \o Each(f, up[c])
  BY DEF IsWalk
<1> DEFINE S == {c \in C : f[c] \in Seq(C)}
<1>2. ASSUME NEW c \in C, \A i \in DOMAIN up[c] : up[c][i] \in S
      PROVE  f[c] \in Seq(C) /\ ToSet(f[c]) = Reached(f, up, c)
  <2>1. PICK s : s = [i \in DOMAIN up[c] |-> f[up[c][i]]]
    OBVIOUS
  <2>2. s \in Seq(Seq(C)) /\ DOMAIN s = DOMAIN up[c] /\ \A i \in DOMAIN s : s[i] = f[up[c][i]]
    <3>1. up[c] \in Seq(C)
      BY DEF Falls
    <3>2. PICK n \in Nat : DOMAIN up[c] = 1 .. n
      BY <3>1, LenProperties
    <3>3. s \in [1 .. n -> Seq(C)]
      BY <1>2, <2>1, <3>2
    <3>4. s \in Seq(Seq(C))
      BY <3>3, SeqDef
    <3> QED
      BY <2>1, <3>4
  <2>3. Each(f, up[c]) = FlattenSeq(s)
    BY <2>1 DEF Each
  <2>4. PICK r : r = FlattenSeq(s)
    OBVIOUS
  <2>5. r \in Seq(C) /\ \A x : x \in ToSet(r) <=> \E i \in DOMAIN s : x \in ToSet(s[i])
    BY <2>2, <2>4, FlattenHolds
  <2>6. <<c>> \in Seq(C) /\ \A x : x \in ToSet(<<c>>) <=> x = c
    BY DEF ToSet
  <2>7. f[c] = <<c>> \o r
    BY <1>1, <2>3, <2>4
  <2>8. \A x : x \in ToSet(<<c>> \o r) <=> x \in ToSet(<<c>>) \/ x \in ToSet(r)
    BY <2>5, <2>6, ConcatHolds
  <2>9. <<c>> \o r \in Seq(C)
    BY <2>5, <2>6, ConcatProperties
  <2>10. \A x : x \in ToSet(f[c]) <=> x = c \/ \E i \in DOMAIN up[c] : x \in ToSet(f[up[c][i]])
    BY <2>2, <2>5, <2>6, <2>7, <2>8
  <2>11. ToSet(f[c]) = Reached(f, up, c)
    BY <2>10 DEF Reached
  <2> QED
    BY <2>7, <2>9, <2>11
<1>3. \A c \in C : (\A i \in DOMAIN up[c] : up[c][i] \in S) => c \in S
  BY <1>2
<1>4. C \subseteq S
  <2> HIDE DEF S
  <2> QED
    BY <1>3, ClassInduction
<1>5. ASSUME NEW c \in C PROVE \A i \in DOMAIN up[c] : up[c][i] \in S
  BY <1>4 DEF Falls
<1> QED
  BY <1>2, <1>5

-----------------------------------------------------------------------------
(* Programs in which fields keep their place, and tests find relatives.    *)

\* What a class extends and implements are classes, and none is above itself.
Layered(p) ==
  \E N \in Nat : \E h \in [DOMAIN p.base -> 0 .. N] : \A c \in DOMAIN p.base :
    /\ p.base[c] # None => p.base[c] \in DOMAIN p.base /\ h[p.base[c]] < h[c]
    /\ p.interfaces[c] \in Seq(DOMAIN p.base)
    /\ \A i \in DOMAIN p.interfaces[c] : h[p.interfaces[c][i]] < h[c]
    /\ p.fields[c] \in Nat

\* Each class is declared once, after the one it extends.
BasesComeFirst(p) ==
  /\ \A i, j \in DOMAIN p.order : p.order[i] = p.order[j] => i = j
  /\ \A c \in DOMAIN p.base : p.base[c] # None =>
       \E i, j \in DOMAIN p.order : i < j /\ p.order[i] = p.base[c] /\ p.order[j] = c

\* T is the set of the classes with a table: those that ask for one and those that
\* extend one of them.
IsTabled(p, T) ==
  /\ T \subseteq DOMAIN p.base
  /\ \A c \in DOMAIN p.base :
       c \in T <=> \/ p.base[c] \in T
                   \/ p.interfaces[c] # <<>>
                   \/ \E d \in Range(p.methods[c]) : d.abstract \/ d.virtual \/ d.override

\* A class with a table extends none without.
ExtendsTabled(p, T) == \A c \in T : p.base[c] # None => p.base[c] \in T

\* An interface that some class implements has a table.
InterfacesTabled(p, T) ==
  \A c \in DOMAIN p.base : \A i \in DOMAIN p.interfaces[c] : p.interfaces[c][i] \in T

\* Interfaces extend one another by their lists only.
PlainInterfaces(p) ==
  \A c \in DOMAIN p.base : \A i \in DOMAIN p.interfaces[c] :
    p.base[p.interfaces[c][i]] = None

\* They have no fields.
BareInterfaces(p) ==
  \A c \in DOMAIN p.base : \A i \in DOMAIN p.interfaces[c] :
    p.fields[p.interfaces[c][i]] = 0

Orderly(p) == WellFormed(p) /\ Layered(p) /\ BasesComeFirst(p)

KeepsFields(p) ==
  /\ Orderly(p) /\ PlainInterfaces(p) /\ BareInterfaces(p)
  /\ \E T \in SUBSET DOMAIN p.base : IsTabled(p, T) /\ ExtendsTabled(p, T)

\* The body comes after the classes.
FindsRelatives(p) ==
  /\ Orderly(p) /\ PlainInterfaces(p)
  /\ p.order # <<>> /\ p.order[Len(p.order)] = Body
  /\ \E T \in SUBSET DOMAIN p.base :
       IsTabled(p, T) /\ ExtendsTabled(p, T) /\ InterfacesTabled(p, T)

-----------------------------------------------------------------------------
(* The chains of bases, and layouts.                                       *)

Bases == [c \in Classes |-> Base(c)]

IsChain(f, links) == f = [c \in Classes |-> <<c>> \o Each(f, links[c].base)]
IsPreOrder(f, links) ==
  f = [c \in Classes |-> <<c>> \o Each(f, links[c].base \o links[c].interfaces)]

LEMMA BasesFall ==
  ASSUME NEW N \in Nat, NEW h \in [Classes -> 0 .. N], None \notin Classes,
         \A c \in Classes : program.base[c] # None =>
                              program.base[c] \in Classes /\ h[program.base[c]] < h[c]
  PROVE  Falls(Classes, Bases, N, h)
<1>1. ASSUME NEW c \in Classes
      PROVE  Bases[c] \in Seq(Classes) /\ \A i \in DOMAIN Bases[c] : h[Bases[c][i]] < h[c]
  <2>1. CASE program.base[c] = None
    <3>1. Bases[c] = <<>> /\ DOMAIN Bases[c] = {}
      BY <2>1 DEF Bases, Base
    <3> QED
      BY <3>1, EmptySeq
  <2>2. CASE program.base[c] # None
    <3>1. Bases[c] = <<program.base[c]>> /\ program.base[c] \in Classes
      BY <2>2 DEF Bases, Base
    <3>2. DOMAIN Bases[c] = {1} /\ Bases[c][1] = program.base[c]
      BY <3>1
    <3> QED
      BY <2>2, <3>1, <3>2
  <2> QED
    BY <2>1, <2>2
<1> QED
  BY <1>1 DEF Falls

LEMMA ChainIs ==
  ASSUME NEW N, NEW h, Falls(Classes, Bases, N, h), NEW links,
         \A c \in Classes : links[c].base = Base(c)
  PROVE  IsWalk(Chain(links), Classes, Bases)
<1>1. \A f : IsWalk(f, Classes, Bases) <=> IsChain(f, links)
  <2> SUFFICES ASSUME NEW f PROVE IsWalk(f, Classes, Bases) <=> IsChain(f, links)
    OBVIOUS
  <2>1. [c \in Classes |-> <<c>> \o Each(f, Bases[c])]
          = [c \in Classes |-> <<c>> \o Each(f, links[c].base)]
    BY DEF Bases
  <2> QED
    BY <2>1 DEF IsWalk, IsChain
<1>2. \E f : IsChain(f, links)
  BY <1>1, WalkExists
<1> DEFINE chain == CHOOSE f : IsChain(f, links)
<1>3. IsChain(chain, links)
  BY <1>2
<1>4. Chain(links) = chain
  BY Zenon DEF Chain, IsChain
<1> QED
  BY <1>1, <1>3, <1>4

\* Whatever is known of the links, the chains are the same.
LEMMA ChainsAgree ==
  ASSUME NEW N, NEW h, Falls(Classes, Bases, N, h), NEW links,
         \A c \in Classes : links[c].base = Base(c)
  PROVE  Chain(links) = Chain(Everything)
<1>1. \A c \in Classes : Everything[c].base = Base(c)
  BY DEF Everything, Typed
<1>2. IsWalk(Chain(links), Classes, Bases) /\ IsWalk(Chain(Everything), Classes, Bases)
  BY <1>1, ChainIs
<1> QED
  BY <1>2, WalkIsUnique

LEMMA ChainOf ==
  ASSUME NEW N, NEW h, Falls(Classes, Bases, N, h), NEW c \in Classes
  PROVE  /\ Chain(Everything)[c] \in Seq(Classes)
         /\ program.base[c] = None => Chain(Everything)[c] = <<c>>
         /\ program.base[c] # None =>
              Chain(Everything)[c] = <<c>> \o Chain(Everything)[program.base[c]]
         /\ program.base[c] # None => program.base[c] \in Classes
<1>1. \A d \in Classes : Everything[d].base = Base(d)
  BY DEF Everything, Typed
<1>2. PICK f : f = Chain(Everything)
  OBVIOUS
<1>3. IsWalk(f, Classes, Bases)
  BY <1>1, <1>2, ChainIs
<1>4. f[c] = <<c>> \o Each(f, Base(c))
  BY <1>3 DEF IsWalk, Bases
<1>5. f[c] \in Seq(Classes)
  BY <1>3, WalkHolds
<1>6. ASSUME program.base[c] = None PROVE f[c] = <<c>>
  <2>1. Base(c) = <<>>
    BY <1>6 DEF Base
  <2>2. Each(f, <<>>) = <<>>
    BY EachOfNone
  <2>3. <<c>> \o <<>> = <<c>>
    OBVIOUS
  <2> QED
    BY <1>4, <2>1, <2>2, <2>3
<1>7. ASSUME program.base[c] # None
      PROVE  f[c] = <<c>> \o f[program.base[c]] /\ program.base[c] \in Classes
  <2>1. PICK b : b = program.base[c]
    OBVIOUS
  <2>2. Base(c) = <<b>>
    BY <1>7, <2>1 DEF Base
  <2>3. Each(f, <<b>>) = f[b]
    BY EachOfOne
  <2>4. b \in Classes
    <3>1. Bases[c] \in Seq(Classes) /\ Bases[c] = <<b>>
      BY <2>2 DEF Falls, Bases
    <3> QED
      BY <3>1
  <2> QED
    BY <1>4, <2>1, <2>2, <2>3, <2>4
<1> QED
  BY <1>2, <1>5, <1>6, <1>7

FieldsAlong(chain) == FlattenSeq([i \in DOMAIN chain |-> Fields(chain[i])])
FieldsOf(c) == FieldsAlong(Reverse(Chain(Everything)[c]))
LayoutOf(T, c) == (IF c \in T THEN <<Vptr>> ELSE <<>>) \o FieldsOf(c)

Places == {Vptr} \cup (Classes \X Nat)

LEMMA FieldsAreListed ==
  ASSUME NEW c \in Classes, program.fields[c] \in Nat
  PROVE  Fields(c) \in Seq(Places) /\ (program.fields[c] = 0 => Fields(c) = <<>>)
<1>1. Fields(c) \in [1 .. program.fields[c] -> Places]
  BY DEF Fields, Places
<1>2. Fields(c) \in Seq(Places)
  BY <1>1, SeqDef
<1>3. program.fields[c] = 0 => DOMAIN Fields(c) = {}
  BY DEF Fields
<1> QED
  BY <1>2, <1>3, EmptySeq, LenProperties

LEMMA ReverseLast ==
  ASSUME NEW C, NEW c \in C, NEW s \in Seq(C)
  PROVE  /\ Reverse(<<c>> \o s) = Append(Reverse(s), c)
         /\ Reverse(s) \in Seq(C) /\ Reverse(<<c>>) = <<c>>
<1>1. PICK n : n = Len(s)
  OBVIOUS
<1>2. n \in Nat /\ DOMAIN s = 1 .. n
  BY <1>1, LenProperties
<1>3. PICK t : t = <<c>> \o s
  OBVIOUS
<1>4. /\ t \in Seq(C) /\ Len(t) = n + 1
      /\ t[1] = c /\ \A i \in 1 .. n : t[i + 1] = s[i]
  <2>1. <<c>> \in Seq(C) /\ Len(<<c>>) = 1 /\ <<c>>[1] = c
    OBVIOUS
  <2> QED
    BY <1>1, <1>2, <1>3, <2>1, ConcatProperties
<1>5. PICK r : r = Reverse(s)
  OBVIOUS
<1>6. r \in Seq(C) /\ Len(r) = n /\ \A i \in 1 .. n : r[i] = s[n - i + 1]
  <2>1. r = [i \in 1 .. n |-> s[n - i + 1]]
    BY <1>1, <1>5 DEF Reverse
  <2>2. \A i \in 1 .. n : n - i + 1 \in 1 .. n /\ s[n - i + 1] \in C
    BY <1>2
  <2>3. r \in [1 .. n -> C]
    BY <2>1, <2>2
  <2>4. r \in Seq(C)
    BY <1>2, <2>3, SeqDef
  <2>5. DOMAIN r = 1 .. n
    BY <2>1
  <2> QED
    BY <1>2, <2>1, <2>4, <2>5, LenProperties
<1>7. PICK q : q = Append(r, c)
  OBVIOUS
<1>8. /\ q \in Seq(C) /\ DOMAIN q = 1 .. n + 1 /\ q[n + 1] = c
      /\ \A i \in 1 .. n : q[i] = r[i]
  BY <1>6, <1>7, AppendProperties, LenProperties
<1>9. ASSUME NEW i \in 1 .. n + 1 PROVE q[i] = t[(n + 1) - i + 1]
  <2>1. CASE i = n + 1
    <3>1. (n + 1) - i + 1 = 1
      BY <1>2, <2>1
    <3> QED
      BY <1>4, <1>8, <2>1, <3>1
  <2>2. CASE i # n + 1
    <3>1. i \in 1 .. n /\ n - i + 1 \in 1 .. n /\ (n + 1) - i + 1 = (n - i + 1) + 1
      BY <1>2, <2>2
    <3>2. t[(n - i + 1) + 1] = s[n - i + 1]
      BY <1>4, <3>1
    <3> QED
      BY <1>6, <1>8, <3>1, <3>2
  <2> QED
    BY <2>1, <2>2
<1>10. Reverse(t) = [i \in 1 .. n + 1 |-> t[(n + 1) - i + 1]]
  BY <1>4 DEF Reverse
<1>11. q = [i \in 1 .. n + 1 |-> q[i]]
  BY <1>8
<1>12. Reverse(t) = q
  BY <1>9, <1>10, <1>11
<1>13. Reverse(<<c>>) = <<c>>
  BY DEF Reverse
<1> QED
  BY <1>3, <1>5, <1>6, <1>7, <1>12, <1>13

LEMMA FieldsAlongAppend ==
  ASSUME NEW s \in Seq(Classes), NEW c \in Classes, \A d \in Classes : program.fields[d] \in Nat
  PROVE  /\ FieldsAlong(Append(s, c)) = FieldsAlong(s) \o Fields(c)
         /\ FieldsAlong(s) \in Seq(Places)
<1>1. PICK n : n = Len(s)
  OBVIOUS
<1>2. n \in Nat /\ DOMAIN s = 1 .. n
  BY <1>1, LenProperties
<1>3. PICK U : U = Seq(Places)
  OBVIOUS
<1>4. \A d \in Classes : Fields(d) \in U
  BY <1>3, FieldsAreListed
<1>5. PICK f : f = [i \in DOMAIN s |-> Fields(s[i])]
  OBVIOUS
<1>6. f \in Seq(U) /\ Len(f) = n
  <2>1. f \in [1 .. n -> U]
    BY <1>2, <1>4, <1>5
  <2>2. f \in Seq(U)
    BY <1>2, <2>1, SeqDef
  <2> QED
    BY <1>2, <2>1, <2>2, LenProperties
<1>7. [i \in DOMAIN Append(s, c) |-> Fields(Append(s, c)[i])] = Append(f, Fields(c))
  <2>1. PICK t : t = Append(s, c)
    OBVIOUS
  <2>2. DOMAIN t = 1 .. n + 1 /\ t[n + 1] = c /\ \A i \in 1 .. n : t[i] = s[i]
    BY <1>1, <1>2, <2>1, AppendProperties, LenProperties
  <2>3. PICK g : g = Append(f, Fields(c))
    OBVIOUS
  <2>4. /\ g \in Seq(U) /\ DOMAIN g = 1 .. n + 1 /\ g[n + 1] = Fields(c)
        /\ \A i \in 1 .. n : g[i] = f[i]
    BY <1>2, <1>4, <1>6, <2>3, AppendProperties, LenProperties
  <2>5. ASSUME NEW i \in 1 .. n + 1 PROVE g[i] = Fields(t[i])
    <3>1. CASE i = n + 1
      BY <2>2, <2>4, <3>1
    <3>2. CASE i # n + 1
      <4>1. i \in 1 .. n
        BY <1>2, <3>2
      <4> QED
        BY <1>2, <1>5, <2>2, <2>4, <4>1
    <3> QED
      BY <3>1, <3>2
  <2>6. g = [i \in 1 .. n + 1 |-> g[i]]
    BY <2>4
  <2>7. g = [i \in DOMAIN t |-> Fields(t[i])]
    BY <2>2, <2>5, <2>6
  <2> QED
    BY <2>1, <2>3, <2>7
<1>8. f \in Seq(Seq(Places)) /\ Fields(c) \in Seq(Places)
  BY <1>3, <1>4, <1>6
<1>9. FlattenSeq(Append(f, Fields(c))) = FlattenSeq(f) \o Fields(c)
  BY <1>8, FlattenAppends
<1>10. FlattenSeq(f) \in Seq(Places)
  BY <1>8, FlattenHolds
<1> QED
  BY <1>5, <1>7, <1>9, <1>10 DEF FieldsAlong

\* The fields of a class are those of the class it extends and then its own.
LEMMA FieldsAreInherited ==
  ASSUME NEW N, NEW h, Falls(Classes, Bases, N, h), NEW c \in Classes,
         \A d \in Classes : program.fields[d] \in Nat
  PROVE  /\ FieldsOf(c) \in Seq(Places)
         /\ program.base[c] = None => FieldsOf(c) = Fields(c)
         /\ program.base[c] # None => FieldsOf(c) = FieldsOf(program.base[c]) \o Fields(c)
<1>1. PICK f : f = Chain(Everything)
  OBVIOUS
<1>2. \A d \in Classes : f[d] \in Seq(Classes)
  BY <1>1, ChainOf
<1>3. Reverse(f[c]) \in Seq(Classes)
  BY <1>2, ReverseLast
<1>4. FieldsOf(c) \in Seq(Places)
  BY <1>1, <1>3, FieldsAlongAppend DEF FieldsOf
<1>5. ASSUME program.base[c] = None PROVE FieldsOf(c) = Fields(c)
  <2>1. Reverse(f[c]) = <<c>>
    BY <1>1, <1>2, <1>5, ChainOf, ReverseLast
  <2>2. [i \in DOMAIN <<c>> |-> Fields(<<c>>[i])] = <<Fields(c)>>
    OBVIOUS
  <2>3. FieldsAlong(<<c>>) = Fields(c)
    BY <2>2, FlattenOne DEF FieldsAlong
  <2> QED
    BY <1>1, <2>1, <2>3 DEF FieldsOf
<1>6. ASSUME program.base[c] # None PROVE FieldsOf(c) = FieldsOf(program.base[c]) \o Fields(c)
  <2>1. PICK b : b = program.base[c]
    OBVIOUS
  <2>2. b \in Classes /\ f[c] = <<c>> \o f[b]
    BY <1>1, <1>6, <2>1, ChainOf
  <2>3. Reverse(f[c]) = Append(Reverse(f[b]), c) /\ Reverse(f[b]) \in Seq(Classes)
    BY <1>2, <2>2, ReverseLast
  <2>4. FieldsAlong(Append(Reverse(f[b]), c)) = FieldsAlong(Reverse(f[b])) \o Fields(c)
    BY <2>3, FieldsAlongAppend
  <2> QED
    BY <1>1, <2>1, <2>3, <2>4 DEF FieldsOf
<1> QED
  BY <1>4, <1>5, <1>6

-----------------------------------------------------------------------------
(* The fields that two classes have in the same places.                    *)

\* What is a field in d's layout is in the same place of e's.
Fits(d, e) ==
  \A k \in DOMAIN d : d[k] # Vptr => k \in DOMAIN e /\ e[k] = d[k]

LEMMA FitsIsTransitive ==
  ASSUME NEW d, NEW e, NEW f, Fits(d, e), Fits(e, f)
  PROVE  Fits(d, f)
BY DEF Fits

LEMMA PrefixFits ==
  ASSUME NEW T, NEW v \in Seq(T), NEW s \in Seq(T), NEW t \in Seq(T)
  PROVE  Fits(v \o s, v \o (s \o t))
<1>1. PICK q : q = v \o s
  OBVIOUS
<1>2. q \in Seq(T) /\ v \o (s \o t) = q \o t
  BY <1>1, ConcatProperties, ConcatAssociative
<1>3. \A k \in DOMAIN q : k \in DOMAIN (q \o t) /\ (q \o t)[k] = q[k]
  BY <1>2, ConcatProperties, LenProperties
<1> QED
  BY <1>1, <1>2, <1>3 DEF Fits

\* A class keeps the fields of what it extends and of what it implements in place.
LEMMA AboveFits ==
  ASSUME NEW N, NEW h, Falls(Classes, Bases, N, h), NEW T, ExtendsTabled(program, T),
         IsTabled(program, T), PlainInterfaces(program), BareInterfaces(program),
         \A d \in Classes : program.fields[d] \in Nat /\ program.interfaces[d] \in Seq(Classes),
         NEW c \in Classes
  PROVE  /\ program.base[c] # None => Fits(LayoutOf(T, program.base[c]), LayoutOf(T, c))
         /\ \A i \in DOMAIN program.interfaces[c] :
              Fits(LayoutOf(T, program.interfaces[c][i]), LayoutOf(T, c))
<1> DEFINE V(d) == IF d \in T THEN <<Vptr>> ELSE <<>>
<1>1. \A d \in Classes : V(d) \in Seq(Places)
  <2>1. <<Vptr>> \in Seq(Places) /\ <<>> \in Seq(Places)
    <3>1. Vptr \in Places
      BY DEF Places
    <3> HIDE DEF Places
    <3> QED
      BY <3>1
  <2> QED
    BY <2>1
<1>2. ASSUME program.base[c] # None PROVE Fits(LayoutOf(T, program.base[c]), LayoutOf(T, c))
  <2>1. PICK b : b = program.base[c]
    OBVIOUS
  <2>2. b \in Classes
    BY <1>2, <2>1, ChainOf
  <2>3. b \in T <=> c \in T
    BY <1>2, <2>1 DEF IsTabled, ExtendsTabled, Classes
  <2>4. V(b) = V(c)
    BY <2>3
  <2>5. FieldsOf(c) = FieldsOf(b) \o Fields(c)
    BY <1>2, <2>1, FieldsAreInherited
  <2>6. FieldsOf(b) \in Seq(Places) /\ Fields(c) \in Seq(Places)
    BY <2>2, FieldsAreInherited, FieldsAreListed
  <2>7. LayoutOf(T, b) = V(c) \o FieldsOf(b) /\ LayoutOf(T, c) = V(c) \o (FieldsOf(b) \o Fields(c))
    BY <2>4, <2>5 DEF LayoutOf
  <2> HIDE DEF V
  <2>8. V(c) \in Seq(Places)
    BY <1>1
  <2> QED
    BY <2>1, <2>6, <2>7, <2>8, PrefixFits
<1>3. ASSUME NEW i \in DOMAIN program.interfaces[c]
      PROVE  Fits(LayoutOf(T, program.interfaces[c][i]), LayoutOf(T, c))
  <2>1. PICK d : d = program.interfaces[c][i]
    OBVIOUS
  <2>2. d \in Classes /\ program.fields[d] = 0 /\ program.base[d] = None
    BY <1>3, <2>1 DEF PlainInterfaces, BareInterfaces, Classes
  <2>3. Fields(d) = <<>> /\ FieldsOf(d) = Fields(d)
    BY <2>2, FieldsAreListed, FieldsAreInherited
  <2>4. LayoutOf(T, d) = <<Vptr>> \/ LayoutOf(T, d) = <<>>
    BY <2>3 DEF LayoutOf
  <2>5. \A k \in DOMAIN LayoutOf(T, d) : LayoutOf(T, d)[k] = Vptr
    BY <2>4
  <2> QED
    BY <2>1, <2>5 DEF Fits
<1> QED
  BY <1>2, <1>3

\* So does every class that is reached by steps up, of which some may be unknown.
LEMMA ReachedFits ==
  ASSUME NEW up, NEW N, NEW h, Falls(Classes, up, N, h), NEW f, IsWalk(f, Classes, up), NEW L,
         \A c \in Classes : \A i \in DOMAIN up[c] : Fits(L[up[c][i]], L[c])
  PROVE  \A c \in Classes : \A d \in ToSet(f[c]) : Fits(L[d], L[c])
<1> DEFINE S == {c \in Classes : \A d \in ToSet(f[c]) : Fits(L[d], L[c])}
<1>0. \A c \in Classes : \A x :
        x \in ToSet(f[c]) <=> x = c \/ \E i \in DOMAIN up[c] : x \in ToSet(f[up[c][i]])
  BY WalkHolds DEF Reached
<1>1. ASSUME NEW c \in Classes, \A i \in DOMAIN up[c] : up[c][i] \in S PROVE c \in S
  <2>1. ASSUME NEW d \in ToSet(f[c]) PROVE Fits(L[d], L[c])
    <3>1. CASE d = c
      BY <3>1 DEF Fits
    <3>2. CASE d # c
      <4>1. PICK i \in DOMAIN up[c] : d \in ToSet(f[up[c][i]])
        BY <1>0, <3>2
      <4>2. Fits(L[d], L[up[c][i]]) /\ Fits(L[up[c][i]], L[c])
        BY <1>1, <4>1
      <4> QED
        BY <4>2, FitsIsTransitive
    <3> QED
      BY <3>1, <3>2
  <2> QED
    BY <2>1
<1> HIDE DEF S
<1>2. Classes \subseteq S
  BY <1>1, ClassInduction
<1> QED
  BY <1>2 DEF S

LEMMA LayoutsStay ==
  ASSUME NEW T, NEW c, program' = program
  PROVE  LayoutOf(T, c)' = LayoutOf(T, c)
<1>1. Classes' = Classes
  BY DEF Classes
<1>2. Everything' = Everything
  BY <1>1 DEF Everything, Typed, Base
<1>3. Chain(Everything)' = Chain(Everything)
  BY <1>1, <1>2 DEF Chain
<1>4. Reverse(Chain(Everything)[c])' = Reverse(Chain(Everything)[c])
  BY <1>3
<1>5. FieldsOf(c)' = FieldsOf(c)
  BY <1>4 DEF FieldsOf, FieldsAlong, Fields
<1> QED
  BY <1>5 DEF LayoutOf

-----------------------------------------------------------------------------
(* The layouts the checker makes, and what is read through them.           *)

\* The tables and the layouts of the classes visited are what the declarations ask for.
LaidOut(T) ==
  /\ IsTabled(program, T) /\ ExtendsTabled(program, T)
  /\ polymorphic = visited \cap T
  /\ \A c \in visited : layout[c] = LayoutOf(T, c)

\* What Layered says of the program, with its number and heights named.
Heights(N, h) ==
  /\ N \in Nat /\ h \in [Classes -> 0 .. N]
  /\ \A c \in Classes :
       /\ program.base[c] # None => program.base[c] \in Classes /\ h[program.base[c]] < h[c]
       /\ program.interfaces[c] \in Seq(Classes)
       /\ \A i \in DOMAIN program.interfaces[c] : h[program.interfaces[c][i]] < h[c]
       /\ program.fields[c] \in Nat

LEMMA HeightsExist ==
  ASSUME Layered(program)
  PROVE  \E N, h : Heights(N, h)
BY DEF Layered, Heights, Classes

LEMMA HeightsFall ==
  ASSUME NEW N, NEW h, Heights(N, h), None \notin Classes
  PROVE  Falls(Classes, Bases, N, h)
BY BasesFall DEF Heights

\* When a class is visited the one it extends has been.
LEMMA BaseIsVisited ==
  ASSUME WellFormed(program), BasesComeFirst(program), Visits, InClass,
         Class \in Classes, program.base[Class] # None, program.base[Class] \in Classes
  PROVE  program.base[Class] \in visited
<1>1. PICK i, j \in DOMAIN program.order :
        i < j /\ program.order[i] = program.base[Class] /\ program.order[j] = Class
  BY DEF BasesComeFirst, Classes
<1>2. next \in DOMAIN program.order /\ program.order[next] = Class
  BY DEF InClass, Class
<1>3. j = next
  BY <1>1, <1>2 DEF BasesComeFirst
<1>4. PICK order : order = program.order
  OBVIOUS
<1>5. order \in Seq(Classes \cup {Body})
  BY <1>4 DEF WellFormed, Classes
<1>6. i \in 1 .. next - 1
  <2>1. DOMAIN order = 1 .. Len(order) /\ Len(order) \in Nat
    BY <1>5
  <2>2. i \in 1 .. Len(order) /\ next \in 1 .. Len(order) /\ i < next
    BY <1>1, <1>2, <1>3, <1>4, <2>1
  <2> QED
    BY <2>1, <2>2
<1>7. program.base[Class] # Body
  BY DEF WellFormed, Classes
<1> QED
  BY <1>1, <1>6, <1>7 DEF Visits

\* What a class knows of the others when the classes of V have been visited.
Known(V, c) == [d \in Classes |-> IF c \in V \/ Before(d, c) THEN <<d>> ELSE <<>>]

\* What a class extends is known.
LEMMA BasesAreKnown ==
  ASSUME NEW N, NEW h, Heights(N, h), BasesComeFirst(program), NEW V
  PROVE  \A c \in Classes : Declared(V)[c].base = Base(c)
<1> SUFFICES ASSUME NEW c \in Classes PROVE Declared(V)[c].base = Base(c)
  OBVIOUS
<1>1. Declared(V)[c].base = Each(Known(V, c), Base(c))
  BY DEF Declared, Known
<1>2. CASE program.base[c] = None
  BY <1>1, <1>2, EachOfNone DEF Base
<1>3. CASE program.base[c] # None
  <2>1. PICK b : b = program.base[c]
    OBVIOUS
  <2>2. b \in Classes /\ Before(b, c) /\ Base(c) = <<b>>
    BY <1>3, <2>1 DEF Heights, BasesComeFirst, Before, Base, Classes
  <2>3. Known(V, c)[b] = <<b>>
    BY <2>2 DEF Known
  <2> QED
    BY <1>1, <2>2, <2>3, EachOfOne
<1> QED
  BY <1>2, <1>3

\* At the end of its visit a class is laid out as the declarations ask.
LEMMA VisitLaysOut ==
  ASSUME \A p \in Programs : Orderly(p), TypeOK, Visits,
         NEW T, LaidOut(T), LeaveClass
  PROVE  (IsPolymorphic(Class) <=> Class \in T) /\ Layout(Class) = LayoutOf(T, Class)
<1>1. WellFormed(program) /\ Layered(program) /\ BasesComeFirst(program)
  BY DEF TypeOK, Orderly
<1>2. InClass /\ Class \in Classes
  BY ClassIsDeclared DEF LeaveClass, Orderly
<1>3. PICK N, h : Heights(N, h)
  BY <1>1, HeightsExist
<1>4. Falls(Classes, Bases, N, h)
  BY <1>1, <1>3, HeightsFall DEF WellFormed, Classes
<1>5. PICK c : c = Class
  OBVIOUS
<1>6. program.base[c] # None => program.base[c] \in Classes
  BY <1>2, <1>3, <1>5 DEF Heights
<1>7. program.base[c] # None => program.base[c] \in visited
  BY <1>1, <1>2, <1>5, <1>6, BaseIsVisited
<1>8. program.base[c] \in polymorphic <=> program.base[c] \in T
  <2>1. None \notin T /\ None \notin polymorphic
    BY <1>1 DEF LaidOut, IsTabled, WellFormed, TypeOK, Classes
  <2> QED
    BY <1>7, <2>1 DEF LaidOut
<1>9. IsPolymorphic(c) <=> c \in T
  BY <1>2, <1>5, <1>8 DEF IsPolymorphic, LaidOut, IsTabled, Classes
<1>10. \A d \in Classes : Links[d].base = Base(d)
  BY <1>1, <1>3, BasesAreKnown DEF Links
<1>11. Chain(Links) = Chain(Everything)
  BY <1>4, <1>10, ChainsAgree
<1>12. Layout(c) = LayoutOf(T, c)
  BY <1>9, <1>11, Zenon DEF Layout, LayoutOf, FieldsOf, FieldsAlong
<1> QED
  BY <1>5, <1>9, <1>12

LEMMA StepKeepsLayouts ==
  ASSUME \A p \in Programs : Orderly(p), TypeOK, Visits,
         NEW T, LaidOut(T), [Next]_vars
  PROVE  LaidOut(T)'
<1>1. ASSUME UNCHANGED <<program, visited, polymorphic, layout>> PROVE LaidOut(T)'
  <2>1. \A c \in visited : LayoutOf(T, c)' = LayoutOf(T, c)
    BY <1>1, LayoutsStay
  <2> QED
    BY <1>1, <2>1 DEF LaidOut
<1>2. ASSUME LeaveClass PROVE LaidOut(T)'
  <2>1. PICK c : c = Class
    OBVIOUS
  <2>2. (IsPolymorphic(c) <=> c \in T) /\ Layout(c) = LayoutOf(T, c)
    BY <1>2, <2>1, VisitLaysOut
  <2>3. /\ program' = program /\ visited' = visited \cup {c}
        /\ polymorphic' = polymorphic \cup {d \in {c} : IsPolymorphic(d)}
        /\ layout' = [d \in visited' |-> IF d = c THEN Layout(d) ELSE layout[d]]
    BY <1>2, <2>1 DEF LeaveClass
  <2>4. polymorphic' = visited' \cap T
    BY <2>2, <2>3 DEF LaidOut
  <2>5. ASSUME NEW d \in visited' PROVE layout'[d] = LayoutOf(T, d)'
    <3>1. LayoutOf(T, d)' = LayoutOf(T, d)
      BY <2>3, LayoutsStay
    <3>2. CASE d = c
      BY <2>2, <2>3, <3>1, <3>2
    <3>3. CASE d # c
      BY <2>3, <3>1, <3>3 DEF LaidOut
    <3> QED
      BY <3>2, <3>3
  <2>6. IsTabled(program, T)' /\ ExtendsTabled(program, T)'
    BY <2>3 DEF LaidOut
  <2> QED
    BY <2>4, <2>5, <2>6 DEF LaidOut
<1>3. ASSUME EnterClass \/ CheckMethod \/ CheckBody \/ New \/ Call \/ Read \/ Test \/ UNCHANGED vars
      PROVE  UNCHANGED <<program, visited, polymorphic, layout>>
  BY <1>3 DEF EnterClass, CheckMethod, CheckBody, New, Call, Read, Test, vars, checking
<1> QED
  BY <1>1, <1>2, <1>3 DEF Next

\* The steps up that the types show when the classes of V have been visited.
UpIn(V) == [c \in Classes |-> IF c \in V THEN Base(c) \o program.interfaces[c] ELSE <<>>]

LEMMA UpFalls ==
  ASSUME NEW N, NEW h, Heights(N, h), None \notin Classes, NEW V
  PROVE  /\ Falls(Classes, UpIn(V), N, h)
         /\ \A c \in Classes : \A i \in DOMAIN UpIn(V)[c] :
              \/ program.base[c] # None /\ UpIn(V)[c][i] = program.base[c]
              \/ \E j \in DOMAIN program.interfaces[c] : UpIn(V)[c][i] = program.interfaces[c][j]
<1>1. ASSUME NEW c \in Classes
      PROVE  /\ UpIn(V)[c] \in Seq(Classes)
             /\ \A i \in DOMAIN UpIn(V)[c] :
                  /\ \/ program.base[c] # None /\ UpIn(V)[c][i] = program.base[c]
                     \/ \E j \in DOMAIN program.interfaces[c] :
                          UpIn(V)[c][i] = program.interfaces[c][j]
                  /\ h[UpIn(V)[c][i]] < h[c]
  <2>1. PICK s : s = program.interfaces[c]
    OBVIOUS
  <2>2. s \in Seq(Classes) /\ Base(c) \in Seq(Classes)
    BY <2>1 DEF Heights, Base
  <2>3. PICK u : u = UpIn(V)[c]
    OBVIOUS
  <2>4. CASE c \in V
    <3>1. u = Base(c) \o s
      BY <2>1, <2>3, <2>4 DEF UpIn
    <3>2. u \in Seq(Classes)
      BY <2>2, <3>1, ConcatProperties
    <3>3. ASSUME NEW i \in DOMAIN u
          PROVE  \/ program.base[c] # None /\ u[i] = program.base[c]
                 \/ \E j \in DOMAIN s : u[i] = s[j]
      <4>1. u[i] \in ToSet(u)
        BY DEF ToSet
      <4>2. u[i] \in ToSet(Base(c)) \/ u[i] \in ToSet(s)
        BY <2>2, <3>1, <4>1, ConcatHolds
      <4>3. \A x : x \in ToSet(Base(c)) => program.base[c] # None /\ x = program.base[c]
        BY DEF Base, ToSet
      <4>4. \A x : x \in ToSet(s) => \E j \in DOMAIN s : x = s[j]
        BY DEF ToSet
      <4> QED
        BY <4>2, <4>3, <4>4
    <3>4. \A i \in DOMAIN u : h[u[i]] < h[c]
      BY <2>1, <3>3 DEF Heights
    <3> QED
      BY <2>1, <2>3, <3>2, <3>3, <3>4
  <2>5. CASE c \notin V
    <3>1. u = <<>> /\ DOMAIN u = {}
      BY <2>3, <2>5 DEF UpIn
    <3> QED
      BY <2>3, <3>1
  <2> QED
    BY <2>4, <2>5
<1>2. Falls(Classes, UpIn(V), N, h)
  BY <1>1 DEF Falls, Heights
<1> QED
  BY <1>1, <1>2

LEMMA SupertypesWalk ==
  ASSUME NEW V, NEW N, NEW h, Falls(Classes, UpIn(V), N, h)
  PROVE  IsWalk(PreOrder(Typed(V)), Classes, UpIn(V))
<1>1. \A f : IsWalk(f, Classes, UpIn(V)) <=> IsPreOrder(f, Typed(V))
  <2> SUFFICES ASSUME NEW f PROVE IsWalk(f, Classes, UpIn(V)) <=> IsPreOrder(f, Typed(V))
    OBVIOUS
  <2>1. ASSUME NEW c \in Classes
        PROVE  UpIn(V)[c] = Typed(V)[c].base \o Typed(V)[c].interfaces
    <3>1. CASE c \in V
      BY <3>1 DEF UpIn, Typed
    <3>2. CASE c \notin V
      <4>1. <<>> \o <<>> = <<>>
        OBVIOUS
      <4> QED
        BY <3>2, <4>1 DEF UpIn, Typed
    <3> QED
      BY <3>1, <3>2
  <2>2. [c \in Classes |-> <<c>> \o Each(f, UpIn(V)[c])]
          = [c \in Classes |-> <<c>> \o Each(f, Typed(V)[c].base \o Typed(V)[c].interfaces)]
    BY <2>1
  <2> QED
    BY <2>2 DEF IsWalk, IsPreOrder
<1>2. \E f : IsPreOrder(f, Typed(V))
  BY <1>1, WalkExists
<1> DEFINE walk == CHOOSE f : IsPreOrder(f, Typed(V))
<1>3. IsPreOrder(walk, Typed(V))
  BY <1>2
<1>4. PreOrder(Typed(V)) = walk
  BY Zenon DEF PreOrder, IsPreOrder
<1> QED
  BY <1>1, <1>3, <1>4

\* A class's fields are in place for whoever sees the object as one above its class.
LEMMA ReadsFit ==
  ASSUME KeepsFields(program), NEW T, LaidOut(T),
         NEW V, NEW o \in Classes,
         NEW c \in Supertypes(Typed(V), o) \cup ToSet(Chain(Everything)[o])
  PROVE  c \in Classes /\ Fits(LayoutOf(T, c), LayoutOf(T, o))
<1>1. None \notin Classes
  BY DEF KeepsFields, Orderly, WellFormed, Classes
<1>2. PICK N, h : Heights(N, h)
  BY HeightsExist DEF KeepsFields, Orderly
<1>3. PICK L : L = [d \in Classes |-> LayoutOf(T, d)]
  OBVIOUS
<1>4. Falls(Classes, Bases, N, h) /\ Falls(Classes, UpIn(V), N, h)
  BY <1>1, <1>2, HeightsFall, UpFalls
<1>5. \A d \in Classes : program.fields[d] \in Nat /\ program.interfaces[d] \in Seq(Classes)
  BY <1>2 DEF Heights
<1>6. ASSUME NEW d \in Classes
      PROVE  /\ program.base[d] # None => Fits(L[program.base[d]], L[d])
             /\ \A i \in DOMAIN program.interfaces[d] : Fits(L[program.interfaces[d][i]], L[d])
  <2>1. program.base[d] # None => program.base[d] \in Classes
    BY <1>2 DEF Heights
  <2>2. \A i \in DOMAIN program.interfaces[d] : program.interfaces[d][i] \in Classes
    BY <1>5
  <2>3. /\ program.base[d] # None => Fits(LayoutOf(T, program.base[d]), LayoutOf(T, d))
        /\ \A i \in DOMAIN program.interfaces[d] :
             Fits(LayoutOf(T, program.interfaces[d][i]), LayoutOf(T, d))
    BY <1>4, <1>5, AboveFits DEF KeepsFields, LaidOut
  <2> QED
    BY <1>3, <2>1, <2>2, <2>3
<1>7. CASE c \in Supertypes(Typed(V), o)
  <2>1. PICK f : f = PreOrder(Typed(V))
    OBVIOUS
  <2>2. IsWalk(f, Classes, UpIn(V)) /\ c \in ToSet(f[o])
    BY <1>4, <1>7, <2>1, SupertypesWalk DEF Supertypes
  <2>3. \A d \in Classes : \A i \in DOMAIN UpIn(V)[d] : Fits(L[UpIn(V)[d][i]], L[d])
    BY <1>1, <1>2, <1>6, UpFalls
  <2>4. Fits(L[c], L[o])
    BY <1>4, <2>2, <2>3, ReachedFits
  <2>5. f[o] \in Seq(Classes)
    BY <1>4, <2>2, WalkHolds
  <2>6. c \in Classes
    BY <2>2, <2>5 DEF ToSet
  <2> QED
    BY <1>3, <2>4, <2>6
<1>8. CASE c \in ToSet(Chain(Everything)[o])
  <2>1. PICK f : f = Chain(Everything)
    OBVIOUS
  <2>2. \A d \in Classes : Everything[d].base = Base(d)
    BY DEF Everything, Typed
  <2>3. IsWalk(f, Classes, Bases) /\ c \in ToSet(f[o])
    BY <1>4, <1>8, <2>1, <2>2, ChainIs
  <2>4. ASSUME NEW d \in Classes, NEW i \in DOMAIN Bases[d] PROVE Fits(L[Bases[d][i]], L[d])
    <3>1. program.base[d] # None /\ Bases[d][i] = program.base[d]
      BY DEF Bases, Base
    <3> QED
      BY <1>6, <3>1
  <2>5. Fits(L[c], L[o])
    BY <1>4, <2>3, <2>4, ReachedFits
  <2>6. f[o] \in Seq(Classes)
    BY <1>4, <2>3, WalkHolds
  <2>7. c \in Classes
    BY <2>3, <2>6 DEF ToSet
  <2> QED
    BY <1>3, <2>5, <2>7
<1> QED
  BY <1>7, <1>8

FieldsInv == IInv /\ (\E T : LaidOut(T)) /\ FieldsKeepTheirPlace

LEMMA ReadKeepsPlace ==
  ASSUME \A p \in Programs : KeepsFields(p), IInv, NEW T, LaidOut(T), Read
  PROVE  FieldsKeepTheirPlace'
<1>1. WellFormed(program) /\ KeepsFields(program)
  BY DEF IInv, TypeOK, KeepsFields, Orderly
<1>2. object \in Classes
  BY DEF Read, IInv, TypeOK
<1> DEFINE Seen(c, k) ==
      /\ layout[c][k] # Vptr
      /\ last' = [did |-> "read", of |-> layout[c][k],
                  got |-> IF k \in DOMAIN layout[object] THEN layout[object][k] ELSE None]
<1>0. PICK c \in Views \cup ToSet(Chain(Everything)[object]) :
        \E k \in DOMAIN layout[c] : Seen(c, k)
  BY DEF Read
<1>3. PICK k \in DOMAIN layout[c] : Seen(c, k)
  BY <1>0
<1>4. c \in Classes /\ Fits(LayoutOf(T, c), LayoutOf(T, object))
  BY <1>0, <1>1, <1>2, ReadsFit DEF Views
<1>5. visited = Classes
  BY <1>1, <1>2, AcceptedVisitedAll
     DEF ObjectsHaveLayouts, IInv, TypeOK, KeepsFields, Orderly, WellFormed, Classes
<1>6. layout[c] = LayoutOf(T, c) /\ layout[object] = LayoutOf(T, object)
  BY <1>2, <1>4, <1>5 DEF LaidOut
<1>7. k \in DOMAIN layout[object] /\ layout[object][k] = layout[c][k]
  BY <1>3, <1>4, <1>6 DEF Fits
<1> QED
  BY <1>3, <1>7 DEF FieldsKeepTheirPlace, Did

LEMMA FieldsInvHolds ==
  ASSUME \A p \in Programs : KeepsFields(p)
  PROVE  Spec => []FieldsInv
<1>1. ASSUME Init PROVE FieldsInv
  <2>1. IInv
    BY <1>1, InitIsGood DEF KeepsFields, Orderly
  <2>2. KeepsFields(program) /\ visited = {} /\ polymorphic = {} /\ last = None
    BY <1>1 DEF Init, InitWith
  <2>3. PICK T : IsTabled(program, T) /\ ExtendsTabled(program, T)
    BY <2>2 DEF KeepsFields
  <2>4. LaidOut(T)
    BY <2>2, <2>3 DEF LaidOut
  <2> QED
    BY <2>1, <2>2, <2>4 DEF FieldsInv, FieldsKeepTheirPlace, Did
<1>2. ASSUME FieldsInv, [Next]_vars PROVE FieldsInv'
  <2>1. IInv'
    BY <1>2, StepKeepsTypes, StepKeepsVisits, StepKeepsSlots DEF IInv, FieldsInv, KeepsFields, Orderly
  <2>2. PICK T : LaidOut(T)
    BY <1>2 DEF FieldsInv
  <2>3. LaidOut(T)'
    BY <1>2, <2>2, StepKeepsLayouts DEF FieldsInv, IInv, KeepsFields
  <2>4. FieldsKeepTheirPlace'
    <3>1. CASE Read
      BY <1>2, <2>2, <3>1, ReadKeepsPlace DEF FieldsInv
    <3>2. CASE Call \/ Test
      <4>1. CASE Call
        <5>1. \E m, n : last' = [did |-> "call", of |-> m, got |-> n]
          BY <4>1 DEF Call
        <5> QED
          BY <5>1 DEF FieldsKeepTheirPlace, Did
      <4>2. CASE Test
        <5>1. \E t, c, r : last' = [did |-> "is", of |-> t, through |-> c, got |-> r]
          BY <4>2 DEF Test
        <5> QED
          BY <5>1 DEF FieldsKeepTheirPlace, Did
      <4> QED
        BY <3>2, <4>1, <4>2
    <3>3. CASE EnterClass \/ CheckMethod \/ LeaveClass \/ CheckBody \/ New \/ UNCHANGED vars
      <4>1. last' = last
        BY <3>3 DEF EnterClass, CheckMethod, LeaveClass, CheckBody, New, vars
      <4> QED
        BY <1>2, <4>1 DEF FieldsInv, FieldsKeepTheirPlace, Did
    <3> QED
      BY <1>2, <3>1, <3>2, <3>3 DEF Next
  <2> QED
    BY <2>1, <2>3, <2>4 DEF FieldsInv
<1> QED
  BY <1>1, <1>2, PTL DEF Spec

\* Whatever the programs, if their classes follow those they extend, no class brings the
\* first table of its chain below a base without one, and interfaces have no fields, a
\* field is where every pointer looks for it (CodeGen.cpp, visit(ClassDeclNode)).
THEOREM FieldsStayInPlace ==
  ASSUME \A p \in Programs : KeepsFields(p)
  PROVE  Spec => []FieldsKeepTheirPlace
<1>1. FieldsInv => FieldsKeepTheirPlace
  BY DEF FieldsInv
<1> QED
  BY <1>1, FieldsInvHolds, PTL

-----------------------------------------------------------------------------
(* What is a supertype, and what a test for a type finds.                  *)

Sup == [c \in Classes |-> Supertypes(Everything, c)]

LEMMA UpHolds ==
  ASSUME NEW N, NEW h, Heights(N, h), NEW c \in Classes
  PROVE  /\ program.base[c] # None =>
              \E i \in DOMAIN UpIn(Classes)[c] : UpIn(Classes)[c][i] = program.base[c]
         /\ \A j \in DOMAIN program.interfaces[c] :
              \E i \in DOMAIN UpIn(Classes)[c] : UpIn(Classes)[c][i] = program.interfaces[c][j]
<1>1. PICK u : u = UpIn(Classes)
  OBVIOUS
<1>2. u[c] = Base(c) \o program.interfaces[c] /\ program.interfaces[c] \in Seq(Classes)
  BY <1>1 DEF UpIn, Heights
<1>3. Base(c) \in Seq(Classes) /\ (program.base[c] # None => program.base[c] \in ToSet(Base(c)))
  BY DEF Heights, Base, ToSet
<1>4. \A x : x \in ToSet(u[c]) <=> x \in ToSet(Base(c)) \/ x \in ToSet(program.interfaces[c])
  BY <1>2, <1>3, ConcatHolds
<1>5. program.base[c] # None => \E i \in DOMAIN u[c] : u[c][i] = program.base[c]
  BY <1>3, <1>4 DEF ToSet
<1>6. \A j \in DOMAIN program.interfaces[c] :
        \E i \in DOMAIN u[c] : u[c][i] = program.interfaces[c][j]
  BY <1>4 DEF ToSet
<1> QED
  BY <1>1, <1>5, <1>6

\* A set that holds a class when it holds what the class extends and implements.
LEMMA UpInduction ==
  ASSUME NEW N, NEW h, Heights(N, h), None \notin Classes, NEW S,
         \A c \in Classes :
           /\ program.base[c] # None => program.base[c] \in S
           /\ \A i \in DOMAIN program.interfaces[c] : program.interfaces[c][i] \in S
           => c \in S
  PROVE  Classes \subseteq S
<1>1. PICK u : u = UpIn(Classes)
  OBVIOUS
<1>2. Falls(Classes, u, N, h)
  BY <1>1, UpFalls
<1>3. ASSUME NEW c \in Classes, \A i \in DOMAIN u[c] : u[c][i] \in S PROVE c \in S
  <2>1. program.base[c] # None => \E i \in DOMAIN u[c] : u[c][i] = program.base[c]
    BY <1>1, UpHolds
  <2>2. \A j \in DOMAIN program.interfaces[c] :
          \E i \in DOMAIN u[c] : u[c][i] = program.interfaces[c][j]
    BY <1>1, UpHolds
  <2> QED
    BY <1>3, <2>1, <2>2
<1> QED
  BY <1>2, <1>3, ClassInduction

LEMMA UpOfAll ==
  ASSUME NEW N, NEW h, Heights(N, h), None \notin Classes, NEW c \in Classes
  PROVE  /\ c \in Sup[c] /\ Sup[c] \subseteq Classes
         /\ program.base[c] # None => Sup[program.base[c]] \subseteq Sup[c]
         /\ \A i \in DOMAIN program.interfaces[c] : Sup[program.interfaces[c][i]] \subseteq Sup[c]
         /\ \A x \in Sup[c] : \/ x = c
                              \/ program.base[c] # None /\ x \in Sup[program.base[c]]
                              \/ \E i \in DOMAIN program.interfaces[c] :
                                   x \in Sup[program.interfaces[c][i]]
<1>1. PICK u : u = UpIn(Classes)
  OBVIOUS
<1>2. PICK f : f = PreOrder(Everything)
  OBVIOUS
<1>3. Falls(Classes, u, N, h) /\ IsWalk(f, Classes, u)
  BY <1>1, <1>2, UpFalls, SupertypesWalk DEF Everything
<1>4. \A d \in Classes : Sup[d] = ToSet(f[d])
  BY <1>2 DEF Sup, Supertypes
<1>5. /\ f[c] \in Seq(Classes)
      /\ ToSet(f[c]) = Reached(f, u, c)
  BY <1>3, WalkHolds
<1>6. u[c] \in Seq(Classes)
  BY <1>3 DEF Falls
<1>7. \A i \in DOMAIN u[c] : u[c][i] \in Classes
  BY <1>6
<1>8. \A x : x \in Sup[c] <=> x = c \/ \E i \in DOMAIN u[c] : x \in Sup[u[c][i]]
  BY <1>4, <1>5, <1>7 DEF Reached
<1>9. \A i \in DOMAIN u[c] :
        \/ program.base[c] # None /\ u[c][i] = program.base[c]
        \/ \E j \in DOMAIN program.interfaces[c] : u[c][i] = program.interfaces[c][j]
  BY <1>1, UpFalls
<1>10. /\ program.base[c] # None => \E i \in DOMAIN u[c] : u[c][i] = program.base[c]
       /\ \A j \in DOMAIN program.interfaces[c] :
            \E i \in DOMAIN u[c] : u[c][i] = program.interfaces[c][j]
  BY <1>1, UpHolds
<1>11. Sup[c] \subseteq Classes
  BY <1>4, <1>5 DEF ToSet
<1> QED
  BY <1>8, <1>9, <1>10, <1>11

\* Being a supertype is transitive.
LEMMA SupIsTransitive ==
  ASSUME NEW N, NEW h, Heights(N, h), None \notin Classes
  PROVE  \A c \in Classes : \A d \in Sup[c] : Sup[d] \subseteq Sup[c]
<1> DEFINE S == {c \in Classes : \A d \in Sup[c] : Sup[d] \subseteq Sup[c]}
<1>1. ASSUME NEW c \in Classes,
             program.base[c] # None => program.base[c] \in S,
             \A i \in DOMAIN program.interfaces[c] : program.interfaces[c][i] \in S
      PROVE  c \in S
  <2>1. ASSUME NEW d \in Sup[c] PROVE Sup[d] \subseteq Sup[c]
    <3>1. CASE d = c
      BY <3>1
    <3>2. CASE program.base[c] # None /\ d \in Sup[program.base[c]]
      BY <1>1, <3>2, UpOfAll
    <3>3. CASE \E i \in DOMAIN program.interfaces[c] : d \in Sup[program.interfaces[c][i]]
      BY <1>1, <3>3, UpOfAll
    <3> QED
      BY <2>1, <3>1, <3>2, <3>3, UpOfAll
  <2> QED
    BY <2>1
<1> HIDE DEF S
<1>2. Classes \subseteq S
  BY <1>1, UpInduction
<1> QED
  BY <1>2 DEF S

\* Above a class with a table all have one, and below one all have one.
LEMMA TablesAbove ==
  ASSUME NEW N, NEW h, Heights(N, h), None \notin Classes, NEW T,
         IsTabled(program, T), ExtendsTabled(program, T), InterfacesTabled(program, T)
  PROVE  \A c \in Classes : \A d \in Sup[c] : c \in T <=> d \in T
<1> DEFINE S == {c \in Classes : \A d \in Sup[c] : c \in T <=> d \in T}
<1>1. ASSUME NEW c \in Classes,
             program.base[c] # None => program.base[c] \in S,
             \A i \in DOMAIN program.interfaces[c] : program.interfaces[c][i] \in S
      PROVE  c \in S
  <2>1. ASSUME NEW d \in Sup[c] PROVE c \in T <=> d \in T
    <3>1. CASE d = c
      BY <3>1
    <3>2. CASE program.base[c] # None /\ d \in Sup[program.base[c]]
      <4>1. program.base[c] \in T <=> d \in T
        BY <1>1, <3>2
      <4>2. c \in T <=> program.base[c] \in T
        BY <3>2 DEF IsTabled, ExtendsTabled, Classes
      <4> QED
        BY <4>1, <4>2
    <3>3. CASE \E i \in DOMAIN program.interfaces[c] : d \in Sup[program.interfaces[c][i]]
      <4>1. PICK i \in DOMAIN program.interfaces[c] : d \in Sup[program.interfaces[c][i]]
        BY <3>3
      <4>2. program.interfaces[c][i] \in T <=> d \in T
        BY <1>1, <4>1
      <4>3. program.interfaces[c][i] \in T
        BY DEF InterfacesTabled, Classes
      <4>4. program.interfaces[c] # <<>>
        BY <4>1
      <4>5. c \in T
        BY <4>4 DEF IsTabled, Classes
      <4> QED
        BY <4>2, <4>3, <4>5
    <3> QED
      BY <2>1, <3>1, <3>2, <3>3, UpOfAll
  <2> QED
    BY <2>1
<1> HIDE DEF S
<1>2. Classes \subseteq S
  BY <1>1, UpInduction
<1> QED
  BY <1>2 DEF S

\* Above a class without a table there is one line of classes.
LEMMA OneLine ==
  ASSUME NEW N, NEW h, Heights(N, h), None \notin Classes, NEW T, IsTabled(program, T)
  PROVE  \A c \in Classes \ T : \A d, e \in Sup[c] : d \in Sup[e] \/ e \in Sup[d]
<1> DEFINE S == {c \in Classes : c \notin T => \A d, e \in Sup[c] : d \in Sup[e] \/ e \in Sup[d]}
<1>1. ASSUME NEW c \in Classes,
             program.base[c] # None => program.base[c] \in S,
             \A i \in DOMAIN program.interfaces[c] : program.interfaces[c][i] \in S
      PROVE  c \in S
  <2> SUFFICES ASSUME c \notin T, NEW d \in Sup[c], NEW e \in Sup[c]
               PROVE  d \in Sup[e] \/ e \in Sup[d]
    OBVIOUS
  <2>1. DOMAIN program.interfaces[c] = {} /\ program.base[c] \notin T
    <3>1. program.interfaces[c] = <<>>
      BY DEF IsTabled, Classes
    <3> QED
      BY <3>1 DEF IsTabled, Classes
  <2>2. \A x \in Sup[c] : x = c \/ (program.base[c] # None /\ x \in Sup[program.base[c]])
    <3>1. ASSUME NEW x \in Sup[c]
          PROVE  \/ x = c
                 \/ program.base[c] # None /\ x \in Sup[program.base[c]]
                 \/ \E i \in DOMAIN program.interfaces[c] : x \in Sup[program.interfaces[c][i]]
      BY UpOfAll
    <3> QED
      BY <2>1, <3>1
  <2> QED
    BY <1>1, <2>1, <2>2
<1> HIDE DEF S
<1>2. Classes \subseteq S
  BY <1>1, UpInduction
<1> QED
  BY <1>2 DEF S

IsAll(f) ==
  f = [c \in Classes |-> ToSet(program.interfaces[c])
                           \cup UNION {f[i] : i \in ToSet(program.interfaces[c])}]

\* The interfaces of a class are its supertypes by way of those it names.
LEMMA InterfacesAre ==
  ASSUME NEW N, NEW h, Heights(N, h), None \notin Classes, PlainInterfaces(program)
  PROVE  \A c \in Classes : \A x :
           x \in Interfaces[c] <=> \E i \in DOMAIN program.interfaces[c] :
                                     x \in Sup[program.interfaces[c][i]]
<1> DEFINE Named(c) == ToSet(program.interfaces[c])
           g == [c \in Classes |-> UNION {Sup[i] : i \in Named(c)}]
<1>1. \A c \in Classes : Named(c) \subseteq Classes /\ \A i \in Named(c) : program.base[i] = None
  BY DEF Heights, PlainInterfaces, ToSet, Classes
<1>2. ASSUME NEW i \in Classes, program.base[i] = None PROVE Sup[i] = {i} \cup g[i]
  <2>1. \A x : x \in g[i] <=> \E j \in DOMAIN program.interfaces[i] : x \in Sup[program.interfaces[i][j]]
    BY DEF ToSet
  <2>2. \A x : x \in Sup[i] <=> x = i \/ x \in g[i]
    BY <1>2, <2>1, UpOfAll
  <2> QED
    BY <2>2
<1>3. ASSUME NEW c \in Classes PROVE g[c] = Named(c) \cup UNION {g[i] : i \in Named(c)}
  <2>1. \A i \in Named(c) : Sup[i] = {i} \cup g[i]
    BY <1>1, <1>2
  <2>2. g[c] = UNION {Sup[i] : i \in Named(c)}
    OBVIOUS
  <2> HIDE DEF g, Named
  <2> QED
    BY <2>1, <2>2
<1>4. IsAll(g)
  <2>1. g = [c \in Classes |-> g[c]]
    OBVIOUS
  <2> HIDE DEF g
  <2> QED
    BY <1>3, <2>1 DEF IsAll
<1>5. PICK f : f = Interfaces /\ IsAll(f)
  <2> DEFINE all == CHOOSE f : IsAll(f)
  <2>1. IsAll(all)
    BY <1>4
  <2>2. Interfaces = all
    BY Zenon DEF Interfaces, IsAll
  <2> QED
    BY <2>1, <2>2
<1> DEFINE S == {c \in Classes : f[c] = g[c]}
<1>6. ASSUME NEW c \in Classes,
             \A i \in DOMAIN program.interfaces[c] : program.interfaces[c][i] \in S
      PROVE  c \in S
  <2>1. \A i \in Named(c) : f[i] = g[i]
    BY <1>6 DEF ToSet
  <2>2. f[c] = Named(c) \cup UNION {f[i] : i \in Named(c)}
    BY <1>5 DEF IsAll
  <2>3. {f[i] : i \in Named(c)} = {g[i] : i \in Named(c)}
    BY <2>1
  <2>4. f[c] = g[c]
    BY <1>3, <2>2, <2>3
  <2> QED
    BY <2>4
<1>7. Classes \subseteq S
  <2> HIDE DEF S
  <2> QED
    BY <1>6, UpInduction
<1>8. \A c \in Classes : Interfaces[c] = UNION {Sup[i] : i \in Named(c)}
  BY <1>5, <1>7
<1> QED
  BY <1>8 DEF ToSet

\* A class's supertypes: itself, its interfaces, and those of what it extends.
LEMMA SupIs ==
  ASSUME NEW N, NEW h, Heights(N, h), None \notin Classes, PlainInterfaces(program),
         NEW c \in Classes
  PROVE  Sup[c] = {c} \cup Interfaces[c]
                    \cup IF program.base[c] # None THEN Sup[program.base[c]] ELSE {}
<1>1. \A x : x \in Interfaces[c] <=> \E i \in DOMAIN program.interfaces[c] :
                                       x \in Sup[program.interfaces[c][i]]
  BY InterfacesAre
<1>2. c \in Sup[c]
  BY UpOfAll
<1>3. program.base[c] # None => Sup[program.base[c]] \subseteq Sup[c]
  BY UpOfAll
<1>4. \A i \in DOMAIN program.interfaces[c] : Sup[program.interfaces[c][i]] \subseteq Sup[c]
  BY UpOfAll
<1>5. \A x \in Sup[c] : \/ x = c
                        \/ program.base[c] # None /\ x \in Sup[program.base[c]]
                        \/ x \in Interfaces[c]
  BY <1>1, UpOfAll
<1>6. Interfaces[c] \subseteq Sup[c]
  BY <1>1, <1>4
<1> QED
  BY <1>2, <1>3, <1>5, <1>6

IsDescription(f) ==
  f = [c \in Classes |-> {c} \cup Interfaces[c] \cup
         IF program.base[c] \in polymorphic THEN f[program.base[c]] ELSE {}]

\* The descriptor of a class with a table lists its supertypes.
LEMMA DescribedAre ==
  ASSUME NEW N, NEW h, Heights(N, h), None \notin Classes, PlainInterfaces(program),
         NEW T, IsTabled(program, T), ExtendsTabled(program, T), polymorphic = T
  PROVE  \A c \in T : Described[c] = Sup[c]
<1> DEFINE g == [c \in Classes |-> IF c \in T THEN Sup[c] ELSE {c} \cup Interfaces[c]]
<1>1. ASSUME NEW c \in Classes
      PROVE  g[c] = {c} \cup Interfaces[c] \cup
                      IF program.base[c] \in T THEN g[program.base[c]] ELSE {}
  <2>1. program.base[c] # None => program.base[c] \in Classes
    BY DEF Heights
  <2>2. CASE c \in T
    <3>1. program.base[c] \in T <=> program.base[c] # None
      BY <2>2 DEF IsTabled, ExtendsTabled, Classes
    <3>2. program.base[c] \in T => g[program.base[c]] = Sup[program.base[c]]
      BY <2>1, <3>1
    <3> QED
      BY <2>2, <3>1, <3>2, SupIs
  <2>3. CASE c \notin T
    <3>1. program.base[c] \notin T
      BY <2>3 DEF IsTabled, Classes
    <3> QED
      BY <2>3, <3>1
  <2> QED
    BY <2>2, <2>3
<1>2. IsDescription(g)
  <2>1. g = [c \in Classes |-> g[c]]
    OBVIOUS
  <2> HIDE DEF g
  <2> QED
    BY <1>1, <2>1 DEF IsDescription
<1>3. PICK f : f = Described /\ IsDescription(f)
  <2> DEFINE walk == CHOOSE f : IsDescription(f)
  <2>1. IsDescription(walk)
    BY <1>2
  <2>2. Described = walk
    BY Zenon DEF Described, IsDescription
  <2> QED
    BY <2>1, <2>2
<1> DEFINE S == {c \in Classes : f[c] = g[c]}
<1>4. ASSUME NEW c \in Classes, program.base[c] # None => program.base[c] \in S
      PROVE  c \in S
  <2>1. f[c] = {c} \cup Interfaces[c] \cup
                 IF program.base[c] \in T THEN f[program.base[c]] ELSE {}
    BY <1>3 DEF IsDescription
  <2>2. program.base[c] \in T => program.base[c] # None
    BY DEF IsTabled, Classes
  <2>3. program.base[c] \in T => f[program.base[c]] = g[program.base[c]]
    BY <1>4, <2>2
  <2> HIDE DEF g
  <2>4. f[c] = g[c]
    BY <1>1, <2>1, <2>3
  <2> QED
    BY <2>4
<1>5. Classes \subseteq S
  <2> HIDE DEF S
  <2> QED
    BY <1>4, UpInduction
<1>6. \A c \in T : c \in Classes
  BY DEF IsTabled, Classes
<1> QED
  BY <1>3, <1>5, <1>6

-----------------------------------------------------------------------------
(* A test for a type, in a program that is checked to its end.             *)

\* The body has seen every class.
BodySeesAll == next = Len(program.order) + 1 => seen = visited

\* Without an object nothing has been done with it.
NothingDoneYet == object = None => last = None

RelativesInv ==
  /\ IInv /\ BodySeesAll /\ NothingDoneYet
  /\ \E T : LaidOut(T) /\ InterfacesTabled(program, T)
  /\ IsFindsRelatives

LEMMA StepKeepsBody ==
  ASSUME \A p \in Programs : FindsRelatives(p), TypeOK, BodySeesAll, [Next]_vars
  PROVE  BodySeesAll'
<1>1. WellFormed(program) /\ program.order[Len(program.order)] = Body
  BY DEF TypeOK, FindsRelatives, Orderly
<1>2. PICK order : order = program.order
  OBVIOUS
<1>3. order \in Seq(Classes \cup {Body}) /\ order[Len(order)] = Body
  BY <1>1, <1>2 DEF WellFormed, Classes
<1>4. ASSUME LeaveClass PROVE next' # Len(program'.order) + 1
  <2>1. next \in DOMAIN order /\ order[next] # Body /\ next' = next + 1 /\ program' = program
    BY <1>2, <1>4 DEF LeaveClass, InClass, Class
  <2> QED
    BY <1>2, <1>3, <2>1
<1>5. ASSUME CheckBody PROVE seen' = visited'
  BY <1>5 DEF CheckBody
<1>6. ASSUME EnterClass \/ CheckMethod \/ New \/ Call \/ Read \/ Test \/ UNCHANGED vars
      PROVE  UNCHANGED <<program, next, visited, seen>>
  BY <1>6 DEF EnterClass, CheckMethod, New, Call, Read, Test, vars, checking
<1> QED
  BY <1>4, <1>5, <1>6 DEF Next, BodySeesAll

LEMMA SupertypesStay ==
  ASSUME NEW c, program' = program
  PROVE  Supertypes(Everything, c)' = Supertypes(Everything, c)
<1>1. Classes' = Classes
  BY DEF Classes
<1>2. Everything' = Everything
  BY <1>1 DEF Everything, Typed, Base
<1>3. PreOrder(Everything)' = PreOrder(Everything)
  BY <1>1, <1>2 DEF PreOrder
<1> QED
  BY <1>3 DEF Supertypes

\* What a test finds, if the class of the pointer and the one asked for are related.
LEMMA TestFinds ==
  ASSUME \A p \in Programs : FindsRelatives(p), IInv, BodySeesAll,
         NEW T, LaidOut(T), InterfacesTabled(program, T), Test
  PROVE  IsFindsRelatives'
<1>1. FindsRelatives(program) /\ WellFormed(program) /\ None \notin Classes
  BY DEF IInv, TypeOK, FindsRelatives, Orderly, WellFormed, Classes
<1>2. PICK N, h : Heights(N, h)
  BY <1>1, HeightsExist DEF FindsRelatives, Orderly
<1>3. object \in Classes /\ Accepted
  BY DEF Test, IInv, TypeOK, Visits
<1>4. visited = Classes /\ seen = Classes
  <2>1. visited = Classes
    BY <1>3, <1>1, AcceptedVisitedAll
       DEF ObjectsHaveLayouts, IInv, TypeOK, FindsRelatives, Orderly
  <2> QED
    BY <1>3, <2>1 DEF BodySeesAll, Accepted
<1>5. T \subseteq Classes /\ polymorphic = T
  BY <1>4 DEF LaidOut, IsTabled, Classes
<1>6. \A c \in Classes : Supertypes(Typed(seen), c) = Sup[c]
  BY <1>4 DEF Sup, Everything
<1>7. PICK c \in Views, t \in Classes :
        /\ IsBelow(c, t) => IsAlways(c, t) \/ IsTested(c, t)
        /\ last' = [did |-> "is", of |-> t, through |-> c,
                    got |-> IF IsAlways(c, t) THEN TRUE
                            ELSE IF ~IsTested(c, t) THEN FALSE
                            ELSE object \in polymorphic /\ t \in Described[object]]
  BY DEF Test
<1>8. c \in Sup[object] /\ c \in Classes
  <2>1. c \in Sup[object]
    BY <1>3, <1>6, <1>7 DEF Views
  <2> QED
    BY <1>1, <1>2, <1>3, <2>1, UpOfAll
<1>9. IsAlways(c, t) <=> t \in Sup[c]
  BY <1>6, <1>8 DEF IsAlways
<1>10. IsBelow(c, t) <=> c \in Sup[t]
  BY <1>6 DEF IsBelow
<1>11. IsTested(c, t) <=> c \in T /\ (c \in Sup[t] \/ t \in program.abstract)
  BY <1>4, <1>5, <1>7, <1>8, <1>10 DEF IsTested
<1>12. ASSUME c \in Sup[t] \/ t \in Sup[c] \/ t \in program.abstract
       PROVE  last'.got <=> t \in Sup[object]
  <2>1. CASE t \in Sup[c]
    <3>1. Sup[c] \subseteq Sup[object]
      BY <1>1, <1>2, <1>3, <1>8, SupIsTransitive
    <3>2. last'.got
      BY <1>7, <1>9, <2>1
    <3> QED
      BY <2>1, <3>1, <3>2
  <2>2. CASE t \notin Sup[c] /\ IsTested(c, t)
    <3>1. object \in T
      BY <1>1, <1>2, <1>3, <1>8, <1>11, <2>2, TablesAbove DEF LaidOut
    <3>2. Described[object] = Sup[object]
      BY <1>1, <1>2, <1>5, <3>1, DescribedAre DEF LaidOut, FindsRelatives
    <3>3. last'.got <=> object \in polymorphic /\ t \in Described[object]
      BY <1>7, <1>9, <2>2
    <3> QED
      BY <1>5, <3>1, <3>2, <3>3
  <2>3. CASE t \notin Sup[c] /\ ~IsTested(c, t)
    <3>1. c \notin Sup[t] /\ t \in program.abstract /\ c \notin T
      BY <1>7, <1>9, <1>10, <1>11, <1>12, <2>3
    <3>2. object \notin T
      BY <1>1, <1>2, <1>3, <1>8, <3>1, TablesAbove DEF LaidOut
    <3>3. t \notin Sup[object]
      BY <1>1, <1>2, <1>3, <1>8, <2>3, <3>1, <3>2, OneLine DEF LaidOut
    <3>4. ~last'.got
      BY <1>7, <1>9, <2>3
    <3> QED
      BY <3>3, <3>4
  <2> QED
    BY <2>1, <2>2, <2>3
<1>13. program' = program /\ object' = object
  BY DEF Test, checking
<1>14. \A d \in Classes : Supertypes(Everything, d)' = Sup[d]
  <2>1. \A d \in Classes : Supertypes(Everything, d) = Sup[d]
    BY DEF Sup
  <2>2. ASSUME NEW d \in Classes PROVE Supertypes(Everything, d)' = Supertypes(Everything, d)
    BY <1>13, SupertypesStay
  <2> QED
    BY <2>1, <2>2
<1>15. last'.of = t /\ last'.through = c
  BY <1>7
<1> QED
  BY <1>3, <1>7, <1>8, <1>12, <1>13, <1>14, <1>15 DEF IsFindsRelatives

LEMMA RelativesInvHolds ==
  ASSUME \A p \in Programs : FindsRelatives(p)
  PROVE  Spec => []RelativesInv
<1>1. ASSUME Init PROVE RelativesInv
  <2>1. IInv
    BY <1>1, InitIsGood DEF FindsRelatives, Orderly
  <2>2. /\ FindsRelatives(program) /\ visited = {} /\ seen = {} /\ polymorphic = {}
        /\ last = None
    BY <1>1 DEF Init, InitWith
  <2>3. PICK T : /\ IsTabled(program, T) /\ ExtendsTabled(program, T)
                 /\ InterfacesTabled(program, T)
    BY <2>2 DEF FindsRelatives
  <2>4. LaidOut(T)
    BY <2>2, <2>3 DEF LaidOut
  <2> QED
    BY <2>1, <2>2, <2>3, <2>4 DEF RelativesInv, BodySeesAll, NothingDoneYet, IsFindsRelatives, Did
<1>2. ASSUME RelativesInv, [Next]_vars PROVE RelativesInv'
  <2>1. IInv'
    BY <1>2, StepKeepsTypes, StepKeepsVisits, StepKeepsSlots
       DEF IInv, RelativesInv, FindsRelatives, Orderly
  <2>2. PICK T : LaidOut(T) /\ InterfacesTabled(program, T)
    BY <1>2 DEF RelativesInv
  <2>3. LaidOut(T)'
    BY <1>2, <2>2, StepKeepsLayouts DEF RelativesInv, IInv, FindsRelatives
  <2>4. program' = program
    BY <1>2 DEF Next, EnterClass, CheckMethod, LeaveClass, CheckBody, New, Call, Read, Test,
               vars, checking
  <2>5. InterfacesTabled(program, T)'
    BY <2>2, <2>4 DEF InterfacesTabled
  <2>6. BodySeesAll'
    BY <1>2, StepKeepsBody DEF RelativesInv, IInv
  <2>7. IsFindsRelatives'
    <3>1. CASE Test
      BY <1>2, <2>2, <3>1, TestFinds DEF RelativesInv
    <3>2. CASE Call
      <4>1. \E m, n : last' = [did |-> "call", of |-> m, got |-> n]
        BY <3>2 DEF Call
      <4> QED
        BY <4>1 DEF IsFindsRelatives, Did
    <3>3. CASE Read
      <4>1. \E m, n : last' = [did |-> "read", of |-> m, got |-> n]
        BY <3>3 DEF Read
      <4> QED
        BY <4>1 DEF IsFindsRelatives, Did
    <3>4. CASE New
      <4>1. last' = None
        BY <1>2, <3>4 DEF New, RelativesInv, NothingDoneYet
      <4> QED
        BY <4>1 DEF IsFindsRelatives, Did
    <3>5. CASE EnterClass \/ CheckMethod \/ LeaveClass \/ CheckBody \/ UNCHANGED vars
      <4>1. last' = last /\ object' = object /\ program' = program
        BY <3>5 DEF EnterClass, CheckMethod, LeaveClass, CheckBody, vars, checking
      <4>2. \A d : Supertypes(Everything, d)' = Supertypes(Everything, d)
        BY <4>1, SupertypesStay
      <4> QED
        BY <1>2, <4>1, <4>2 DEF RelativesInv, IsFindsRelatives, Did
    <3> QED
      BY <1>2, <3>1, <3>2, <3>3, <3>4, <3>5 DEF Next
  <2>8. NothingDoneYet'
    <3>1. CASE Call \/ Read \/ Test
      <4>1. object # None /\ object' = object
        BY <3>1 DEF Call, Read, Test
      <4> QED
        BY <4>1 DEF NothingDoneYet
    <3>2. CASE New
      BY <1>2, <3>2 DEF New, RelativesInv, NothingDoneYet
    <3>3. CASE EnterClass \/ CheckMethod \/ LeaveClass \/ CheckBody \/ UNCHANGED vars
      <4>1. last' = last /\ object' = object
        BY <3>3 DEF EnterClass, CheckMethod, LeaveClass, CheckBody, vars, checking
      <4> QED
        BY <1>2, <4>1 DEF RelativesInv, NothingDoneYet
    <3> QED
      BY <1>2, <3>1, <3>2, <3>3 DEF Next
  <2> QED
    BY <2>1, <2>3, <2>5, <2>6, <2>7, <2>8 DEF RelativesInv
<1> QED
  BY <1>1, <1>2, PTL DEF Spec

\* Whatever the programs, if their classes follow those they extend, no class brings the
\* first table of its chain below a base without one, and interfaces have methods, "is"
\* answers what the declarations say between a class and one above or below it, and for an
\* abstract one (CodeGen.cpp, visit(IsExprNode)).
THEOREM RelativesAreFound ==
  ASSUME \A p \in Programs : FindsRelatives(p)
  PROVE  Spec => []IsFindsRelatives
<1>1. RelativesInv => IsFindsRelatives
  BY DEF RelativesInv
<1> QED
  BY <1>1, RelativesInvHolds, PTL

-----------------------------------------------------------------------------
(* The first and the last of a sequence that are in a set.                 *)

LEMMA FlattenConcat ==
  ASSUME NEW T, NEW s \in Seq(Seq(T)), NEW t \in Seq(Seq(T))
  PROVE  FlattenSeq(s \o t) = FlattenSeq(s) \o FlattenSeq(t)
<1> DEFINE Q == Seq(T)
           S == {n \in Nat : \A u \in Seq(Q) :
                   Len(u) = n => FlattenSeq(s \o u) = FlattenSeq(s) \o FlattenSeq(u)}
<1>0. s \in Seq(Q) /\ t \in Seq(Q) /\ FlattenSeq(s) \in Seq(T)
  BY FlattenHolds
<1>1. 0 \in S
  <2>1. ASSUME NEW u \in Seq(Q), Len(u) = 0
        PROVE  FlattenSeq(s \o u) = FlattenSeq(s) \o FlattenSeq(u)
    <3>1. u = <<>>
      BY <2>1, EmptySeq
    <3>2. s \o <<>> = s /\ FlattenSeq(s) \o <<>> = FlattenSeq(s)
      BY <1>0, ConcatEmptySeq
    <3> QED
      BY <3>1, <3>2, FlattenNone
  <2> QED
    BY <2>1
<1>2. ASSUME NEW n \in Nat, n \in S PROVE n + 1 \in S
  <2>1. ASSUME NEW u \in Seq(Q), Len(u) = n + 1
        PROVE  FlattenSeq(s \o u) = FlattenSeq(s) \o FlattenSeq(u)
    <3>1. u # <<>>
      BY <1>2, <2>1, EmptySeq
    <3>2. PICK v \in Seq(Q), e \in Q : u = Append(v, e)
      BY <3>1, SequenceEmptyOrAppend
    <3>3. Len(v) = n
      <4>1. Len(v) \in Nat /\ Len(u) = Len(v) + 1
        BY <3>2, AppendProperties, LenProperties
      <4> QED
        BY <1>2, <2>1, <4>1
    <3>4. FlattenSeq(s \o v) = FlattenSeq(s) \o FlattenSeq(v)
      BY <1>2, <3>3
    <3>5. s \o v \in Seq(Q) /\ s \o Append(v, e) = Append(s \o v, e)
      <4>1. <<e>> \in Seq(Q)
        OBVIOUS
      <4>2. s \o v \in Seq(Q)
        BY <1>0, ConcatProperties
      <4>3. Append(v, e) = v \o <<e>> /\ Append(s \o v, e) = (s \o v) \o <<e>>
        BY <4>2, AppendIsConcat
      <4> HIDE DEF Q
      <4> QED
        BY <1>0, <4>1, <4>2, <4>3, ConcatAssociative
    <3>6. FlattenSeq(Append(s \o v, e)) = FlattenSeq(s \o v) \o e
      BY <3>5, FlattenAppends
    <3>7. FlattenSeq(Append(v, e)) = FlattenSeq(v) \o e
      BY FlattenAppends
    <3>8. FlattenSeq(v) \in Seq(T)
      BY FlattenHolds
    <3>9. (FlattenSeq(s) \o FlattenSeq(v)) \o e = FlattenSeq(s) \o (FlattenSeq(v) \o e)
      <4>1. PICK a, b : a = FlattenSeq(s) /\ b = FlattenSeq(v)
        OBVIOUS
      <4>2. a \in Seq(T) /\ b \in Seq(T) /\ e \in Seq(T)
        BY <1>0, <3>8, <4>1
      <4>3. (a \o b) \o e = a \o (b \o e)
        BY ONLY <4>2, ConcatAssociative, SMTT(30)
      <4> QED
        BY <4>1, <4>3
    <3> QED
      BY <3>2, <3>4, <3>5, <3>6, <3>7, <3>9
  <2> QED
    BY <2>1
<1>3. Len(t) \in Nat
  BY <1>0, LenProperties
<1> HIDE DEF S
<1>4. Len(t) \in S
  BY <1>1, <1>2, <1>3, Induction
<1> QED
  BY <1>0, <1>4 DEF S

\* A member that no other is before is the first.
LEMMA FirstInIs ==
  ASSUME NEW M, NEW ms \in Seq(M), NEW S, NEW i \in At(ms, S), \A j \in At(ms, S) : i <= j
  PROVE  FirstIn(ms, S) = ms[i]
<1>1. At(ms, S) \subseteq Nat
  BY LenProperties DEF At
<1>2. Min(At(ms, S)) = i
  BY <1>1 DEF Min
<1> QED
  BY <1>2 DEF FirstIn

LEMMA LastInIs ==
  ASSUME NEW M, NEW ms \in Seq(M), NEW S, NEW i \in At(ms, S), \A j \in At(ms, S) : j <= i
  PROVE  LastIn(ms, S) = ms[i]
<1>1. At(ms, S) \subseteq Nat
  BY LenProperties DEF At
<1>2. Max(At(ms, S)) = i
  BY <1>1 DEF Max
<1> QED
  BY <1>2 DEF LastIn

\* There are a first and a last member of what is not empty.
LEMMA FirstAndLastExist ==
  ASSUME NEW M, NEW ms \in Seq(M), NEW S, At(ms, S) # {}
  PROVE  /\ \E i \in At(ms, S) : \A j \in At(ms, S) : i <= j
         /\ \E i \in At(ms, S) : \A j \in At(ms, S) : j <= i
<1>1. At(ms, S) \subseteq 1 .. Len(ms) /\ Len(ms) \in Nat
  BY LenProperties DEF At
<1>2. \E i \in At(ms, S) : \A j \in At(ms, S) : i <= j
  BY <1>1, LeastExists
<1>3. \E i \in At(ms, S) : \A j \in At(ms, S) : j <= i
  <2> DEFINE R == {Len(ms) - i : i \in At(ms, S)}
  <2>1. R \subseteq Nat /\ R # {}
    BY <1>1
  <2>2. PICK x \in R : \A y \in R : x <= y
    BY <2>1, LeastExists
  <2>3. PICK i \in At(ms, S) : x = Len(ms) - i
    BY <2>2
  <2>4. \A j \in At(ms, S) : Len(ms) - i <= Len(ms) - j
    BY <2>2, <2>3
  <2> QED
    BY <1>1, <2>4
<1> QED
  BY <1>2, <1>3

LEMMA FirstInHolds ==
  ASSUME NEW M, NEW ms \in Seq(M), NEW S, ToSet(ms) \cap S # {}
  PROVE  FirstIn(ms, S) \in ToSet(ms) \cap S
<1>1. At(ms, S) # {}
  BY DEF At, ToSet
<1>2. PICK i \in At(ms, S) : \A j \in At(ms, S) : i <= j
  BY <1>1, FirstAndLastExist
<1> QED
  BY <1>2, FirstInIs DEF At, ToSet

\* The first of two sequences, of which the first has one, and of which it has none.
LEMMA FirstOfConcat ==
  ASSUME NEW M, NEW s \in Seq(M), NEW t \in Seq(M), NEW S
  PROVE  /\ ToSet(s) \cap S # {} => FirstIn(s \o t, S) = FirstIn(s, S)
         /\ ToSet(s) \cap S = {} => FirstIn(s \o t, S) = FirstIn(t, S)
<1>1. PICK q : q = s \o t
  OBVIOUS
<1>2. /\ Len(s) \in Nat /\ Len(t) \in Nat /\ DOMAIN s = 1 .. Len(s) /\ DOMAIN t = 1 .. Len(t)
      /\ DOMAIN q = 1 .. Len(s) + Len(t) /\ q \in Seq(M)
      /\ \A i \in 1 .. Len(s) + Len(t) : q[i] = IF i <= Len(s) THEN s[i] ELSE t[i - Len(s)]
  BY <1>1, ConcatProperties, LenProperties
<1>3. ASSUME ToSet(s) \cap S # {} PROVE FirstIn(q, S) = FirstIn(s, S)
  <2>1. At(s, S) # {}
    BY <1>3 DEF At, ToSet
  <2>2. PICK i \in At(s, S) : \A j \in At(s, S) : i <= j
    BY <2>1, FirstAndLastExist
  <2>3. i \in At(q, S) /\ q[i] = s[i]
    BY <1>2, <2>2 DEF At
  <2>4. ASSUME NEW j \in At(q, S) PROVE i <= j
    <3>1. CASE j <= Len(s)
      <4>1. j \in At(s, S)
        BY <1>2, <3>1, <2>4 DEF At
      <4> QED
        BY <2>2, <4>1
    <3>2. CASE ~(j <= Len(s))
      BY <1>2, <2>2, <2>4, <3>2 DEF At
    <3> QED
      BY <3>1, <3>2
  <2> QED
    BY <1>2, <2>2, <2>3, <2>4, FirstInIs
<1>4. ASSUME ToSet(s) \cap S = {} PROVE FirstIn(q, S) = FirstIn(t, S)
  <2>1. \A i \in DOMAIN s : s[i] \notin S
    BY <1>4 DEF ToSet
  <2>2. ASSUME NEW j \in At(q, S) PROVE j - Len(s) \in At(t, S)
    BY <1>2, <2>1, <2>2 DEF At
  <2>3. ASSUME NEW j \in At(t, S) PROVE j + Len(s) \in At(q, S) /\ q[j + Len(s)] = t[j]
    <3>1. j + Len(s) \in DOMAIN q /\ ~(j + Len(s) <= Len(s)) /\ (j + Len(s)) - Len(s) = j
      BY <1>2, <2>3 DEF At
    <3> QED
      BY <1>2, <2>3, <3>1 DEF At
  <2>4. CASE At(t, S) = {}
    <3>1. At(q, S) = {}
      BY <2>2, <2>4
    <3> QED
      BY <2>4, <3>1 DEF FirstIn
  <2>5. CASE At(t, S) # {}
    <3>1. PICK i \in At(t, S) : \A j \in At(t, S) : i <= j
      BY <2>5, FirstAndLastExist
    <3>2. \A j \in At(q, S) : i + Len(s) <= j
      <4>1. At(q, S) \subseteq Nat /\ i \in Nat
        BY <1>2, <3>1 DEF At
      <4> QED
        BY <1>2, <2>2, <3>1, <4>1
    <3> QED
      BY <1>2, <2>3, <3>1, <3>2, FirstInIs
  <2> QED
    BY <2>4, <2>5
<1> QED
  BY <1>1, <1>3, <1>4

LEMMA LastOfConcat ==
  ASSUME NEW M, NEW s \in Seq(M), NEW t \in Seq(M), NEW S
  PROVE  /\ ToSet(t) \cap S # {} => LastIn(s \o t, S) = LastIn(t, S)
         /\ ToSet(t) \cap S = {} => LastIn(s \o t, S) = LastIn(s, S)
<1>1. PICK q : q = s \o t
  OBVIOUS
<1>2. /\ Len(s) \in Nat /\ Len(t) \in Nat /\ DOMAIN s = 1 .. Len(s) /\ DOMAIN t = 1 .. Len(t)
      /\ DOMAIN q = 1 .. Len(s) + Len(t) /\ q \in Seq(M)
      /\ \A i \in 1 .. Len(s) + Len(t) : q[i] = IF i <= Len(s) THEN s[i] ELSE t[i - Len(s)]
  BY <1>1, ConcatProperties, LenProperties
<1>3. ASSUME ToSet(t) \cap S # {} PROVE LastIn(q, S) = LastIn(t, S)
  <2>1. At(t, S) # {}
    BY <1>3 DEF At, ToSet
  <2>2. PICK i \in At(t, S) : \A j \in At(t, S) : j <= i
    BY <2>1, FirstAndLastExist
  <2>3. i + Len(s) \in At(q, S) /\ q[i + Len(s)] = t[i]
    <3>1. i + Len(s) \in DOMAIN q /\ ~(i + Len(s) <= Len(s)) /\ (i + Len(s)) - Len(s) = i
      BY <1>2, <2>2 DEF At
    <3> QED
      BY <1>2, <2>2, <3>1 DEF At
  <2>4. ASSUME NEW j \in At(q, S) PROVE j <= i + Len(s)
    <3>1. CASE j <= Len(s)
      BY <1>2, <2>2, <2>4, <3>1 DEF At
    <3>2. CASE ~(j <= Len(s))
      <4>1. j - Len(s) \in At(t, S)
        BY <1>2, <3>2, <2>4 DEF At
      <4> QED
        BY <1>2, <2>2, <2>4, <4>1 DEF At
    <3> QED
      BY <3>1, <3>2
  <2> QED
    BY <1>2, <2>2, <2>3, <2>4, LastInIs
<1>4. ASSUME ToSet(t) \cap S = {} PROVE LastIn(q, S) = LastIn(s, S)
  <2>1. \A i \in DOMAIN t : t[i] \notin S
    BY <1>4 DEF ToSet
  <2>2. ASSUME NEW j \in At(q, S) PROVE j \in At(s, S)
    <3>1. j <= Len(s)
      <4> SUFFICES ASSUME ~(j <= Len(s)) PROVE FALSE
        BY <1>2 DEF At
      <4>1. j - Len(s) \in DOMAIN t /\ q[j] = t[j - Len(s)]
        BY <1>2, <2>2 DEF At
      <4> QED
        BY <2>1, <2>2, <4>1 DEF At
    <3> QED
      BY <1>2, <2>2, <3>1 DEF At
  <2>3. ASSUME NEW j \in At(s, S) PROVE j \in At(q, S) /\ q[j] = s[j]
    BY <1>2, <2>3 DEF At
  <2>4. CASE At(s, S) = {}
    <3>1. At(q, S) = {}
      BY <2>2, <2>4
    <3> QED
      BY <2>4, <3>1 DEF LastIn
  <2>5. CASE At(s, S) # {}
    <3>1. PICK i \in At(s, S) : \A j \in At(s, S) : j <= i
      BY <2>5, FirstAndLastExist
    <3> QED
      BY <1>2, <2>2, <2>3, <3>1, LastInIs
  <2> QED
    BY <2>4, <2>5
<1> QED
  BY <1>1, <1>3, <1>4

-----------------------------------------------------------------------------
(* What Each makes of a list, and the methods of a list of classes.        *)

\* Sequences of D one after another hold what each holds.
LEMMA EachHolds ==
  ASSUME NEW C, NEW D, NEW f, \A c \in C : f[c] \in Seq(D), NEW cs \in Seq(C)
  PROVE  /\ Each(f, cs) \in Seq(D)
         /\ ToSet(Each(f, cs)) = UNION {ToSet(f[cs[i]]) : i \in DOMAIN cs}
<1>1. PICK s : s = [i \in DOMAIN cs |-> f[cs[i]]]
  OBVIOUS
<1>2. s \in Seq(Seq(D)) /\ DOMAIN s = DOMAIN cs /\ \A i \in DOMAIN s : s[i] = f[cs[i]]
  <2>1. DOMAIN cs = 1 .. Len(cs) /\ Len(cs) \in Nat /\ \A i \in DOMAIN cs : cs[i] \in C
    BY LenProperties
  <2>2. s \in [1 .. Len(cs) -> Seq(D)]
    BY <1>1, <2>1
  <2>3. s \in Seq(Seq(D))
    BY <2>1, <2>2, SeqDef
  <2> QED
    BY <1>1, <2>3
<1>3. Each(f, cs) = FlattenSeq(s)
  BY <1>1 DEF Each
<1>4. PICK r : r = FlattenSeq(s)
  OBVIOUS
<1>5. r \in Seq(D) /\ \A x : x \in ToSet(r) <=> \E i \in DOMAIN s : x \in ToSet(s[i])
  BY <1>2, <1>4, FlattenHolds
<1>6. ToSet(r) = UNION {ToSet(f[cs[i]]) : i \in DOMAIN cs}
  <2>1. \A x : x \in ToSet(r) <=> \E i \in DOMAIN cs : x \in ToSet(f[cs[i]])
    BY ONLY <1>2, <1>5
  <2> QED
    BY ONLY <2>1
<1> QED
  BY <1>3, <1>4, <1>5, <1>6

LEMMA EachReaches ==
  ASSUME NEW C, NEW D, NEW f, \A c \in C : f[c] \in Seq(D), NEW cs \in Seq(C),
         NEW i \in DOMAIN cs, NEW x \in ToSet(f[cs[i]])
  PROVE  x \in ToSet(Each(f, cs))
<1>1. ToSet(Each(f, cs)) = UNION {ToSet(f[cs[j]]) : j \in DOMAIN cs}
  BY EachHolds
<1> QED
  BY <1>1

Walks(f, cs) == [i \in DOMAIN cs |-> f[cs[i]]]

LEMMA WalksAre ==
  ASSUME NEW C, NEW Q, NEW f, \A c \in C : f[c] \in Q, NEW cs \in Seq(C)
  PROVE  Walks(f, cs) \in Seq(Q)
<1>1. DOMAIN cs = 1 .. Len(cs) /\ Len(cs) \in Nat /\ \A i \in DOMAIN cs : cs[i] \in C
  BY LenProperties
<1>2. PICK w : w = Walks(f, cs)
  OBVIOUS
<1>3. w \in [1 .. Len(cs) -> Q]
  BY <1>1, <1>2 DEF Walks
<1>4. w \in Seq(Q)
  BY <1>1, <1>3, SeqDef
<1> QED
  BY <1>2, <1>4

LEMMA WalksLen ==
  ASSUME NEW C, NEW f, NEW cs \in Seq(C)
  PROVE  /\ Len(Walks(f, cs)) = Len(cs)
         /\ \A i \in 1 .. Len(cs) : Walks(f, cs)[i] = f[cs[i]]
<1>1. DOMAIN cs = 1 .. Len(cs) /\ Len(cs) \in Nat
  BY LenProperties
<1>2. PICK Q : Q = {f[c] : c \in C}
  OBVIOUS
<1>3. PICK w : w = Walks(f, cs)
  OBVIOUS
<1>4. w \in Seq(Q)
  BY <1>2, <1>3, WalksAre
<1>5. DOMAIN w = 1 .. Len(cs) /\ \A i \in 1 .. Len(cs) : w[i] = f[cs[i]]
  BY <1>1, <1>3 DEF Walks
<1>6. Len(w) = Len(cs)
  BY <1>1, <1>4, <1>5, LenProperties
<1> QED
  BY <1>3, <1>5, <1>6

LEMMA EachConcat ==
  ASSUME NEW C, NEW D, NEW f, \A c \in C : f[c] \in Seq(D), NEW s \in Seq(C), NEW t \in Seq(C)
  PROVE  Each(f, s \o t) = Each(f, s) \o Each(f, t)
<1>1. PICK Q : Q = Seq(D)
  OBVIOUS
<1>2. PICK q : q = s \o t
  OBVIOUS
<1>3. /\ q \in Seq(C) /\ Len(s) \in Nat /\ Len(t) \in Nat /\ Len(q) = Len(s) + Len(t)
      /\ \A i \in 1 .. Len(s) + Len(t) : q[i] = IF i <= Len(s) THEN s[i] ELSE t[i - Len(s)]
  BY <1>2, ConcatProperties, LenProperties
<1>4. PICK a, b, e : a = Walks(f, s) /\ b = Walks(f, t) /\ e = Walks(f, q)
  OBVIOUS
<1>5. a \in Seq(Q) /\ b \in Seq(Q) /\ e \in Seq(Q)
  <2>1. a \in Seq(Q)
    BY <1>1, <1>4, WalksAre
  <2>2. b \in Seq(Q)
    BY <1>1, <1>4, WalksAre
  <2>3. e \in Seq(Q)
    BY <1>1, <1>3, <1>4, WalksAre
  <2> QED
    BY <2>1, <2>2, <2>3
<1>6. /\ Len(a) = Len(s) /\ \A i \in 1 .. Len(s) : a[i] = f[s[i]]
      /\ Len(b) = Len(t) /\ \A i \in 1 .. Len(t) : b[i] = f[t[i]]
      /\ Len(e) = Len(q) /\ \A i \in 1 .. Len(q) : e[i] = f[q[i]]
  <2>1. Len(a) = Len(s) /\ \A i \in 1 .. Len(s) : a[i] = f[s[i]]
    BY <1>4, WalksLen
  <2>2. Len(b) = Len(t) /\ \A i \in 1 .. Len(t) : b[i] = f[t[i]]
    BY <1>4, WalksLen
  <2>3. Len(e) = Len(q) /\ \A i \in 1 .. Len(q) : e[i] = f[q[i]]
    <3>1. q \in Seq(C) /\ e = Walks(f, q)
      BY <1>3, <1>4
    <3> QED
      BY ONLY <3>1, WalksLen
  <2> QED
    BY <2>1, <2>2, <2>3
<1>7. PICK g : g = a \o b
  OBVIOUS
<1>8. /\ g \in Seq(Q) /\ Len(g) = Len(a) + Len(b)
      /\ \A i \in 1 .. Len(a) + Len(b) : g[i] = IF i <= Len(a) THEN a[i] ELSE b[i - Len(a)]
  BY ONLY <1>5, <1>7, ConcatProperties
<1>9. ASSUME NEW i \in 1 .. Len(e) PROVE e[i] = g[i]
  <2>1. i \in 1 .. Len(a) + Len(b) /\ e[i] = f[q[i]]
    BY <1>3, <1>5, <1>6
  <2>2. CASE i <= Len(s)
    <3>1. i \in 1 .. Len(s) /\ i <= Len(a)
      BY <1>3, <1>5, <1>6, <2>1, <2>2
    <3>2. q[i] = s[i] /\ g[i] = a[i] /\ a[i] = f[s[i]]
      BY <1>3, <1>6, <1>8, <2>1, <3>1
    <3> QED
      BY <2>1, <3>2
  <2>3. CASE ~(i <= Len(s))
    <3>1. i - Len(s) \in 1 .. Len(t)
      BY <1>3, <1>5, <1>6, <2>1, <2>3
    <3>2. q[i] = t[i - Len(s)] /\ g[i] = b[i - Len(s)]
      BY <1>3, <1>5, <1>6, <1>8, <2>1, <2>3
    <3> QED
      BY <1>5, <1>6, <2>1, <3>1, <3>2
  <2> QED
    BY <2>2, <2>3
<1>10. e = g
  BY <1>3, <1>5, <1>6, <1>8, <1>9, SeqEqual
<1>11. FlattenSeq(a \o b) = FlattenSeq(a) \o FlattenSeq(b)
  BY <1>1, <1>5, <1>6, FlattenConcat
<1>12. Each(f, s) = FlattenSeq(a) /\ Each(f, t) = FlattenSeq(b) /\ Each(f, q) = FlattenSeq(e)
  BY <1>4 DEF Each, Walks
<1> QED
  BY <1>2, <1>7, <1>10, <1>11, <1>12

Methods == UNION {ToSet(Own(c)) : c \in Classes}

\* The methods of a class are numbered from 1.
AreNumbered == \A c \in Classes : \E n \in Nat : DOMAIN program.methods[c] = 1 .. n

Owns == [c \in Classes |-> Own(c)]

LEMMA OwnIs ==
  ASSUME AreNumbered, NEW c \in Classes
  PROVE  /\ Own(c) \in Seq(Methods)
         /\ \A m : m \in ToSet(Own(c)) <=> \E i \in DOMAIN program.methods[c] : m = <<c, i>>
<1>1. PICK n \in Nat : DOMAIN program.methods[c] = 1 .. n
  BY DEF AreNumbered
<1>2. \A m : m \in ToSet(Own(c)) <=> \E i \in DOMAIN program.methods[c] : m = <<c, i>>
  BY DEF Own, ToSet
<1>3. PICK own : own = Own(c)
  OBVIOUS
<1>4. DOMAIN own = 1 .. n /\ own = [i \in 1 .. n |-> own[i]] /\ \A i \in 1 .. n : own[i] \in Methods
  <2>1. own = [i \in 1 .. n |-> <<c, i>>]
    BY <1>1, <1>3 DEF Own
  <2>2. \A i \in 1 .. n : own[i] \in ToSet(own)
    BY <2>1 DEF ToSet
  <2>3. ToSet(own) \subseteq Methods
    BY <1>3 DEF Methods
  <2> QED
    BY <2>1, <2>2, <2>3
<1>5. own \in Seq(Methods)
  <2>1. own \in [1 .. n -> Methods]
    BY <1>4
  <2> QED
    BY <2>1, SeqDef
<1> QED
  BY <1>2, <1>3, <1>5

LEMMA MethodsOfIs ==
  ASSUME NEW cs \in Seq(Classes)
  PROVE  MethodsOf(cs) = Each(Owns, cs)
<1>1. \A i \in DOMAIN cs : cs[i] \in Classes
  OBVIOUS
<1>2. [i \in DOMAIN cs |-> Own(cs[i])] = [i \in DOMAIN cs |-> Owns[cs[i]]]
  BY <1>1 DEF Owns
<1> QED
  BY <1>2 DEF MethodsOf, Each

LEMMA OwnsAre ==
  ASSUME AreNumbered
  PROVE  \A c \in Classes : Owns[c] \in Seq(Methods)
BY OwnIs DEF Owns

LEMMA MethodsOfAre ==
  ASSUME AreNumbered, NEW cs \in Seq(Classes)
  PROVE  /\ MethodsOf(cs) \in Seq(Methods)
         /\ \A m : m \in ToSet(MethodsOf(cs)) <=>
                     \E c \in ToSet(cs) : \E i \in DOMAIN program.methods[c] : m = <<c, i>>
<1>1. PICK r : r = Each(Owns, cs)
  OBVIOUS
<1>2. r \in Seq(Methods) /\ ToSet(r) = UNION {ToSet(Owns[cs[i]]) : i \in DOMAIN cs}
  <2>1. \A c \in Classes : Owns[c] \in Seq(Methods)
    BY OwnsAre
  <2> QED
    BY ONLY <1>1, <2>1, cs \in Seq(Classes), EachHolds
<1>3. \A i \in DOMAIN cs : cs[i] \in Classes
  OBVIOUS
<1>4. \A c \in Classes : \A m :
        m \in ToSet(Owns[c]) <=> \E i \in DOMAIN program.methods[c] : m = <<c, i>>
  BY OwnIs DEF Owns
<1>5. ToSet(cs) = {cs[i] : i \in DOMAIN cs}
  BY DEF ToSet
<1>6. \A m : m \in ToSet(r) <=> \E c \in ToSet(cs) : m \in ToSet(Owns[c])
  BY <1>2, <1>5
<1>7. ToSet(cs) \subseteq Classes
  BY <1>3, <1>5
<1>8. \A m : m \in ToSet(r) <=> \E c \in ToSet(cs) : \E i \in DOMAIN program.methods[c] : m = <<c, i>>
  BY <1>4, <1>6, <1>7
<1> QED
  BY <1>1, <1>2, <1>8, MethodsOfIs

LEMMA MethodsOfConcat ==
  ASSUME AreNumbered, NEW s \in Seq(Classes), NEW t \in Seq(Classes)
  PROVE  MethodsOf(s \o t) = MethodsOf(s) \o MethodsOf(t)
<1>1. Each(Owns, s \o t) = Each(Owns, s) \o Each(Owns, t)
  BY OwnsAre, EachConcat
<1>2. s \o t \in Seq(Classes)
  BY ConcatProperties
<1> QED
  BY <1>1, <1>2, MethodsOfIs

LEMMA MethodsOfOne == ASSUME NEW c \in Classes PROVE MethodsOf(<<c>>) = Own(c)
<1>1. <<c>> \in Seq(Classes)
  OBVIOUS
<1> QED
  <2>1. MethodsOf(<<c>>) = Each(Owns, <<c>>)
    BY <1>1, MethodsOfIs
  <2>2. Each(Owns, <<c>>) = Owns[c]
    BY EachOfOne
  <2> QED
    BY <2>1, <2>2 DEF Owns

-----------------------------------------------------------------------------
(* What the declarations show above a class while the checker visits.      *)

\* The class c names i, and has been visited or follows it.
KnownTo(V, c, i) == c \in V \/ Before(i, c)

\* The steps up that the declarations show when the classes of V have been visited.
UpDeclared(V) == [c \in Classes |-> Declared(V)[c].base \o Declared(V)[c].interfaces]

LEMMA DeclaredInterfaces ==
  ASSUME NEW N, NEW h, Heights(N, h), NEW V, NEW c \in Classes
  PROVE  /\ Declared(V)[c].interfaces \in Seq(Classes)
         /\ \A x : x \in ToSet(Declared(V)[c].interfaces) <=>
              \E j \in DOMAIN program.interfaces[c] :
                x = program.interfaces[c][j] /\ KnownTo(V, c, x)
<1>1. PICK s, k, e : s = program.interfaces[c] /\ k = Known(V, c) /\ e = Each(k, s)
  OBVIOUS
<1>2. s \in Seq(Classes)
  BY <1>1 DEF Heights
<1>3. ASSUME NEW d \in Classes
      PROVE  k[d] \in Seq(Classes) /\ \A x : x \in ToSet(k[d]) <=> x = d /\ KnownTo(V, c, d)
  <2>1. CASE KnownTo(V, c, d)
    <3>1. k[d] = <<d>>
      BY <1>1, <2>1 DEF Known, KnownTo
    <3> QED
      BY <2>1, <3>1 DEF ToSet
  <2>2. CASE ~KnownTo(V, c, d)
    <3>1. k[d] = <<>>
      BY <1>1, <2>2 DEF Known, KnownTo
    <3>2. ToSet(k[d]) = {} /\ k[d] \in Seq(Classes)
      BY <3>1 DEF ToSet
    <3> QED
      BY <2>2, <3>2
  <2> QED
    BY <2>1, <2>2
<1>4. e \in Seq(Classes) /\ ToSet(e) = UNION {ToSet(k[s[i]]) : i \in DOMAIN s}
  <2>1. \A d \in Classes : k[d] \in Seq(Classes)
    BY <1>3
  <2>2. s \in Seq(Classes)
    BY <1>2
  <2>3. Each(k, s) \in Seq(Classes) /\ ToSet(Each(k, s)) = UNION {ToSet(k[s[i]]) : i \in DOMAIN s}
    BY ONLY <2>1, <2>2, EachHolds
  <2> QED
    BY <1>1, <2>3
<1>5. \A i \in DOMAIN s : s[i] \in Classes
  BY <1>2
<1>6. \A x : x \in ToSet(e) <=> \E j \in DOMAIN s : x = s[j] /\ KnownTo(V, c, x)
  <2>1. \A x : x \in ToSet(e) <=> \E j \in DOMAIN s : x \in ToSet(k[s[j]])
    BY <1>4
  <2>2. \A j \in DOMAIN s : \A x : x \in ToSet(k[s[j]]) <=> x = s[j] /\ KnownTo(V, c, s[j])
    BY <1>3, <1>5
  <2> QED
    BY <2>1, <2>2
<1>7. Declared(V)[c].interfaces = e
  BY <1>1 DEF Declared, Known
<1> QED
  BY <1>1, <1>4, <1>6, <1>7

LEMMA DeclaredUp ==
  ASSUME NEW N, NEW h, Heights(N, h), None \notin Classes, BasesComeFirst(program), NEW V
  PROVE  /\ Falls(Classes, UpDeclared(V), N, h)
         /\ \A c \in Classes : \A x :
              x \in ToSet(UpDeclared(V)[c]) <=>
                \/ program.base[c] # None /\ x = program.base[c]
                \/ \E j \in DOMAIN program.interfaces[c] :
                     x = program.interfaces[c][j] /\ KnownTo(V, c, x)
<1>1. ASSUME NEW c \in Classes
      PROVE  /\ UpDeclared(V)[c] \in Seq(Classes)
             /\ \A x : x \in ToSet(UpDeclared(V)[c]) <=>
                  \/ program.base[c] # None /\ x = program.base[c]
                  \/ \E j \in DOMAIN program.interfaces[c] :
                       x = program.interfaces[c][j] /\ KnownTo(V, c, x)
  <2>1. PICK e : e = Declared(V)[c].interfaces
    OBVIOUS
  <2>2. Base(c) \in Seq(Classes)
    BY DEF Heights, Base
  <2>4. e \in Seq(Classes)
    BY <2>1, DeclaredInterfaces
  <2>6. \A x : x \in ToSet(e) <=>
          \E j \in DOMAIN program.interfaces[c] :
            x = program.interfaces[c][j] /\ KnownTo(V, c, x)
    BY <2>1, DeclaredInterfaces
  <2>7. UpDeclared(V)[c] = Base(c) \o e
    <3>1. Declared(V)[c].base = Base(c)
      BY BasesAreKnown
    <3> QED
      BY <2>1, <3>1 DEF UpDeclared
  <2>8. \A x : x \in ToSet(Base(c)) <=> program.base[c] # None /\ x = program.base[c]
    BY DEF Base, ToSet
  <2>9. Base(c) \o e \in Seq(Classes)
    BY <2>2, <2>4, ConcatProperties
  <2>10. \A x : x \in ToSet(Base(c) \o e) <=> x \in ToSet(Base(c)) \/ x \in ToSet(e)
    BY <2>2, <2>4, ConcatHolds
  <2> QED
    BY <2>1, <2>6, <2>7, <2>8, <2>9, <2>10
<1>2. ASSUME NEW c \in Classes, NEW i \in DOMAIN UpDeclared(V)[c]
      PROVE  h[UpDeclared(V)[c][i]] < h[c]
  <2>1. PICK x : x = UpDeclared(V)[c][i]
    OBVIOUS
  <2>2. x \in ToSet(UpDeclared(V)[c])
    BY <2>1 DEF ToSet
  <2>3. \/ program.base[c] # None /\ x = program.base[c]
        \/ \E j \in DOMAIN program.interfaces[c] : x = program.interfaces[c][j]
    BY <1>1, <2>2
  <2>4. h[x] < h[c]
    BY <2>3 DEF Heights
  <2> QED
    BY <2>1, <2>4
<1> QED
  BY <1>1, <1>2 DEF Falls, Heights

LEMMA DeclaredWalk ==
  ASSUME NEW V, NEW N, NEW h, Falls(Classes, UpDeclared(V), N, h)
  PROVE  IsWalk(PreOrder(Declared(V)), Classes, UpDeclared(V))
<1>1. \A f : IsWalk(f, Classes, UpDeclared(V)) <=> IsPreOrder(f, Declared(V))
  <2> SUFFICES ASSUME NEW f
               PROVE  IsWalk(f, Classes, UpDeclared(V)) <=> IsPreOrder(f, Declared(V))
    OBVIOUS
  <2>1. [c \in Classes |-> <<c>> \o Each(f, UpDeclared(V)[c])]
          = [c \in Classes |-> <<c>> \o Each(f, Declared(V)[c].base \o Declared(V)[c].interfaces)]
    BY DEF UpDeclared
  <2> QED
    BY <2>1 DEF IsWalk, IsPreOrder
<1>2. \E f : IsPreOrder(f, Declared(V))
  BY <1>1, WalkExists
<1> DEFINE walk == CHOOSE f : IsPreOrder(f, Declared(V))
<1>3. IsPreOrder(walk, Declared(V))
  BY <1>2
<1>4. PreOrder(Declared(V)) = walk
  BY Zenon DEF PreOrder, IsPreOrder
<1> QED
  BY <1>1, <1>3, <1>4

\* What follows c in its walk is in a walk from above it.
Continues(f, up, c) ==
  \A x : x \in ToSet(Tail(f[c])) <=> \E b \in ToSet(up[c]) : x \in ToSet(f[b])

\* A walk begins with its class; the rest are the walks from above it.
LEMMA WalkTail ==
  ASSUME NEW C, NEW up, NEW N, NEW h, Falls(C, up, N, h), NEW f, IsWalk(f, C, up), NEW c \in C
  PROVE  /\ Tail(f[c]) \in Seq(C)
         /\ \A x : x \in ToSet(f[c]) <=> x = c \/ x \in ToSet(Tail(f[c]))
         /\ Continues(f, up, c)
<1>1. f[c] = <<c>> \o Each(f, up[c])
  BY DEF IsWalk
<1>2. \A d \in C : f[d] \in Seq(C)
  BY WalkHolds
<1>9. up[c] \in Seq(C)
  BY DEF Falls
<1>3. PICK t : t = Each(f, up[c])
  OBVIOUS
<1>4. t \in Seq(C) /\ ToSet(t) = UNION {ToSet(f[up[c][i]]) : i \in DOMAIN up[c]}
  <2>1. PICK s : s = up[c]
    OBVIOUS
  <2>2. s \in Seq(C)
    BY <1>9, <2>1
  <2>3. Each(f, s) \in Seq(C) /\ ToSet(Each(f, s)) = UNION {ToSet(f[s[i]]) : i \in DOMAIN s}
    BY ONLY <1>2, <2>2, EachHolds
  <2> QED
    BY <1>3, <2>1, <2>3
<1>5. \A x : x \in ToSet(t) <=> \E b \in ToSet(up[c]) : x \in ToSet(f[b])
  <2>1. ToSet(up[c]) = {up[c][i] : i \in DOMAIN up[c]}
    BY DEF ToSet
  <2> QED
    BY <1>4, <2>1
<1>6. Tail(<<c>> \o t) = t
  BY <1>4
<1>7. \A x : x \in ToSet(<<c>> \o t) <=> x \in ToSet(<<c>>) \/ x \in ToSet(t)
  <2>1. <<c>> \in Seq(C)
    OBVIOUS
  <2> QED
    BY <1>4, <2>1, ConcatHolds
<1>8. \A x : x \in ToSet(<<c>>) <=> x = c
  BY DEF ToSet
<1> QED
  BY <1>1, <1>3, <1>4, <1>5, <1>6, <1>7, <1>8 DEF Continues

LEMMA DeclaredAbove ==
  ASSUME NEW N, NEW h, Heights(N, h), None \notin Classes, BasesComeFirst(program), NEW V,
         NEW f, f = PreOrder(Declared(V)), NEW c \in Classes
  PROVE  /\ f[c] \in Seq(Classes) /\ Tail(f[c]) \in Seq(Classes)
         /\ \A x : x \in ToSet(f[c]) <=> x = c \/ x \in ToSet(Tail(f[c]))
         /\ \A x : x \in ToSet(Tail(f[c])) <=>
              \/ program.base[c] # None /\ x \in ToSet(f[program.base[c]])
              \/ \E j \in DOMAIN program.interfaces[c] :
                   /\ KnownTo(V, c, program.interfaces[c][j])
                   /\ x \in ToSet(f[program.interfaces[c][j]])
<1>1. PICK u : u = UpDeclared(V)
  OBVIOUS
<1>2. Falls(Classes, u, N, h)
  BY <1>1, DeclaredUp
<1>3. IsWalk(f, Classes, u)
  BY <1>1, <1>2, DeclaredWalk
<1>4. \A x : x \in ToSet(u[c]) <=> \/ program.base[c] # None /\ x = program.base[c]
                                   \/ \E j \in DOMAIN program.interfaces[c] :
                                        x = program.interfaces[c][j] /\ KnownTo(V, c, x)
  BY <1>1, DeclaredUp
<1>5. /\ Tail(f[c]) \in Seq(Classes)
      /\ \A x : x \in ToSet(f[c]) <=> x = c \/ x \in ToSet(Tail(f[c]))
      /\ \A x : x \in ToSet(Tail(f[c])) <=> \E b \in ToSet(u[c]) : x \in ToSet(f[b])
  <2>1. Tail(f[c]) \in Seq(Classes)
    BY <1>2, <1>3, WalkTail
  <2>2. \A x : x \in ToSet(f[c]) <=> x = c \/ x \in ToSet(Tail(f[c]))
    BY <1>2, <1>3, WalkTail
  <2>3. \A x : x \in ToSet(Tail(f[c])) <=> \E b \in ToSet(u[c]) : x \in ToSet(f[b])
    <3>1. Continues(f, u, c)
      BY <1>2, <1>3, WalkTail
    <3> QED
      BY <3>1 DEF Continues
  <2> QED
    BY <2>1, <2>2, <2>3
<1>6. f[c] \in Seq(Classes)
  BY <1>2, <1>3, WalkHolds
<1>7. \A x : x \in ToSet(Tail(f[c])) <=>
              \/ program.base[c] # None /\ x \in ToSet(f[program.base[c]])
              \/ \E j \in DOMAIN program.interfaces[c] :
                   /\ KnownTo(V, c, program.interfaces[c][j])
                   /\ x \in ToSet(f[program.interfaces[c][j]])
  BY <1>4, <1>5
<1> QED
  BY <1>5, <1>6, <1>7

\* Nothing is shown that is not above the class, and all if what is above it is known.
LEMMA DeclaredIsAbove ==
  ASSUME NEW N, NEW h, Heights(N, h), None \notin Classes, BasesComeFirst(program), NEW V,
         NEW f, f = PreOrder(Declared(V))
  PROVE  \A c \in Classes :
           /\ ToSet(f[c]) \subseteq Sup[c]
           /\ (\A d \in Sup[c] : \A i \in DOMAIN program.interfaces[d] :
                 KnownTo(V, d, program.interfaces[d][i])) => ToSet(f[c]) = Sup[c]
<1> DEFINE Full(d) == \A i \in DOMAIN program.interfaces[d] : KnownTo(V, d, program.interfaces[d][i])
           S == {c \in Classes : /\ ToSet(f[c]) \subseteq Sup[c]
                                 /\ (\A d \in Sup[c] : Full(d)) => ToSet(f[c]) = Sup[c]}
<1>1. ASSUME NEW c \in Classes,
             program.base[c] # None => program.base[c] \in S,
             \A i \in DOMAIN program.interfaces[c] : program.interfaces[c][i] \in S
      PROVE  c \in S
  <2>1. \A x : x \in ToSet(f[c]) <=>
           \/ x = c
           \/ program.base[c] # None /\ x \in ToSet(f[program.base[c]])
           \/ \E j \in DOMAIN program.interfaces[c] :
                /\ KnownTo(V, c, program.interfaces[c][j])
                /\ x \in ToSet(f[program.interfaces[c][j]])
    BY DeclaredAbove
  <2>2. /\ c \in Sup[c]
        /\ program.base[c] # None => Sup[program.base[c]] \subseteq Sup[c]
        /\ \A i \in DOMAIN program.interfaces[c] : Sup[program.interfaces[c][i]] \subseteq Sup[c]
        /\ \A x \in Sup[c] : \/ x = c
                             \/ program.base[c] # None /\ x \in Sup[program.base[c]]
                             \/ \E i \in DOMAIN program.interfaces[c] :
                                  x \in Sup[program.interfaces[c][i]]
    BY UpOfAll
  <2>3. ToSet(f[c]) \subseteq Sup[c]
    BY <1>1, <2>1, <2>2
  <2>4. ASSUME \A d \in Sup[c] : Full(d) PROVE Sup[c] \subseteq ToSet(f[c])
    <3>1. program.base[c] # None => Sup[program.base[c]] = ToSet(f[program.base[c]])
      BY <1>1, <2>2, <2>4
    <3>2. \A j \in DOMAIN program.interfaces[c] :
             Sup[program.interfaces[c][j]] = ToSet(f[program.interfaces[c][j]])
      BY <1>1, <2>2, <2>4
    <3>3. \A j \in DOMAIN program.interfaces[c] : KnownTo(V, c, program.interfaces[c][j])
      BY <2>2, <2>4
    <3> HIDE DEF Full, S
    <3> QED
      BY <2>1, <2>2, <3>1, <3>2, <3>3
  <2> QED
    BY <2>3, <2>4
<1> HIDE DEF S
<1>2. Classes \subseteq S
  BY <1>1, UpInduction
<1> QED
  BY <1>2 DEF S

-----------------------------------------------------------------------------
(* The line of a class: itself and the classes it extends.                 *)

Line == [c \in Classes |-> ToSet(Chain(Everything)[c])]

LEMMA LineOf ==
  ASSUME NEW N, NEW h, Heights(N, h), None \notin Classes, NEW c \in Classes
  PROVE  /\ c \in Line[c]
         /\ program.base[c] = None => Line[c] = {c}
         /\ program.base[c] # None => Line[c] = {c} \cup Line[program.base[c]]
<1>1. Falls(Classes, Bases, N, h)
  BY HeightsFall
<1>2. PICK f : f = Chain(Everything)
  OBVIOUS
<1>3. ToSet(<<c>>) = {c}
  BY DEF ToSet
<1>4. \A d \in Classes : Line[d] = ToSet(f[d])
  BY <1>2 DEF Line
<1>5. CASE program.base[c] = None
  <2>1. f[c] = <<c>>
    BY <1>1, <1>2, <1>5, ChainOf
  <2> QED
    BY <1>3, <1>4, <1>5, <2>1
<1>6. CASE program.base[c] # None
  <2>1. f[c] = <<c>> \o f[program.base[c]] /\ program.base[c] \in Classes
    BY <1>1, <1>2, <1>6, ChainOf
  <2>2. f[program.base[c]] \in Seq(Classes)
    BY <1>1, <1>2, <2>1, ChainOf
  <2>3. PICK t : t = f[program.base[c]]
    OBVIOUS
  <2>4. <<c>> \in Seq(Classes) /\ t \in Seq(Classes)
    BY <2>2, <2>3
  <2>5. \A x : x \in ToSet(<<c>> \o t) <=> x \in ToSet(<<c>>) \/ x \in ToSet(t)
    BY <2>4, ConcatHolds
  <2>6. Line[c] = {c} \cup ToSet(t)
    BY <1>3, <1>4, <2>1, <2>3, <2>5
  <2> QED
    BY <1>4, <1>6, <2>1, <2>3, <2>6
<1> QED
  BY <1>5, <1>6

\* The line of a class is above it, and each further class of it is lower in height.
LEMMA LineIsAbove ==
  ASSUME NEW N, NEW h, Heights(N, h), None \notin Classes
  PROVE  \A c \in Classes : /\ Line[c] \subseteq Sup[c]
                            /\ \A x \in Line[c] : x = c \/ h[x] < h[c]
<1> DEFINE S == {c \in Classes : /\ Line[c] \subseteq Sup[c]
                                 /\ \A x \in Line[c] : x = c \/ h[x] < h[c]}
<1>1. ASSUME NEW c \in Classes,
             program.base[c] # None => program.base[c] \in S,
             \A i \in DOMAIN program.interfaces[c] : program.interfaces[c][i] \in S
      PROVE  c \in S
  <2>1. CASE program.base[c] = None
    BY <2>1, LineOf, UpOfAll
  <2>2. CASE program.base[c] # None
    <3>1. PICK b : b = program.base[c]
      OBVIOUS
    <3>2. b \in S /\ h[b] < h[c] /\ b \in Classes
      BY <1>1, <2>2, <3>1 DEF Heights
    <3>3. Line[c] = {c} \cup Line[b]
      BY <2>2, <3>1, LineOf
    <3>4. Sup[b] \subseteq Sup[c] /\ c \in Sup[c]
      BY <2>2, <3>1, UpOfAll
    <3>5. Line[b] \subseteq Classes
      BY <3>2, <3>4, UpOfAll
    <3>6. h[c] \in Nat /\ \A x \in Classes : h[x] \in Nat
      BY DEF Heights
    <3>7. \A x \in Line[b] : h[x] < h[c]
      BY <3>2, <3>5, <3>6
    <3> QED
      BY <3>2, <3>3, <3>4, <3>7
  <2> QED
    BY <2>1, <2>2
<1> HIDE DEF S
<1>2. Classes \subseteq S
  BY <1>1, UpInduction
<1> QED
  BY <1>2 DEF S

\* What is above a class is in its line or an interface that some class names.
IsNamed(d) == \E c \in Classes : \E i \in DOMAIN program.interfaces[c] : program.interfaces[c][i] = d

LEMMA AboveIsLineOrNamed ==
  ASSUME NEW N, NEW h, Heights(N, h), None \notin Classes, PlainInterfaces(program)
  PROVE  \A c \in Classes : \A x \in Sup[c] : x \in Line[c] \/ IsNamed(x)
<1> DEFINE S == {c \in Classes : \A x \in Sup[c] : x \in Line[c] \/ IsNamed(x)}
<1>1. ASSUME NEW c \in Classes,
             program.base[c] # None => program.base[c] \in S,
             \A i \in DOMAIN program.interfaces[c] : program.interfaces[c][i] \in S
      PROVE  c \in S
  <2>1. ASSUME NEW x \in Sup[c] PROVE x \in Line[c] \/ IsNamed(x)
    <3>1. CASE x = c
      BY <3>1, LineOf
    <3>2. CASE program.base[c] # None /\ x \in Sup[program.base[c]]
      BY <1>1, <3>2, LineOf
    <3>3. CASE \E i \in DOMAIN program.interfaces[c] : x \in Sup[program.interfaces[c][i]]
      <4>1. PICK i \in DOMAIN program.interfaces[c] : x \in Sup[program.interfaces[c][i]]
        BY <3>3
      <4>2. PICK d : d = program.interfaces[c][i]
        OBVIOUS
      <4>3. x \in Line[d] \/ IsNamed(x)
        BY <1>1, <4>1, <4>2
      <4>4. d \in Classes /\ program.base[d] = None
        BY <4>2 DEF Heights, PlainInterfaces, Classes
      <4>5. Line[d] = {d}
        BY <4>4, LineOf
      <4>6. IsNamed(d)
        BY <4>2 DEF IsNamed
      <4> QED
        BY <4>3, <4>5, <4>6
    <3> QED
      BY <2>1, <3>1, <3>2, <3>3, UpOfAll
  <2> QED
    BY <2>1
<1> HIDE DEF S
<1>2. Classes \subseteq S
  BY <1>1, UpInduction
<1> QED
  BY <1>2 DEF S

-----------------------------------------------------------------------------
(* The walk that fills a table: what is above a class, then the class.     *)

IsBackWalk(f, C, up) == f = [c \in C |-> Each(f, up[c]) \o <<c>>]
IsPostOrder(f, links) ==
  f = [c \in Classes |-> Each(f, links[c].base \o links[c].interfaces) \o <<c>>]

LEMMA BackWalkExists ==
  ASSUME NEW C, NEW up, NEW N, NEW h, Falls(C, up, N, h)
  PROVE  \E f : IsBackWalk(f, C, up)
<1> DEFINE Good(f, n) == /\ DOMAIN f = C /\ f = [c \in C |-> f[c]]
                         /\ \A c \in C : h[c] < n => f[c] = Each(f, up[c]) \o <<c>>
           S == {n \in Nat : \E f : Good(f, n)}
<1>1. 0 \in S
  <2> DEFINE f == [c \in C |-> <<>>]
  <2>1. Good(f, 0)
    BY DEF Falls
  <2> QED
    BY <2>1
<1>2. ASSUME NEW n \in Nat, n \in S PROVE n + 1 \in S
  <2>1. PICK f : Good(f, n)
    BY <1>2
  <2> DEFINE g == [c \in C |-> IF h[c] < n THEN f[c] ELSE Each(f, up[c]) \o <<c>>]
  <2>2. ASSUME NEW c \in C PROVE g[c] = Each(f, up[c]) \o <<c>>
    BY <2>1
  <2>3. ASSUME NEW c \in C, h[c] < n + 1 PROVE g[c] = Each(g, up[c]) \o <<c>>
    <3>1. ASSUME NEW i \in DOMAIN up[c] PROVE g[up[c][i]] = f[up[c][i]]
      <4>1. up[c][i] \in C /\ h[up[c][i]] < h[c] /\ h[up[c][i]] \in Nat /\ h[c] \in Nat
        BY <3>1 DEF Falls
      <4>2. h[up[c][i]] < n
        BY <2>3, <4>1
      <4> QED
        BY <4>1, <4>2
    <3>2. Each(f, up[c]) = Each(g, up[c])
      <4> HIDE DEF g
      <4> QED
        BY <3>1, EachDependsOn
    <3> QED
      BY <2>2, <3>2
  <2>4. DOMAIN g = C /\ g = [c \in C |-> g[c]]
    OBVIOUS
  <2>5. Good(g, n + 1)
    <3> HIDE DEF g
    <3> QED
      BY <2>3, <2>4
  <2> HIDE DEF g, Good
  <2> QED
    BY <2>5
<1> HIDE DEF S
<1>3. \A n \in Nat : n \in S
  BY <1>1, <1>2, Induction
<1>4. N + 1 \in S /\ \A c \in C : h[c] < N + 1
  BY <1>3 DEF Falls
<1>5. PICK f : Good(f, N + 1)
  BY <1>4 DEF S
<1>6. \A c \in C : f[c] = Each(f, up[c]) \o <<c>>
  BY <1>4, <1>5
<1>7. IsBackWalk(f, C, up)
  BY <1>5, <1>6 DEF IsBackWalk
<1> QED
  BY <1>7

LEMMA TableWalk ==
  ASSUME NEW N, NEW h, Falls(Classes, UpIn(Classes), N, h)
  PROVE  IsBackWalk(PostOrder(Everything), Classes, UpIn(Classes))
<1>1. \A f : IsBackWalk(f, Classes, UpIn(Classes)) <=> IsPostOrder(f, Everything)
  <2> SUFFICES ASSUME NEW f
               PROVE  IsBackWalk(f, Classes, UpIn(Classes)) <=> IsPostOrder(f, Everything)
    OBVIOUS
  <2>1. ASSUME NEW c \in Classes
        PROVE  UpIn(Classes)[c] = Everything[c].base \o Everything[c].interfaces
    BY DEF UpIn, Everything, Typed
  <2>2. [c \in Classes |-> Each(f, UpIn(Classes)[c]) \o <<c>>]
          = [c \in Classes |-> Each(f, Everything[c].base \o Everything[c].interfaces) \o <<c>>]
    BY <2>1
  <2> QED
    BY <2>2 DEF IsBackWalk, IsPostOrder
<1>2. \E f : IsPostOrder(f, Everything)
  BY <1>1, BackWalkExists
<1> DEFINE walk == CHOOSE f : IsPostOrder(f, Everything)
<1>3. IsPostOrder(walk, Everything)
  BY <1>2
<1>4. PostOrder(Everything) = walk
  BY Zenon DEF PostOrder, IsPostOrder
<1> QED
  BY <1>1, <1>3, <1>4

\* The walk of a class is that of its base, those of its interfaces, and the class,
\* and holds what is above it.
LEMMA TableWalkHolds ==
  ASSUME NEW N, NEW h, Heights(N, h), None \notin Classes, NEW f, f = PostOrder(Everything)
  PROVE  \A c \in Classes :
           /\ f[c] \in Seq(Classes) /\ ToSet(f[c]) = Sup[c]
           /\ Each(f, Base(c)) \in Seq(Classes) /\ Each(f, program.interfaces[c]) \in Seq(Classes)
           /\ f[c] = (Each(f, Base(c)) \o Each(f, program.interfaces[c])) \o <<c>>
           /\ ToSet(Each(f, program.interfaces[c]))
                = UNION {Sup[program.interfaces[c][i]] : i \in DOMAIN program.interfaces[c]}
<1>1. PICK u : u = UpIn(Classes)
  OBVIOUS
<1>2. Falls(Classes, u, N, h) /\ IsBackWalk(f, Classes, u)
  BY <1>1, UpFalls, TableWalk
<1>3. \A c \in Classes : f[c] = Each(f, u[c]) \o <<c>>
  BY <1>2 DEF IsBackWalk
<1>4. \A c \in Classes : u[c] = Base(c) \o program.interfaces[c] /\ u[c] \in Seq(Classes)
  BY <1>1, <1>2 DEF UpIn, Falls
<1>5. \A c \in Classes : Base(c) \in Seq(Classes) /\ program.interfaces[c] \in Seq(Classes)
  BY DEF Heights, Base
<1> DEFINE S == {c \in Classes : f[c] \in Seq(Classes)}
<1>6. ASSUME NEW c \in Classes, \A i \in DOMAIN u[c] : u[c][i] \in S PROVE c \in S
  <2>1. PICK C : C = S
    OBVIOUS
  <2>2. PICK s : s = u[c]
    OBVIOUS
  <2>3. s \in Seq(C)
    <3>1. s \in Seq(Classes) /\ \A i \in DOMAIN s : s[i] \in C
      BY <1>4, <1>6, <2>1, <2>2
    <3> QED
      BY <3>1
  <2>4. \A d \in C : f[d] \in Seq(Classes)
    BY <2>1
  <2>5. Each(f, s) \in Seq(Classes)
    BY ONLY <2>3, <2>4, EachHolds
  <2>6. <<c>> \in Seq(Classes)
    OBVIOUS
  <2>7. Each(f, s) \o <<c>> \in Seq(Classes)
    BY ONLY <2>5, <2>6, ConcatProperties
  <2> QED
    BY <1>3, <2>2, <2>7
<1> HIDE DEF S
<1>7. Classes \subseteq S
  BY <1>2, <1>6, ClassInduction
<1>8. \A c \in Classes : f[c] \in Seq(Classes)
  BY <1>7 DEF S
<1>9. ASSUME NEW c \in Classes
      PROVE  /\ Each(f, Base(c)) \in Seq(Classes) /\ Each(f, program.interfaces[c]) \in Seq(Classes)
             /\ f[c] = (Each(f, Base(c)) \o Each(f, program.interfaces[c])) \o <<c>>
             /\ ToSet(Each(f, program.interfaces[c]))
                  = UNION {ToSet(f[program.interfaces[c][i]]) : i \in DOMAIN program.interfaces[c]}
             /\ ToSet(Each(f, Base(c))) = UNION {ToSet(f[Base(c)[i]]) : i \in DOMAIN Base(c)}
  <2>1. PICK s, t : s = Base(c) /\ t = program.interfaces[c]
    OBVIOUS
  <2>2. s \in Seq(Classes)
    BY <1>5, <2>1
  <2>3. t \in Seq(Classes)
    BY <1>5, <2>1
  <2>4. Each(f, s) \in Seq(Classes) /\ ToSet(Each(f, s)) = UNION {ToSet(f[s[i]]) : i \in DOMAIN s}
    BY ONLY <1>8, <2>2, EachHolds
  <2>5. Each(f, t) \in Seq(Classes) /\ ToSet(Each(f, t)) = UNION {ToSet(f[t[i]]) : i \in DOMAIN t}
    BY ONLY <1>8, <2>3, EachHolds
  <2>6. Each(f, s \o t) = Each(f, s) \o Each(f, t)
    <3>1. PICK C, D : C = Classes /\ D = Classes
      OBVIOUS
    <3>2. s \in Seq(C) /\ t \in Seq(C) /\ \A d \in C : f[d] \in Seq(D)
      BY <1>8, <2>2, <2>3, <3>1
    <3> QED
      BY ONLY <3>2, EachConcat
  <2>7. f[c] = (Each(f, s) \o Each(f, t)) \o <<c>>
    <3>1. f[c] = Each(f, u[c]) \o <<c>> /\ u[c] = s \o t
      BY <1>3, <1>4, <2>1
    <3> QED
      BY <2>6, <3>1
  <2> QED
    BY <2>1, <2>4, <2>5, <2>7
<1>10. ASSUME NEW c \in Classes
       PROVE  \A x : x \in ToSet(f[c]) <=> \/ x = c
                                           \/ program.base[c] # None /\ x \in ToSet(f[program.base[c]])
                                           \/ \E i \in DOMAIN program.interfaces[c] :
                                                x \in ToSet(f[program.interfaces[c][i]])
  <2>1. PICK a, b, d : a = Each(f, Base(c)) /\ b = Each(f, program.interfaces[c]) /\ d = <<c>>
    OBVIOUS
  <2>2. a \in Seq(Classes) /\ b \in Seq(Classes) /\ d \in Seq(Classes) /\ f[c] = (a \o b) \o d
    <3>1. a \in Seq(Classes) /\ b \in Seq(Classes)
      BY <1>9, <2>1
    <3>2. f[c] = (a \o b) \o d
      BY <1>9, <2>1
    <3>3. <<c>> \in Seq(Classes)
      OBVIOUS
    <3> QED
      BY <2>1, <3>1, <3>2, <3>3
  <2>3. a \o b \in Seq(Classes)
    BY ONLY <2>2, ConcatProperties
  <2>4. \A x : x \in ToSet(a \o b) <=> x \in ToSet(a) \/ x \in ToSet(b)
    BY ONLY <2>2, ConcatHolds
  <2>5. \A x : x \in ToSet((a \o b) \o d) <=> x \in ToSet(a \o b) \/ x \in ToSet(d)
    BY ONLY <2>2, <2>3, ConcatHolds
  <2>6. \A x : x \in ToSet(d) <=> x = c
    BY <2>1 DEF ToSet
  <2>7. \A x : x \in ToSet(a) <=> program.base[c] # None /\ x \in ToSet(f[program.base[c]])
    <3>1. ToSet(a) = UNION {ToSet(f[Base(c)[i]]) : i \in DOMAIN Base(c)}
      BY <1>9, <2>1
    <3>2. CASE program.base[c] = None
      <4>1. Base(c) = <<>>
        BY <3>2 DEF Base
      <4> QED
        BY <3>1, <3>2, <4>1
    <3>3. CASE program.base[c] # None
      <4>1. Base(c) = <<program.base[c]>>
        BY <3>3 DEF Base
      <4>2. DOMAIN Base(c) = {1} /\ Base(c)[1] = program.base[c]
        BY <4>1
      <4> QED
        BY <3>1, <3>3, <4>2
    <3> QED
      BY <3>2, <3>3
  <2>8. \A x : x \in ToSet(b) <=> \E i \in DOMAIN program.interfaces[c] :
                                    x \in ToSet(f[program.interfaces[c][i]])
    <3>1. ToSet(b) = UNION {ToSet(f[program.interfaces[c][i]]) : i \in DOMAIN program.interfaces[c]}
      BY <1>9, <2>1
    <3> QED
      BY <3>1
  <2> QED
    BY <2>2, <2>4, <2>5, <2>6, <2>7, <2>8
<1> DEFINE R == {c \in Classes : ToSet(f[c]) = Sup[c]}
<1>11. ASSUME NEW c \in Classes,
              program.base[c] # None => program.base[c] \in R,
              \A i \in DOMAIN program.interfaces[c] : program.interfaces[c][i] \in R
       PROVE  c \in R
  <2>1. /\ c \in Sup[c]
        /\ program.base[c] # None => Sup[program.base[c]] \subseteq Sup[c]
        /\ \A i \in DOMAIN program.interfaces[c] : Sup[program.interfaces[c][i]] \subseteq Sup[c]
        /\ \A x \in Sup[c] : \/ x = c
                             \/ program.base[c] # None /\ x \in Sup[program.base[c]]
                             \/ \E i \in DOMAIN program.interfaces[c] :
                                  x \in Sup[program.interfaces[c][i]]
    BY UpOfAll
  <2>2. \A x : x \in ToSet(f[c]) <=> x \in Sup[c]
    BY <1>10, <1>11, <2>1
  <2> QED
    BY <2>2
<1> HIDE DEF R
<1>12. Classes \subseteq R
  BY <1>11, UpInduction
<1>13. \A c \in Classes : ToSet(f[c]) = Sup[c]
  BY <1>12 DEF R
<1>14. \A c \in Classes : \A i \in DOMAIN program.interfaces[c] : program.interfaces[c][i] \in Classes
  BY <1>5
<1>15. ASSUME NEW c \in Classes
       PROVE  ToSet(Each(f, program.interfaces[c]))
                = UNION {Sup[program.interfaces[c][i]] : i \in DOMAIN program.interfaces[c]}
  <2>1. \A i \in DOMAIN program.interfaces[c] :
          ToSet(f[program.interfaces[c][i]]) = Sup[program.interfaces[c][i]]
    BY <1>13, <1>14
  <2>2. ToSet(Each(f, program.interfaces[c]))
          = UNION {ToSet(f[program.interfaces[c][i]]) : i \in DOMAIN program.interfaces[c]}
    BY <1>9
  <2> QED
    BY <2>1, <2>2
<1>16. \A c \in Classes :
         /\ Each(f, Base(c)) \in Seq(Classes) /\ Each(f, program.interfaces[c]) \in Seq(Classes)
         /\ f[c] = (Each(f, Base(c)) \o Each(f, program.interfaces[c])) \o <<c>>
  BY <1>9
<1> QED
  BY <1>8, <1>13, <1>15, <1>16

-----------------------------------------------------------------------------
(* The class of a line that declares a name and is nearest.                *)

Declares(p, c, nm) == \E i \in DOMAIN p.methods[c] : p.methods[c][i].name = nm

\* Two methods of one class have two names.
NamesDiffer(p) ==
  \A c \in DOMAIN p.base : \A i, j \in DOMAIN p.methods[c] :
    p.methods[c][i].name = p.methods[c][j].name => i = j

AllNamed(S, nm) == \A m \in S : Name(m) = nm

LEMMA LastInHolds ==
  ASSUME NEW M, NEW ms \in Seq(M), NEW S, ToSet(ms) \cap S # {}
  PROVE  LastIn(ms, S) \in ToSet(ms) \cap S
<1>1. At(ms, S) # {}
  BY DEF At, ToSet
<1>2. PICK i \in At(ms, S) : \A j \in At(ms, S) : j <= i
  BY <1>1, FirstAndLastExist
<1> QED
  BY <1>2, LastInIs DEF At, ToSet

\* Classes that do not declare a name have no method of it.
LEMMA NoneNamed ==
  ASSUME AreNumbered, NEW cs \in Seq(Classes), NEW nm, NEW S, AllNamed(S, nm),
         \A d \in ToSet(cs) : ~Declares(program, d, nm)
  PROVE  ToSet(MethodsOf(cs)) \cap S = {}
<1> SUFFICES ASSUME NEW m \in ToSet(MethodsOf(cs)), m \in S PROVE FALSE
  OBVIOUS
<1>1. PICK d \in ToSet(cs) : \E i \in DOMAIN program.methods[d] : m = <<d, i>>
  BY MethodsOfAre
<1>2. PICK i \in DOMAIN program.methods[d] : m = <<d, i>>
  BY <1>1
<1>3. program.methods[d][i].name = nm
  BY <1>2 DEF AllNamed, Name, Decl
<1> QED
  BY <1>3 DEF Declares

LEMMA LastSkips ==
  ASSUME AreNumbered, NEW s \in Seq(Classes), NEW t \in Seq(Classes), NEW nm, NEW S,
         AllNamed(S, nm), \A d \in ToSet(t) : ~Declares(program, d, nm)
  PROVE  LastIn(MethodsOf(s \o t), S) = LastIn(MethodsOf(s), S)
<1>1. PICK a, b : a = MethodsOf(s) /\ b = MethodsOf(t)
  OBVIOUS
<1>2. a \in Seq(Methods) /\ b \in Seq(Methods)
  BY <1>1, MethodsOfAre
<1>3. ToSet(b) \cap S = {}
  BY <1>1, NoneNamed
<1>4. MethodsOf(s \o t) = a \o b
  BY <1>1, MethodsOfConcat
<1>5. LastIn(a \o b, S) = LastIn(a, S)
  BY ONLY <1>2, <1>3, LastOfConcat
<1> QED
  BY <1>1, <1>4, <1>5

LEMMA FirstSkips ==
  ASSUME AreNumbered, NEW s \in Seq(Classes), NEW t \in Seq(Classes), NEW nm, NEW S,
         AllNamed(S, nm), \A d \in ToSet(s) : ~Declares(program, d, nm)
  PROVE  FirstIn(MethodsOf(s \o t), S) = FirstIn(MethodsOf(t), S)
<1>1. PICK a, b : a = MethodsOf(s) /\ b = MethodsOf(t)
  OBVIOUS
<1>2. a \in Seq(Methods) /\ b \in Seq(Methods)
  BY <1>1, MethodsOfAre
<1>3. ToSet(a) \cap S = {}
  BY <1>1, NoneNamed
<1>4. MethodsOf(s \o t) = a \o b
  BY <1>1, MethodsOfConcat
<1>5. FirstIn(a \o b, S) = FirstIn(b, S)
  BY ONLY <1>2, <1>3, FirstOfConcat
<1> QED
  BY <1>1, <1>4, <1>5

\* A class that declares the name comes last in its walk, and first in its chain.
LEMMA OwnIsLast ==
  ASSUME AreNumbered, NamesDiffer(program), NEW s \in Seq(Classes), NEW c \in Classes,
         NEW i \in DOMAIN program.methods[c], NEW S, AllNamed(S, program.methods[c][i].name),
         <<c, i>> \in S
  PROVE  LastIn(MethodsOf(s \o <<c>>), S) = <<c, i>>
<1>1. PICK a, b : a = MethodsOf(s) /\ b = Own(c)
  OBVIOUS
<1>2. a \in Seq(Methods) /\ b \in Seq(Methods)
  BY <1>1, MethodsOfAre, OwnIs
<1>3. <<c>> \in Seq(Classes)
  OBVIOUS
<1>4. MethodsOf(s \o <<c>>) = a \o b
  BY <1>1, <1>3, MethodsOfConcat, MethodsOfOne
<1>5. \A m : m \in ToSet(b) <=> \E j \in DOMAIN program.methods[c] : m = <<c, j>>
  BY <1>1, OwnIs
<1>6. ToSet(b) \cap S # {}
  BY <1>5
<1>7. LastIn(a \o b, S) = LastIn(b, S) /\ LastIn(b, S) \in ToSet(b) \cap S
  <2>1. LastIn(a \o b, S) = LastIn(b, S)
    BY ONLY <1>2, <1>6, LastOfConcat
  <2>2. LastIn(b, S) \in ToSet(b) \cap S
    BY ONLY <1>2, <1>6, LastInHolds
  <2> QED
    BY <2>1, <2>2
<1>8. PICK j \in DOMAIN program.methods[c] : LastIn(b, S) = <<c, j>>
  BY <1>5, <1>7
<1>9. program.methods[c][j].name = program.methods[c][i].name
  BY <1>7, <1>8 DEF AllNamed, Name, Decl
<1>10. j = i
  BY <1>9 DEF NamesDiffer, Classes
<1> QED
  BY <1>4, <1>7, <1>8, <1>10

LEMMA OwnIsFirst ==
  ASSUME AreNumbered, NamesDiffer(program), NEW t \in Seq(Classes), NEW c \in Classes,
         NEW i \in DOMAIN program.methods[c], NEW S, AllNamed(S, program.methods[c][i].name),
         <<c, i>> \in S
  PROVE  FirstIn(MethodsOf(<<c>> \o t), S) = <<c, i>>
<1>1. PICK a, b : a = Own(c) /\ b = MethodsOf(t)
  OBVIOUS
<1>2. a \in Seq(Methods) /\ b \in Seq(Methods)
  BY <1>1, MethodsOfAre, OwnIs
<1>3. <<c>> \in Seq(Classes)
  OBVIOUS
<1>4. MethodsOf(<<c>> \o t) = a \o b
  BY <1>1, <1>3, MethodsOfConcat, MethodsOfOne
<1>5. \A m : m \in ToSet(a) <=> \E j \in DOMAIN program.methods[c] : m = <<c, j>>
  BY <1>1, OwnIs
<1>6. ToSet(a) \cap S # {}
  BY <1>5
<1>7. FirstIn(a \o b, S) = FirstIn(a, S) /\ FirstIn(a, S) \in ToSet(a) \cap S
  <2>1. FirstIn(a \o b, S) = FirstIn(a, S)
    BY ONLY <1>2, <1>6, FirstOfConcat
  <2>2. FirstIn(a, S) \in ToSet(a) \cap S
    BY ONLY <1>2, <1>6, FirstInHolds
  <2> QED
    BY <2>1, <2>2
<1>8. PICK j \in DOMAIN program.methods[c] : FirstIn(a, S) = <<c, j>>
  BY <1>5, <1>7
<1>9. program.methods[c][j].name = program.methods[c][i].name
  BY <1>7, <1>8 DEF AllNamed, Name, Decl
<1>10. j = i
  BY <1>9 DEF NamesDiffer, Classes
<1> QED
  BY <1>4, <1>7, <1>8, <1>10

\* A class that inherits a method of a name implements no interface with one of that
\* name, unless it has one itself.
ImplementsItself(p, U, K) ==
  \A c \in DOMAIN p.base : \A j \in DOMAIN p.interfaces[c] : \A d \in U[p.interfaces[c][j]] :
    \A nm : Declares(p, d, nm) /\ (\E e \in K[c] \ {c} : Declares(p, e, nm)) => Declares(p, c, nm)

\* x is the class of the line of c that decides what a call of nm runs.
IsNearest(c, x, nm, S, R) ==
  /\ x \in Line[c] /\ x \in Classes /\ Declares(program, x, nm)
  /\ \A z \in Line[c] : Declares(program, z, nm) => z \in Line[x]
  /\ \A y \in Sup[c] : Declares(program, y, nm) => y \in Sup[x]
  /\ LastIn(MethodsOf(PostOrder(Everything)[c]), S)
       = LastIn(MethodsOf(PostOrder(Everything)[x]), S)
  /\ FirstIn(MethodsOf(Chain(Everything)[c]), R)
       = FirstIn(MethodsOf(Chain(Everything)[x]), R)

LEMMA NearestExists ==
  ASSUME AreNumbered, NEW N, NEW h, Heights(N, h), None \notin Classes,
         ImplementsItself(program, Sup, Line), NEW nm, NEW S, NEW R,
         AllNamed(S, nm), AllNamed(R, nm)
  PROVE  \A c \in Classes : (\E z \in Line[c] : Declares(program, z, nm)) =>
           \E x : IsNearest(c, x, nm, S, R)
<1> DEFINE G == {c \in Classes : (\E z \in Line[c] : Declares(program, z, nm)) =>
                                    \E x : IsNearest(c, x, nm, S, R)}
<1>1. ASSUME NEW c \in Classes,
             program.base[c] # None => program.base[c] \in G,
             \A i \in DOMAIN program.interfaces[c] : program.interfaces[c][i] \in G
      PROVE  c \in G
  <2>1. CASE Declares(program, c, nm)
    <3>1. IsNearest(c, c, nm, S, R)
      BY <2>1, LineOf DEF IsNearest
    <3> QED
      BY <3>1
  <2>2. ASSUME ~Declares(program, c, nm), NEW z \in Line[c], Declares(program, z, nm)
        PROVE  \E x : IsNearest(c, x, nm, S, R)
    <3>1. PICK b : b = program.base[c]
      OBVIOUS
    <3>2. b # None /\ b \in Classes /\ z \in Line[b] /\ Line[c] = {c} \cup Line[b]
      <4>1. z # c
        BY <2>2
      <4>2. program.base[c] # None
        BY <2>2, <4>1, LineOf
      <4>3. Line[c] = {c} \cup Line[program.base[c]]
        BY <4>2, LineOf
      <4>4. program.base[c] \in Classes
        BY <4>2 DEF Heights
      <4> QED
        BY <2>2, <3>1, <4>1, <4>2, <4>3, <4>4
    <3>3. PICK x : IsNearest(b, x, nm, S, R)
      BY <1>1, <2>2, <3>1, <3>2
    <3>4. ASSUME NEW j \in DOMAIN program.interfaces[c], NEW d \in Sup[program.interfaces[c][j]]
          PROVE  ~Declares(program, d, nm)
      <4>1. z \in Line[c] \ {c}
        BY <2>2
      <4> QED
        BY <2>2, <4>1 DEF ImplementsItself, Classes
    <3>5. \A y \in Sup[c] : Declares(program, y, nm) => y \in Sup[x]
      <4>1. ASSUME NEW y \in Sup[c], Declares(program, y, nm) PROVE y \in Sup[b]
        BY <2>2, <3>1, <3>4, <4>1, UpOfAll
      <4> QED
        BY <3>3, <4>1 DEF IsNearest
    <3>6. \A y \in Line[c] : Declares(program, y, nm) => y \in Line[x]
      BY <2>2, <3>2, <3>3 DEF IsNearest
    <3>7. ASSUME NEW f, f = PostOrder(Everything)
          PROVE  LastIn(MethodsOf(f[c]), S) = LastIn(MethodsOf(f[b]), S)
      <4>1. PICK e : e = Each(f, program.interfaces[c])
        OBVIOUS
      <4>2. /\ Each(f, Base(c)) \in Seq(Classes)
            /\ f[c] = (Each(f, Base(c)) \o e) \o <<c>>
        BY <3>7, <4>1, TableWalkHolds
      <4>3. e \in Seq(Classes)
        BY <3>7, <4>1, TableWalkHolds
      <4>4. ToSet(e) = UNION {Sup[program.interfaces[c][i]] : i \in DOMAIN program.interfaces[c]}
        BY <3>7, <4>1, TableWalkHolds
      <4>5. Each(f, Base(c)) = f[b]
        <5>1. Base(c) = <<b>>
          BY <3>1, <3>2 DEF Base
        <5> QED
          BY <5>1, EachOfOne
      <4>6. PICK a : a = f[b]
        OBVIOUS
      <4>7. a \in Seq(Classes) /\ f[c] = (a \o e) \o <<c>>
        BY <4>2, <4>5, <4>6
      <4>8. \A d \in ToSet(e) : ~Declares(program, d, nm)
        BY <3>4, <4>4
      <4>9. LastIn(MethodsOf(a \o e), S) = LastIn(MethodsOf(a), S)
        BY <4>3, <4>7, <4>8, LastSkips
      <4>10. a \o e \in Seq(Classes)
        BY ONLY <4>3, <4>7, ConcatProperties
      <4>11. <<c>> \in Seq(Classes) /\ \A d \in ToSet(<<c>>) : ~Declares(program, d, nm)
        BY <2>2 DEF ToSet
      <4>12. PICK g, t : g = a \o e /\ t = <<c>>
        OBVIOUS
      <4>13. g \in Seq(Classes) /\ t \in Seq(Classes)
        BY <4>10, <4>11, <4>12
      <4>14. LastIn(MethodsOf(g \o t), S) = LastIn(MethodsOf(g), S)
        <5>1. \A d \in ToSet(t) : ~Declares(program, d, nm)
          BY <4>11, <4>12
        <5> QED
          BY ONLY AreNumbered, AllNamed(S, nm), <4>13, <5>1, LastSkips
      <4> QED
        BY <4>6, <4>7, <4>9, <4>12, <4>14
    <3>8. ASSUME NEW f, f = Chain(Everything)
          PROVE  FirstIn(MethodsOf(f[c]), R) = FirstIn(MethodsOf(f[b]), R)
      <4>1. Falls(Classes, Bases, N, h)
        BY HeightsFall
      <4>2. f[c] = <<c>> \o f[b]
        BY <3>1, <3>2, <3>8, <4>1, ChainOf
      <4>3. f[b] \in Seq(Classes)
        BY <3>2, <3>8, <4>1, ChainOf
      <4>4. PICK a : a = f[b]
        OBVIOUS
      <4>5. a \in Seq(Classes)
        BY <4>3, <4>4
      <4>6. <<c>> \in Seq(Classes) /\ \A d \in ToSet(<<c>>) : ~Declares(program, d, nm)
        BY <2>2 DEF ToSet
      <4>7. FirstIn(MethodsOf(<<c>> \o a), R) = FirstIn(MethodsOf(a), R)
        BY <4>5, <4>6, FirstSkips
      <4> QED
        BY <4>2, <4>4, <4>7
    <3>9. IsNearest(c, x, nm, S, R)
      BY <3>2, <3>3, <3>5, <3>6, <3>7, <3>8 DEF IsNearest
    <3> QED
      BY <3>9
  <2> QED
    BY <2>1, <2>2
<1> HIDE DEF G
<1>2. Classes \subseteq G
  BY <1>1, UpInduction
<1> QED
  BY <1>2 DEF G

-----------------------------------------------------------------------------
(* Programs whose calls run the override.                                  *)

\* U holds what is above each class, K the classes of its line.
IsAbove(p, U) ==
  /\ U \in [DOMAIN p.base -> SUBSET DOMAIN p.base]
  /\ \A c \in DOMAIN p.base :
       U[c] = {c} \cup (IF p.base[c] = None THEN {} ELSE U[p.base[c]])
                  \cup UNION {U[p.interfaces[c][i]] : i \in DOMAIN p.interfaces[c]}

IsLine(p, K) ==
  /\ K \in [DOMAIN p.base -> SUBSET DOMAIN p.base]
  /\ \A c \in DOMAIN p.base : K[c] = {c} \cup (IF p.base[c] = None THEN {} ELSE K[p.base[c]])

\* Methods of one name have one signature, but no class has two; none is called None.
OneSignature(p) ==
  /\ NamesDiffer(p)
  /\ \A c, d \in DOMAIN p.base : \A i \in DOMAIN p.methods[c] : \A j \in DOMAIN p.methods[d] :
       p.methods[c][i].name = p.methods[d][j].name => p.methods[c][i].sig = p.methods[d][j].sig
  /\ \A c \in DOMAIN p.base : \A i \in DOMAIN p.methods[c] : <<c, i>> # None

\* Interfaces have abstract methods only.
PromisesOnly(p) ==
  \A c \in DOMAIN p.base : \A j \in DOMAIN p.interfaces[c] :
    \A i \in DOMAIN p.methods[p.interfaces[c][j]] : p.methods[p.interfaces[c][j]][i].abstract

\* What is above a class knows the interfaces it names when the class is visited.
IsBefore(p, c, d) == \E i, j \in DOMAIN p.order : i < j /\ p.order[i] = c /\ p.order[j] = d
KnownInTime(p, U) ==
  \A c \in DOMAIN p.base : \A d \in U[c] \ {c} : \A i \in DOMAIN p.interfaces[d] :
    IsBefore(p, p.interfaces[d][i], d) \/ IsBefore(p, d, c)

\* What a class that is not abstract inherits as abstract, and has not from interfaces
\* it names itself, is implemented, below the class that declares it.
Implemented(p, c, nm) ==
  \E i \in DOMAIN p.methods[c] : p.methods[c][i].name = nm /\ ~p.methods[c][i].abstract
LeavesNoneAbstract(p, U, K) ==
  \A c \in DOMAIN p.base \ p.abstract :
    \A d \in K[c] \cup (U[c] \ UNION {U[p.interfaces[c][j]] : j \in DOMAIN p.interfaces[c]}) :
      \A i \in DOMAIN p.methods[d] : p.methods[d][i].abstract =>
        \E e \in K[c] : /\ Implemented(p, e, p.methods[d][i].name)
                        /\ d \in K[c] => d \in K[e]

RunsOverrides(p) ==
  /\ FindsRelatives(p) /\ OneSignature(p) /\ PromisesOnly(p)
  /\ \E U, K : /\ IsAbove(p, U) /\ IsLine(p, K)
               /\ KnownInTime(p, U) /\ LeavesNoneAbstract(p, U, K) /\ ImplementsItself(p, U, K)

\* The same, of the sets the model computes.
RunsHere ==
  /\ OneSignature(program) /\ PromisesOnly(program)
  /\ KnownInTime(program, Sup) /\ LeavesNoneAbstract(program, Sup, Line)
  /\ ImplementsItself(program, Sup, Line)

LEMMA RunsHereHolds ==
  ASSUME RunsOverrides(program), NEW N, NEW h, Heights(N, h), None \notin Classes
  PROVE  RunsHere
<1>1. PICK U, K : /\ IsAbove(program, U) /\ IsLine(program, K)
                  /\ KnownInTime(program, U) /\ LeavesNoneAbstract(program, U, K)
                  /\ ImplementsItself(program, U, K)
  BY DEF RunsOverrides
<1> DEFINE S == {c \in Classes : U[c] = Sup[c]}
           R == {c \in Classes : K[c] = Line[c]}
<1>2. ASSUME NEW c \in Classes,
             program.base[c] # None => program.base[c] \in S,
             \A i \in DOMAIN program.interfaces[c] : program.interfaces[c][i] \in S
      PROVE  c \in S
  <2>1. U[c] = {c} \cup (IF program.base[c] = None THEN {} ELSE U[program.base[c]])
                   \cup UNION {U[program.interfaces[c][i]] : i \in DOMAIN program.interfaces[c]}
    BY <1>1 DEF IsAbove, Classes
  <2>2. /\ c \in Sup[c]
        /\ program.base[c] # None => Sup[program.base[c]] \subseteq Sup[c]
        /\ \A i \in DOMAIN program.interfaces[c] : Sup[program.interfaces[c][i]] \subseteq Sup[c]
        /\ \A x \in Sup[c] : \/ x = c
                             \/ program.base[c] # None /\ x \in Sup[program.base[c]]
                             \/ \E i \in DOMAIN program.interfaces[c] :
                                  x \in Sup[program.interfaces[c][i]]
    BY UpOfAll
  <2>3. \A x : x \in U[c] <=> \/ x = c
                              \/ program.base[c] # None /\ x \in U[program.base[c]]
                              \/ \E i \in DOMAIN program.interfaces[c] :
                                   x \in U[program.interfaces[c][i]]
    BY <2>1
  <2>4. \A x : x \in U[c] <=> x \in Sup[c]
    BY <1>2, <2>2, <2>3
  <2> QED
    BY <2>4
<1>3. ASSUME NEW c \in Classes,
             program.base[c] # None => program.base[c] \in R,
             \A i \in DOMAIN program.interfaces[c] : program.interfaces[c][i] \in R
      PROVE  c \in R
  <2>1. K[c] = {c} \cup (IF program.base[c] = None THEN {} ELSE K[program.base[c]])
    BY <1>1 DEF IsLine, Classes
  <2> QED
    BY <1>3, <2>1, LineOf
<1> HIDE DEF S, R
<1>4. Classes \subseteq S /\ Classes \subseteq R
  <2>1. Classes \subseteq S
    BY <1>2, UpInduction
  <2>2. Classes \subseteq R
    BY <1>3, UpInduction
  <2> QED
    BY <2>1, <2>2
<1>5. U = Sup
  <2>1. U = [c \in Classes |-> U[c]] /\ \A c \in Classes : U[c] = Sup[c]
    BY <1>1, <1>4 DEF S, IsAbove, Classes
  <2>2. Sup = [c \in Classes |-> Sup[c]]
    BY DEF Sup
  <2> QED
    BY <2>1, <2>2
<1>6. K = Line
  <2>1. K = [c \in Classes |-> K[c]] /\ \A c \in Classes : K[c] = Line[c]
    BY <1>1, <1>4 DEF R, IsLine, Classes
  <2>2. Line = [c \in Classes |-> Line[c]]
    BY DEF Line
  <2> QED
    BY <2>1, <2>2
<1> QED
  BY <1>1, <1>5, <1>6 DEF RunsHere, RunsOverrides

\* Methods of one name match one another.
LEMMA MatchingIs ==
  ASSUME OneSignature(program), NEW c \in Classes, NEW i \in DOMAIN program.methods[c]
  PROVE  \A m : m \in Matching(<<c, i>>) <=>
           \E d \in Classes : \E j \in DOMAIN program.methods[d] :
             m = <<d, j>> /\ program.methods[d][j].name = program.methods[c][i].name
<1>1. \A d \in Classes : \A m : m \in Range(Own(d)) <=> \E j \in DOMAIN program.methods[d] : m = <<d, j>>
  BY DEF Own, Range
<1>2. ASSUME NEW d \in Classes, NEW j \in DOMAIN program.methods[d]
      PROVE  SignaturesMatch(<<c, i>>, <<d, j>>)
               <=> program.methods[d][j].name = program.methods[c][i].name
  <2>1. program.methods[c][i].name = program.methods[d][j].name
          => program.methods[c][i].sig = program.methods[d][j].sig
    BY DEF OneSignature, Classes
  <2> QED
    BY <2>1 DEF SignaturesMatch, Decl
<1>3. \A m : m \in Matching(<<c, i>>) <=>
        \E d \in Classes : m \in Range(Own(d)) /\ SignaturesMatch(<<c, i>>, m)
  BY DEF Matching
<1> QED
  BY <1>1, <1>2, <1>3

\* Some class above c, or c, declares the name for others to override.
VirtualIn(p, U, c, nm) ==
  \E d \in U[c] : \E i \in DOMAIN p.methods[d] :
    p.methods[d][i].name = nm /\ (p.methods[d][i].abstract \/ p.methods[d][i].virtual)

\* What has a slot may be overridden, and conversely where the visit has been.
StampedAreVirtual ==
  \A m \in DOMAIN vtableIndex :
    \E c \in Classes : \E i \in DOMAIN program.methods[c] :
      m = <<c, i>> /\ VirtualIn(program, Sup, c, program.methods[c][i].name)

IsChecked(c, i) == c \in visited \/ (InClass /\ c = Class /\ i < turn)

VirtualsAreStamped ==
  stopped = "" =>
    \A c \in Classes : \A i \in DOMAIN program.methods[c] :
      IsChecked(c, i) /\ VirtualIn(program, Sup, c, program.methods[c][i].name)
        => <<c, i>> \in DOMAIN vtableIndex

\* A visited class that is not abstract implements what its interfaces promise.
KeptBy(V, p, U, K) ==
  \A c \in V \ p.abstract : \A j \in DOMAIN p.interfaces[c] : \A d \in U[p.interfaces[c][j]] :
    \A i \in DOMAIN p.methods[d] : \E e \in K[c] : Implemented(p, e, p.methods[d][i].name)

PromisesKept == stopped = "" => KeptBy(visited, program, Sup, Line)

ObjectIsWhole == object # None => object \notin program.abstract

-----------------------------------------------------------------------------
(* The visit of a class stamps what may be overridden.                     *)

LEMMA LinesStay ==
  ASSUME program' = program
  PROVE  Classes' = Classes /\ Sup' = Sup /\ Line' = Line
<1>1. Classes' = Classes
  BY DEF Classes
<1>2. Everything' = Everything
  BY <1>1 DEF Everything, Typed, Base
<1>3. PreOrder(Everything)' = PreOrder(Everything)
  BY <1>1, <1>2 DEF PreOrder
<1>4. Chain(Everything)' = Chain(Everything)
  BY <1>1, <1>2 DEF Chain
<1>5. Sup' = Sup
  BY <1>1, <1>3 DEF Sup, Supertypes
<1>6. Line' = Line
  BY <1>1, <1>4 DEF Line
<1> QED
  BY <1>1, <1>5, <1>6

\* What stands before the class under visit has been visited.
LEMMA BeforeIsVisited ==
  ASSUME WellFormed(program), BasesComeFirst(program), Visits, InClass,
         NEW d \in Classes, IsBefore(program, d, Class)
  PROVE  d \in visited
<1>1. PICK i, j \in DOMAIN program.order : i < j /\ program.order[i] = d /\ program.order[j] = Class
  BY DEF IsBefore
<1>2. next \in DOMAIN program.order /\ program.order[next] = Class
  BY DEF InClass, Class
<1>3. j = next
  BY <1>1, <1>2 DEF BasesComeFirst
<1>4. PICK order : order = program.order
  OBVIOUS
<1>5. order \in Seq(Classes \cup {Body})
  BY <1>4 DEF WellFormed, Classes
<1>6. i \in 1 .. next - 1
  <2>1. DOMAIN order = 1 .. Len(order) /\ Len(order) \in Nat
    BY <1>5
  <2>2. i \in 1 .. Len(order) /\ next \in 1 .. Len(order) /\ i < next
    BY <1>1, <1>2, <1>3, <1>4, <2>1
  <2> QED
    BY <2>1, <2>2
<1>7. d # Body
  BY DEF WellFormed, Classes
<1> QED
  BY <1>1, <1>6, <1>7 DEF Visits

\* The state in which a method is checked, or a visit ends
Visiting(N, h) ==
  /\ RunsHere /\ AreNumbered /\ Heights(N, h) /\ None \notin Classes
  /\ WellFormed(program) /\ BasesComeFirst(program) /\ Visits
  /\ InClass /\ Class \in Classes

LEMMA AllIsKnown ==
  ASSUME NEW N, NEW h, Visiting(N, h)
  PROVE  \A d \in Sup[Class] : \A i \in DOMAIN program.interfaces[d] :
           KnownTo(visited \cup {Class}, d, program.interfaces[d][i])
<1> SUFFICES ASSUME NEW d \in Sup[Class], NEW i \in DOMAIN program.interfaces[d]
             PROVE  KnownTo(visited \cup {Class}, d, program.interfaces[d][i])
  OBVIOUS
<1>1. d \in Classes
  BY UpOfAll DEF Visiting
<1>2. CASE d = Class
  BY <1>2 DEF KnownTo
<1>3. CASE d # Class
  <2>1. IsBefore(program, program.interfaces[d][i], d) \/ IsBefore(program, d, Class)
    BY <1>3 DEF Visiting, RunsHere, KnownInTime, Classes
  <2>2. CASE IsBefore(program, program.interfaces[d][i], d)
    BY <2>2 DEF IsBefore, Before, KnownTo
  <2>3. CASE IsBefore(program, d, Class)
    <3>1. d \in visited
      BY <1>1, <2>3, BeforeIsVisited DEF Visiting
    <3> QED
      BY <3>1 DEF KnownTo
  <2> QED
    BY <2>1, <2>2, <2>3
<1> QED
  BY <1>2, <1>3

LEMMA FirstInIsIn ==
  ASSUME NEW M, NEW ms \in Seq(M), NEW S, FirstIn(ms, S) # None
  PROVE  FirstIn(ms, S) \in ToSet(ms) \cap S
<1>1. At(ms, S) # {}
  BY DEF FirstIn
<1>2. ToSet(ms) \cap S # {}
  BY <1>1 DEF At, ToSet
<1> QED
  BY <1>2, FirstInHolds

\* The checker finds a method above the class, and finds one to override if there is one.
LEMMA OverriddenIs ==
  ASSUME NEW N, NEW h, Visiting(N, h), turn \in DOMAIN program.methods[Class],
         NEW nm, nm = program.methods[Class][turn].name
  PROVE  LET m == <<Class, turn>> IN
         /\ Overridden(m) # None =>
              \E d \in Sup[Class] : \E j \in DOMAIN program.methods[d] :
                Overridden(m) = <<d, j>> /\ program.methods[d][j].name = nm
         /\ VirtualIn(program, Sup, Class, nm) => BecomesVirtual(m)
<1> DEFINE m == <<Class, turn>>
<1>1. PICK V, f : V = visited \cup {Class} /\ f = PreOrder(Declared(V))
  OBVIOUS
<1>2. PICK t : t = Tail(f[Class])
  OBVIOUS
<1>3. t \in Seq(Classes) /\ \A x : x \in ToSet(f[Class]) <=> x = Class \/ x \in ToSet(t)
  BY <1>1, <1>2, DeclaredAbove DEF Visiting
<1>4. ToSet(f[Class]) = Sup[Class]
  <2>1. \A d \in Sup[Class] : \A i \in DOMAIN program.interfaces[d] :
           KnownTo(V, d, program.interfaces[d][i])
    BY <1>1, AllIsKnown
  <2> QED
    BY <1>1, <2>1, DeclaredIsAbove DEF Visiting
<1>5. PICK ms, S : ms = MethodsOf(t) /\ S = Matching(m)
  OBVIOUS
<1>6. Overridden(m) = FirstIn(ms, S)
  BY <1>1, <1>2, <1>5 DEF Overridden, Links
<1>7. /\ ms \in Seq(Methods)
      /\ \A n : n \in ToSet(ms) <=> \E d \in ToSet(t) : \E j \in DOMAIN program.methods[d] : n = <<d, j>>
  BY <1>3, <1>5, MethodsOfAre DEF Visiting
<1>8. \A n : n \in S <=>
        \E d \in Classes : \E j \in DOMAIN program.methods[d] :
          n = <<d, j>> /\ program.methods[d][j].name = nm
  BY <1>5, MatchingIs DEF Visiting, RunsHere
<1>9. ASSUME Overridden(m) # None
      PROVE  \E d \in Sup[Class] : \E j \in DOMAIN program.methods[d] :
               Overridden(m) = <<d, j>> /\ program.methods[d][j].name = nm
  <2>1. PICK n : n = Overridden(m)
    OBVIOUS
  <2>2. n \in ToSet(ms) /\ n \in S
    <3>1. FirstIn(ms, S) \in ToSet(ms) \cap S
      BY <1>6, <1>7, <1>9, FirstInIsIn
    <3> QED
      BY <1>6, <2>1, <3>1
  <2>3. PICK d \in ToSet(t) : \E j \in DOMAIN program.methods[d] : n = <<d, j>>
    BY <1>7, <2>2
  <2>4. PICK j \in DOMAIN program.methods[d] : n = <<d, j>>
    BY <2>3
  <2>5. program.methods[d][j].name = nm
    BY <1>8, <2>2, <2>4
  <2>6. d \in Sup[Class]
    BY <1>3, <1>4, <2>3
  <2> QED
    BY <2>1, <2>4, <2>5, <2>6
<1>10. ASSUME VirtualIn(program, Sup, Class, nm) PROVE BecomesVirtual(m)
  <2>1. PICK d \in Sup[Class] : \E i \in DOMAIN program.methods[d] :
          /\ program.methods[d][i].name = nm
          /\ program.methods[d][i].abstract \/ program.methods[d][i].virtual
    BY <1>10 DEF VirtualIn
  <2>2. PICK i \in DOMAIN program.methods[d] :
          /\ program.methods[d][i].name = nm
          /\ program.methods[d][i].abstract \/ program.methods[d][i].virtual
    BY <2>1
  <2>3. CASE d = Class
    <3>1. i = turn
      BY <2>2, <2>3 DEF Visiting, RunsHere, OneSignature, NamesDiffer, Classes
    <3> QED
      BY <2>2, <2>3, <3>1 DEF BecomesVirtual, Decl
  <2>4. CASE d # Class
    <3>1. d \in ToSet(t) /\ d \in Classes
      <4>1. d \in Classes
        BY UpOfAll DEF Visiting
      <4> QED
        BY <1>3, <1>4, <2>4, <4>1
    <3>2. <<d, i>> \in ToSet(ms) \cap S
      BY <1>7, <1>8, <2>2, <3>1
    <3>3. FirstIn(ms, S) \in ToSet(ms)
      BY <1>7, <3>2, FirstInHolds
    <3>4. FirstIn(ms, S) # None
      <4>1. PICK e \in ToSet(t) : \E j \in DOMAIN program.methods[e] : FirstIn(ms, S) = <<e, j>>
        BY <1>7, <3>3
      <4>2. PICK j \in DOMAIN program.methods[e] : FirstIn(ms, S) = <<e, j>>
        BY <4>1
      <4>3. e \in Classes
        BY <1>3, <4>1 DEF ToSet
      <4> QED
        BY <4>2, <4>3 DEF Visiting, RunsHere, OneSignature, Classes
    <3> QED
      BY <1>6, <3>4 DEF BecomesVirtual
  <2> QED
    BY <2>3, <2>4
<1> QED
  BY <1>9, <1>10

LEMMA VirtualIsInherited ==
  ASSUME NEW N, NEW h, Heights(N, h), None \notin Classes, NEW c \in Classes, NEW d \in Sup[c],
         NEW nm, VirtualIn(program, Sup, d, nm)
  PROVE  VirtualIn(program, Sup, c, nm)
<1>1. Sup[d] \subseteq Sup[c]
  BY SupIsTransitive
<1> QED
  BY <1>1 DEF VirtualIn

LEMMA CheckMethodStamps ==
  ASSUME NEW N, NEW h, Visiting(N, h), TypeOK, StampedAreVirtual, VirtualsAreStamped, CheckMethod
  PROVE  StampedAreVirtual' /\ VirtualsAreStamped'
<1> DEFINE m == <<Class, turn>>
<1>1. PICK nm : nm = program.methods[Class][turn].name
  OBVIOUS
<1>2. /\ turn \in DOMAIN program.methods[Class] /\ turn' = turn + 1
      /\ UNCHANGED <<program, next, visited>>
      /\ stopped' = "" => ~Refused(m)
  BY DEF CheckMethod
<1>3. Classes' = Classes /\ Sup' = Sup
  BY <1>2, LinesStay
<1>4. \/ BecomesVirtual(m) /\ ~Refused(m) /\ DOMAIN vtableIndex' = DOMAIN vtableIndex \cup {m}
      \/ ~(BecomesVirtual(m) /\ ~Refused(m)) /\ vtableIndex' = vtableIndex
  BY DEF CheckMethod, AssignVTableSlot
<1>5. Class \in Sup[Class]
  BY UpOfAll DEF Visiting
<1>6. ASSUME BecomesVirtual(m), ~Refused(m) PROVE VirtualIn(program, Sup, Class, nm)
  <2>1. CASE Decl(m).abstract \/ Decl(m).virtual
    BY <1>1, <1>2, <1>5, <2>1 DEF VirtualIn, Decl
  <2>2. CASE Overridden(m) # None
    <3>1. PICK d \in Sup[Class] : \E j \in DOMAIN program.methods[d] :
             Overridden(m) = <<d, j>> /\ program.methods[d][j].name = nm
      BY <1>1, <1>2, <2>2, OverriddenIs
    <3>2. PICK j \in DOMAIN program.methods[d] :
             Overridden(m) = <<d, j>> /\ program.methods[d][j].name = nm
      BY <3>1
    <3>3. Dispatched(<<d, j>>)
      BY <1>6, <2>2, <3>2 DEF Refused
    <3>4. CASE program.methods[d][j].abstract
      BY <3>2, <3>4 DEF VirtualIn
    <3>5. CASE <<d, j>> \in DOMAIN vtableIndex
      <4>1. VirtualIn(program, Sup, d, nm)
        BY <3>2, <3>5 DEF StampedAreVirtual
      <4> QED
        BY <3>1, <4>1, VirtualIsInherited DEF Visiting
    <3> QED
      BY <3>3, <3>4, <3>5 DEF Dispatched, Decl
  <2> QED
    BY <1>6, <2>1, <2>2 DEF BecomesVirtual
<1>7. StampedAreVirtual'
  <2>1. ASSUME NEW n \in DOMAIN vtableIndex'
        PROVE  \E c \in Classes : \E i \in DOMAIN program.methods[c] :
                 n = <<c, i>> /\ VirtualIn(program, Sup, c, program.methods[c][i].name)
    <3>1. CASE n \in DOMAIN vtableIndex
      BY <3>1 DEF StampedAreVirtual
    <3>2. CASE n \notin DOMAIN vtableIndex
      <4>1. n = m /\ BecomesVirtual(m) /\ ~Refused(m)
        BY <1>4, <2>1, <3>2
      <4>2. Class \in Classes
        BY DEF Visiting
      <4> QED
        BY <1>1, <1>2, <1>6, <4>1, <4>2
    <3> QED
      BY <3>1, <3>2
  <2> QED
    BY <1>2, <1>3, <2>1 DEF StampedAreVirtual
<1>8. VirtualsAreStamped'
  <2>1. ASSUME stopped' = "", NEW c \in Classes, NEW i \in DOMAIN program.methods[c],
               IsChecked(c, i)', VirtualIn(program, Sup, c, program.methods[c][i].name)
        PROVE  <<c, i>> \in DOMAIN vtableIndex'
    <3>1. DOMAIN vtableIndex \subseteq DOMAIN vtableIndex'
      BY <1>4
    <3>2. stopped = "" /\ InClass
      BY DEF CheckMethod, InClass
    <3>3. CASE IsChecked(c, i)
      BY <2>1, <3>1, <3>2, <3>3 DEF VirtualsAreStamped
    <3>4. CASE ~IsChecked(c, i)
      <4>1. c = Class /\ i < turn + 1 /\ ~(i < turn)
        BY <1>2, <2>1, <3>2, <3>4 DEF IsChecked, Class
      <4>2. i \in Nat /\ turn \in Nat
        <5>1. PICK n \in Nat : DOMAIN program.methods[c] = 1 .. n
          BY DEF Visiting, AreNumbered
        <5>2. turn \in Nat
          BY DEF TypeOK
        <5>3. i \in 1 .. n
          BY <2>1, <5>1
        <5> QED
          BY <5>1, <5>2, <5>3
      <4>3. i = turn
        BY <4>1, <4>2
      <4>4. BecomesVirtual(m) /\ ~Refused(m)
        BY <1>1, <1>2, <2>1, <4>1, <4>3, OverriddenIs
      <4> QED
        BY <1>4, <4>1, <4>3, <4>4
    <3> QED
      BY <3>3, <3>4
  <2> QED
    BY <1>2, <1>3, <2>1 DEF VirtualsAreStamped
<1> QED
  BY <1>7, <1>8

\* A class that is accepted has a method for each that its interfaces promise.
LEMMA ImplementsMeans ==
  ASSUME NEW N, NEW h, Visiting(N, h), Implements(Class)
  PROVE  \A j \in DOMAIN program.interfaces[Class] :
           \A d \in Sup[program.interfaces[Class][j]] : \A i \in DOMAIN program.methods[d] :
             \E e \in Line[Class] : Implemented(program, e, program.methods[d][i].name)
<1> SUFFICES ASSUME NEW j \in DOMAIN program.interfaces[Class],
                    NEW d \in Sup[program.interfaces[Class][j]],
                    NEW i \in DOMAIN program.methods[d]
             PROVE  \E e \in Line[Class] : Implemented(program, e, program.methods[d][i].name)
  OBVIOUS
<1>1. PICK V, f : V = visited \cup {Class} /\ f = PreOrder(Declared(V))
  OBVIOUS
<1>2. PICK I : I = program.interfaces[Class][j]
  OBVIOUS
<1>3. I \in Classes /\ Sup[I] \subseteq Sup[Class]
  <2>1. program.interfaces[Class] \in Seq(Classes)
    BY DEF Visiting, Heights
  <2>2. I \in Classes
    BY <1>2, <2>1
  <2>3. Sup[I] \subseteq Sup[Class]
    BY <1>2, UpOfAll DEF Visiting
  <2> QED
    BY <2>2, <2>3
<1>4. d \in ToSet(f[I])
  <2>1. \A x \in Sup[I] : \A k \in DOMAIN program.interfaces[x] :
           KnownTo(V, x, program.interfaces[x][k])
    BY <1>1, <1>3, AllIsKnown
  <2>2. ToSet(f[I]) = Sup[I]
    BY <1>1, <1>3, <2>1, DeclaredIsAbove DEF Visiting
  <2> QED
    BY <1>2, <2>2
<1>5. PICK k : k = Declared(V)[Class].interfaces
  OBVIOUS
<1>6. k \in Seq(Classes)
  BY <1>5, DeclaredInterfaces DEF Visiting
<1>7. I \in ToSet(k)
  <2>1. KnownTo(V, Class, I)
    BY <1>1 DEF KnownTo
  <2>2. \A x : x \in ToSet(k) <=> \E l \in DOMAIN program.interfaces[Class] :
                                    x = program.interfaces[Class][l] /\ KnownTo(V, Class, x)
    BY <1>5, DeclaredInterfaces DEF Visiting
  <2> QED
    BY <1>2, <2>1, <2>2
<1>8. PICK cs : cs = Each(f, k)
  OBVIOUS
<1>9. cs \in Seq(Classes) /\ d \in ToSet(cs)
  <2>1. \A c \in Classes : f[c] \in Seq(Classes)
    BY <1>1, DeclaredAbove DEF Visiting
  <2>2. Each(f, k) \in Seq(Classes)
    BY ONLY <1>6, <2>1, EachHolds
  <2>3. PICK l \in DOMAIN k : k[l] = I
    BY <1>7 DEF ToSet
  <2>4. d \in ToSet(f[k[l]])
    BY <1>4, <2>3
  <2>5. d \in ToSet(Each(f, k))
    BY ONLY <1>6, <2>1, <2>3, <2>4, EachReaches
  <2> QED
    BY <1>8, <2>2, <2>5
<1>10. <<d, i>> \in ToSet(MethodsOf(cs))
  BY <1>9, MethodsOfAre DEF Visiting
<1>11. Chain(Declared(V)) = Chain(Everything)
  <2>1. Falls(Classes, Bases, N, h)
    BY HeightsFall DEF Visiting
  <2>2. \A c \in Classes : Declared(V)[c].base = Base(c)
    BY BasesAreKnown DEF Visiting
  <2> QED
    BY <2>1, <2>2, ChainsAgree
<1>12. PICK t : t = Chain(Everything)[Class]
  OBVIOUS
<1>13. t \in Seq(Classes) /\ ToSet(t) = Line[Class]
  <2>1. Falls(Classes, Bases, N, h) /\ Class \in Classes
    BY HeightsFall DEF Visiting
  <2>2. t \in Seq(Classes)
    BY <1>12, <2>1, ChainOf
  <2> QED
    BY <1>12, <2>1, <2>2 DEF Line
<1>14. PICK n \in ToSet(MethodsOf(t)) : SignaturesMatch(n, <<d, i>>) /\ ~Decl(n).abstract
  <2>1. cs = Each(PreOrder(Links), Links[Class].interfaces)
    BY <1>1, <1>5, <1>8 DEF Links
  <2>2. Chain(Links)[Class] = t
    BY <1>1, <1>11, <1>12 DEF Links
  <2> QED
    BY <1>10, <2>1, <2>2 DEF Implements
<1>15. PICK e \in Line[Class] : \E l \in DOMAIN program.methods[e] : n = <<e, l>>
  BY <1>13, <1>14, MethodsOfAre DEF Visiting
<1>16. PICK l \in DOMAIN program.methods[e] : n = <<e, l>>
  BY <1>15
<1>17. Implemented(program, e, program.methods[d][i].name)
  BY <1>14, <1>16 DEF SignaturesMatch, Decl, Implemented
<1> QED
  BY <1>17

LEMMA LeaveClassKeeps ==
  ASSUME NEW N, NEW h, Visiting(N, h), TypeOK, VirtualsAreStamped, PromisesKept, LeaveClass
  PROVE  VirtualsAreStamped' /\ PromisesKept'
<1>1. /\ turn = Len(program.methods[Class]) + 1 /\ turn' = 0 /\ stopped = ""
      /\ visited' = visited \cup {Class} /\ UNCHANGED <<program, vtableIndex>>
      /\ stopped' = "" => Class \in program.abstract \/ Implements(Class)
  BY DEF LeaveClass, InClass
<1>2. Classes' = Classes /\ Sup' = Sup /\ Line' = Line
  BY <1>1, LinesStay
<1>3. VirtualsAreStamped'
  <2>1. ASSUME NEW c \in Classes, NEW i \in DOMAIN program.methods[c], IsChecked(c, i)',
               VirtualIn(program, Sup, c, program.methods[c][i].name)
        PROVE  <<c, i>> \in DOMAIN vtableIndex
    <3>1. PICK n \in Nat : DOMAIN program.methods[c] = 1 .. n
      BY DEF Visiting, AreNumbered
    <3>2. i \in Nat /\ i # 0 /\ ~(i < 0)
      BY <3>1
    <3>3. c \in visited \cup {Class}
      BY <1>1, <2>1, <3>2 DEF IsChecked
    <3>4. c = Class => i < turn
      <4>1. ASSUME c = Class PROVE i < turn
        <5>1. PICK ms : ms = program.methods[c]
          OBVIOUS
        <5>2. ms \in Seq(Range(ms))
          BY <4>1, <5>1 DEF Visiting, WellFormed, Classes
        <5>3. i \in 1 .. Len(ms) /\ Len(ms) \in Nat
          BY <5>1, <5>2
        <5>4. turn = Len(ms) + 1
          BY <1>1, <4>1, <5>1
        <5> QED
          BY <5>3, <5>4
      <4> QED
        BY <4>1
    <3>5. IsChecked(c, i)
      BY <3>3, <3>4 DEF IsChecked, Visiting
    <3> QED
      BY <1>1, <2>1, <3>5 DEF VirtualsAreStamped
  <2> QED
    BY <1>1, <1>2, <2>1 DEF VirtualsAreStamped
<1>4. PromisesKept'
  <2>1. ASSUME stopped' = "", NEW c \in (visited \cup {Class}) \ program.abstract,
               NEW j \in DOMAIN program.interfaces[c],
               NEW d \in Sup[program.interfaces[c][j]], NEW i \in DOMAIN program.methods[d]
        PROVE  \E e \in Line[c] : Implemented(program, e, program.methods[d][i].name)
    <3>1. CASE c \in visited
      BY <1>1, <2>1, <3>1 DEF PromisesKept, KeptBy
    <3>2. CASE c = Class
      <4>1. Implements(Class)
        BY <1>1, <2>1, <3>2
      <4> QED
        BY <3>2, <4>1, ImplementsMeans
    <3> QED
      BY <3>1, <3>2
  <2>2. stopped' = "" => KeptBy(visited \cup {Class}, program, Sup, Line)
    BY <2>1 DEF KeptBy
  <2> QED
    BY <1>1, <1>2, <2>2 DEF PromisesKept
<1> QED
  BY <1>3, <1>4

-----------------------------------------------------------------------------
(* What a call runs.                                                       *)

\* The methods a call through a pointer to c can name belong to classes above c.
LEMMA VisibleIs ==
  ASSUME AreNumbered, NEW N, NEW h, Heights(N, h), None \notin Classes, BasesComeFirst(program),
         NEW c \in Classes
  PROVE  /\ Visible(c) \in Seq(Methods)
         /\ \A m \in ToSet(Visible(c)) :
              \E d \in Sup[c] : \E i \in DOMAIN program.methods[d] : m = <<d, i>>
<1>1. Falls(Classes, Bases, N, h)
  BY HeightsFall
<1>2. PICK links, f, t : links = Declared(seen) /\ f = Chain(links) /\ t = f[c]
  OBVIOUS
<1>3. f = Chain(Everything)
  <2>1. \A d \in Classes : links[d].base = Base(d)
    BY <1>2, BasesAreKnown
  <2> QED
    BY <1>1, <1>2, <2>1, ChainsAgree
<1>4. \A d \in Classes : f[d] \in Seq(Classes) /\ ToSet(f[d]) = Line[d]
  BY <1>1, <1>3, ChainOf DEF Line
<1>5. PICK g : g = [x \in Classes |-> <<x>> \o Each(f, links[x].interfaces)]
  OBVIOUS
<1>6. ASSUME NEW x \in Classes PROVE g[x] \in Seq(Classes) /\ ToSet(g[x]) \subseteq Sup[x]
  <2>1. PICK k : k = links[x].interfaces
    OBVIOUS
  <2>2. k \in Seq(Classes)
    BY <1>2, <2>1, DeclaredInterfaces
  <2>3. \A y : y \in ToSet(k) <=> \E j \in DOMAIN program.interfaces[x] :
                                    y = program.interfaces[x][j] /\ KnownTo(seen, x, y)
    BY <1>2, <2>1, DeclaredInterfaces
  <2>4. \A d \in Classes : f[d] \in Seq(Classes)
    BY <1>4
  <2>5. PICK e : e = Each(f, k)
    OBVIOUS
  <2>6. e \in Seq(Classes) /\ ToSet(e) = UNION {ToSet(f[k[i]]) : i \in DOMAIN k}
    <3>1. Each(f, k) \in Seq(Classes) /\ ToSet(Each(f, k)) = UNION {ToSet(f[k[i]]) : i \in DOMAIN k}
      BY ONLY <2>2, <2>4, EachHolds
    <3> QED
      BY <2>5, <3>1
  <2>7. ToSet(e) \subseteq Sup[x]
    <3>1. ASSUME NEW i \in DOMAIN k PROVE ToSet(f[k[i]]) \subseteq Sup[x]
      <4>1. k[i] \in ToSet(k) /\ k[i] \in Classes
        BY <2>2 DEF ToSet
      <4>2. Sup[k[i]] \subseteq Sup[x]
        BY <2>3, <4>1, UpOfAll
      <4>3. ToSet(f[k[i]]) \subseteq Sup[k[i]]
        BY <1>4, <4>1, LineIsAbove
      <4> QED
        BY <4>2, <4>3
    <3> QED
      BY <2>6, <3>1
  <2>8. <<x>> \in Seq(Classes) /\ \A y : y \in ToSet(<<x>>) <=> y = x
    BY DEF ToSet
  <2>9. g[x] = <<x>> \o e
    BY <1>5, <2>1, <2>5
  <2>10. <<x>> \o e \in Seq(Classes)
    BY <2>6, <2>8, ConcatProperties
  <2>11. \A y : y \in ToSet(<<x>> \o e) <=> y \in ToSet(<<x>>) \/ y \in ToSet(e)
    BY <2>6, <2>8, ConcatHolds
  <2>12. x \in Sup[x]
    BY UpOfAll
  <2> QED
    BY <2>7, <2>8, <2>9, <2>10, <2>11, <2>12
<1>7. t \in Seq(Classes) /\ ToSet(t) = Line[c] /\ \A i \in DOMAIN t : t[i] \in Classes
  <2>1. t \in Seq(Classes) /\ ToSet(t) = Line[c]
    BY <1>2, <1>4
  <2> QED
    BY <2>1
<1>8. PICK r : r = Each(g, t)
  OBVIOUS
<1>9. r \in Seq(Classes) /\ ToSet(r) \subseteq Sup[c]
  <2>1. \A d \in Classes : g[d] \in Seq(Classes)
    BY <1>6
  <2>2. t \in Seq(Classes)
    BY <1>7
  <2>3. Each(g, t) \in Seq(Classes) /\ ToSet(Each(g, t)) = UNION {ToSet(g[t[i]]) : i \in DOMAIN t}
    BY ONLY <2>1, <2>2, EachHolds
  <2>4. ASSUME NEW i \in DOMAIN t PROVE ToSet(g[t[i]]) \subseteq Sup[c]
    <3>1. t[i] \in Classes /\ t[i] \in Line[c]
      BY <1>7 DEF ToSet
    <3>2. Sup[t[i]] \subseteq Sup[c]
      BY <3>1, LineIsAbove, SupIsTransitive
    <3> QED
      BY <1>6, <3>1, <3>2
  <2> QED
    BY <1>8, <2>3, <2>4
<1>10. Visible(c) = MethodsOf(r)
  <2>1. [i \in DOMAIN t |-> <<t[i]>> \o Each(f, links[t[i]].interfaces)] = [i \in DOMAIN t |-> g[t[i]]]
    BY <1>5, <1>7
  <2>2. r = FlattenSeq([i \in DOMAIN t |-> <<t[i]>> \o Each(f, links[t[i]].interfaces)])
    BY <1>8, <2>1 DEF Each
  <2>3. Visible(c) = MethodsOf(FlattenSeq([i \in DOMAIN t |-> <<t[i]>> \o Each(f, links[t[i]].interfaces)]))
    BY <1>2 DEF Visible
  <2> QED
    BY <2>2, <2>3
<1>11. \A m : m \in ToSet(MethodsOf(r)) <=>
         \E d \in ToSet(r) : \E i \in DOMAIN program.methods[d] : m = <<d, i>>
  BY <1>9, MethodsOfAre
<1>12. MethodsOf(r) \in Seq(Methods)
  BY <1>9, MethodsOfAre
<1> QED
  BY <1>9, <1>10, <1>11, <1>12

\* The state in which a call is made
Running(N, h, T) ==
  /\ RunsHere /\ AreNumbered /\ Heights(N, h) /\ None \notin Classes
  /\ BasesComeFirst(program) /\ PlainInterfaces(program)
  /\ LaidOut(T) /\ InterfacesTabled(program, T)
  /\ Slots /\ StampedAreVirtual /\ VirtualsAreStamped /\ PromisesKept
  /\ stopped = "" /\ visited = Classes /\ seen = Classes
  /\ object \in Classes /\ object \notin program.abstract

\* If some class above the object's may have the method overridden, one in its line has it.
LEMMA LineDeclares ==
  ASSUME NEW N, NEW h, NEW T, Running(N, h, T), NEW nm, VirtualIn(program, Sup, object, nm)
  PROVE  \E z \in Line[object] : Declares(program, z, nm)
<1>1. PICK y \in Sup[object] : \E k \in DOMAIN program.methods[y] :
        /\ program.methods[y][k].name = nm
        /\ program.methods[y][k].abstract \/ program.methods[y][k].virtual
  BY DEF VirtualIn
<1>2. PICK k \in DOMAIN program.methods[y] : program.methods[y][k].name = nm
  BY <1>1
<1>3. CASE y \in Line[object]
  BY <1>2, <1>3 DEF Declares
<1>4. CASE y \notin Line[object]
  <2>1. IsNamed(y)
    BY <1>4, AboveIsLineOrNamed DEF Running
  <2>2. program.methods[y][k].abstract
    BY <2>1 DEF IsNamed, Running, RunsHere, PromisesOnly, Classes
  <2>3. CASE \E j \in DOMAIN program.interfaces[object] : y \in Sup[program.interfaces[object][j]]
    <3>1. \E e \in Line[object] : Implemented(program, e, nm)
      BY <1>2, <2>3 DEF Running, PromisesKept, KeptBy
    <3> QED
      BY <3>1 DEF Implemented, Declares
  <2>4. CASE ~(\E j \in DOMAIN program.interfaces[object] : y \in Sup[program.interfaces[object][j]])
    <3>1. y \in Line[object] \cup
            (Sup[object] \ UNION {Sup[program.interfaces[object][j]] : j \in DOMAIN program.interfaces[object]})
      BY <2>4
    <3>2. object \in DOMAIN program.base \ program.abstract
      BY DEF Running, Classes
    <3>3. \E e \in Line[object] : Implemented(program, e, nm)
      BY <1>2, <2>2, <3>1, <3>2 DEF Running, RunsHere, LeavesNoneAbstract
    <3> QED
      BY <3>3 DEF Implemented, Declares
  <2> QED
    BY <2>3, <2>4
<1> QED
  BY <1>3, <1>4

LEMMA NearestIsConcrete ==
  ASSUME NEW N, NEW h, NEW T, Running(N, h, T), NEW nm, NEW S, NEW R, NEW x,
         IsNearest(object, x, nm, S, R), NEW i \in DOMAIN program.methods[x],
         program.methods[x][i].name = nm
  PROVE  ~program.methods[x][i].abstract
<1> SUFFICES ASSUME program.methods[x][i].abstract PROVE FALSE
  OBVIOUS
<1>1. object \in DOMAIN program.base \ program.abstract
  BY DEF Running, Classes
<1>2. PICK e \in Line[object] : Implemented(program, e, nm) /\ x \in Line[e]
  <2>1. x \in Line[object]
    BY DEF IsNearest
  <2> QED
    BY <1>1, <2>1 DEF Running, RunsHere, LeavesNoneAbstract
<1>3. e \in Line[x] /\ x \in Classes
  BY <1>2 DEF IsNearest, Implemented, Declares
<1>4. e \in Classes
  <2>1. e \in Sup[x]
    BY <1>3, LineIsAbove DEF Running
  <2> QED
    BY <1>3, <2>1, UpOfAll DEF Running
<1>5. (e = x \/ h[e] < h[x]) /\ (x = e \/ h[x] < h[e])
  BY <1>2, <1>3, <1>4, LineIsAbove DEF Running
<1>6. h[e] \in Nat /\ h[x] \in Nat
  <2>1. N \in Nat /\ h \in [Classes -> 0 .. N]
    BY DEF Running, Heights
  <2>2. h[e] \in 0 .. N /\ h[x] \in 0 .. N
    BY <1>3, <1>4, <2>1
  <2> QED
    BY <2>1, <2>2
<1>7. e = x
  BY <1>5, <1>6
<1>8. PICK k \in DOMAIN program.methods[x] :
        program.methods[x][k].name = nm /\ ~program.methods[x][k].abstract
  BY <1>2, <1>7 DEF Implemented
<1>9. k = i
  BY <1>3, <1>8 DEF Running, RunsHere, OneSignature, NamesDiffer, Classes
<1> QED
  BY <1>8, <1>9

LEMMA CallFinds ==
  ASSUME NEW N, NEW h, NEW T, Running(N, h, T), NEW d \in Sup[object],
         NEW i \in DOMAIN program.methods[d], <<d, i>> \in DOMAIN vtableIndex
  PROVE  /\ object \in polymorphic
         /\ VTableEntry(object, vtableIndex[<<d, i>>]) = MostDerived(<<d, i>>, object)
         /\ MostDerived(<<d, i>>, object) # None
<1>1. PICK nm, m, S : /\ nm = program.methods[d][i].name /\ m = <<d, i>>
                      /\ S = Stamped(vtableIndex[m])
  OBVIOUS
<1>2. d \in Classes
  BY UpOfAll DEF Running
<1>3. VirtualIn(program, Sup, d, nm)
  BY <1>1 DEF Running, StampedAreVirtual
<1>4. VirtualIn(program, Sup, object, nm)
  BY <1>3, VirtualIsInherited DEF Running
<1>5. object \in polymorphic
  <2>1. PICK y \in Sup[object] : \E k \in DOMAIN program.methods[y] :
          program.methods[y][k].abstract \/ program.methods[y][k].virtual
    BY <1>4 DEF VirtualIn
  <2>2. y \in Classes
    BY UpOfAll DEF Running
  <2>3. y \in T
    <3>1. \E e \in Range(program.methods[y]) : e.abstract \/ e.virtual \/ e.override
      BY <2>1 DEF Range
    <3> QED
      BY <2>2, <3>1 DEF Running, LaidOut, IsTabled, Classes
  <2>4. object \in T
    BY <2>1, <2>3, TablesAbove DEF Running, LaidOut
  <2> QED
    BY <2>4 DEF Running, LaidOut
<1>6. AllNamed(S, nm) /\ \A n \in DOMAIN vtableIndex : Name(n) = nm => n \in S
  <2>1. Name(m) = nm
    BY <1>1 DEF Name, Decl
  <2>2. SlotsFollowNames
    BY SlotsAreNames DEF Running
  <2> QED
    BY <1>1, <2>1, <2>2 DEF SlotsFollowNames, AllNamed, Stamped
<1>7. PICK R : R = {n \in Matching(m) : ~Decl(n).abstract}
  OBVIOUS
<1>8. \A n : n \in Matching(m) <=>
         \E c \in Classes : \E j \in DOMAIN program.methods[c] :
           n = <<c, j>> /\ program.methods[c][j].name = nm
  <2>1. OneSignature(program)
    BY DEF Running, RunsHere
  <2>2. \A n : n \in Matching(<<d, i>>) <=>
          \E c \in Classes : \E j \in DOMAIN program.methods[c] :
            n = <<c, j>> /\ program.methods[c][j].name = program.methods[d][i].name
    BY <1>2, <2>1, MatchingIs
  <2>3. Matching(m) = Matching(<<d, i>>) /\ nm = program.methods[d][i].name
    BY <1>1
  <2> QED
    BY ONLY <2>2, <2>3
<1>9. AllNamed(R, nm)
  BY <1>7, <1>8 DEF AllNamed, Name, Decl
<1>10. PICK x : IsNearest(object, x, nm, S, R)
  <2>1. \E z \in Line[object] : Declares(program, z, nm)
    BY <1>4, LineDeclares
  <2> QED
    BY <1>6, <1>9, <2>1, NearestExists DEF Running, RunsHere
<1>11. PICK k \in DOMAIN program.methods[x] : program.methods[x][k].name = nm
  BY <1>10 DEF IsNearest, Declares
<1>12. x \in Classes /\ ~program.methods[x][k].abstract
  BY <1>10, <1>11, NearestIsConcrete DEF IsNearest
<1>13. VirtualIn(program, Sup, x, nm)
  <2>1. PICK y \in Sup[object] : \E j \in DOMAIN program.methods[y] :
          /\ program.methods[y][j].name = nm
          /\ program.methods[y][j].abstract \/ program.methods[y][j].virtual
    BY <1>4 DEF VirtualIn
  <2>2. y \in Sup[x]
    BY <1>10, <2>1 DEF IsNearest, Declares
  <2> QED
    BY <2>1, <2>2 DEF VirtualIn
<1>14. <<x, k>> \in DOMAIN vtableIndex
  BY <1>11, <1>12, <1>13 DEF Running, VirtualsAreStamped, IsChecked
<1>15. <<x, k>> \in S /\ <<x, k>> \in R
  <2>1. <<x, k>> \in S
    BY <1>6, <1>11, <1>14 DEF Name, Decl
  <2>2. <<x, k>> \in Matching(m)
    BY <1>8, <1>11, <1>12
  <2> QED
    BY <1>7, <1>12, <2>1, <2>2 DEF Decl
<1>16. LastIn(MethodsOf(PostOrder(Everything)[x]), S) = <<x, k>>
  <2>1. PICK f, s, e : f = PostOrder(Everything) /\ s = Each(f, Base(x)) /\ e = Each(f, program.interfaces[x])
    OBVIOUS
  <2>2. s \in Seq(Classes) /\ e \in Seq(Classes) /\ f[x] = (s \o e) \o <<x>>
    BY <1>12, <2>1, TableWalkHolds DEF Running
  <2>3. PICK q : q = s \o e
    OBVIOUS
  <2>4. q \in Seq(Classes)
    BY <2>2, <2>3, ConcatProperties
  <2>5. LastIn(MethodsOf(q \o <<x>>), S) = <<x, k>>
    <3>1. AreNumbered /\ NamesDiffer(program)
      BY DEF Running, RunsHere, OneSignature
    <3>2. AllNamed(S, program.methods[x][k].name)
      BY <1>6, <1>11
    <3>3. x \in Classes /\ <<x, k>> \in S
      BY <1>12, <1>15
    <3> QED
      BY ONLY <1>11, <2>4, <3>1, <3>2, <3>3, OwnIsLast
  <2> QED
    BY <2>1, <2>2, <2>3, <2>5
<1>17. FirstIn(MethodsOf(Chain(Everything)[x]), R) = <<x, k>>
  <2>1. Falls(Classes, Bases, N, h)
    BY HeightsFall DEF Running
  <2>2. PICK f : f = Chain(Everything)
    OBVIOUS
  <2>3. PICK t \in Seq(Classes) : f[x] = <<x>> \o t
    <3>1. CASE program.base[x] = None
      <4>1. f[x] = <<x>>
        BY <1>12, <2>1, <2>2, <3>1, ChainOf
      <4>2. <<x>> \o <<>> = <<x>> /\ <<>> \in Seq(Classes)
        OBVIOUS
      <4> QED
        BY <4>1, <4>2
    <3>2. CASE program.base[x] # None
      <4>1. f[x] = <<x>> \o f[program.base[x]] /\ program.base[x] \in Classes
        BY <1>12, <2>1, <2>2, <3>2, ChainOf
      <4>2. f[program.base[x]] \in Seq(Classes)
        BY <2>1, <2>2, <4>1, ChainOf
      <4> QED
        BY <4>1, <4>2
    <3> QED
      BY <3>1, <3>2
  <2>4. FirstIn(MethodsOf(<<x>> \o t), R) = <<x, k>>
    <3>1. AreNumbered /\ NamesDiffer(program)
      BY DEF Running, RunsHere, OneSignature
    <3>2. AllNamed(R, program.methods[x][k].name)
      BY <1>9, <1>11
    <3>3. x \in Classes /\ <<x, k>> \in R
      BY <1>12, <1>15
    <3> QED
      BY ONLY <1>11, <2>3, <3>1, <3>2, <3>3, OwnIsFirst
  <2> QED
    BY <2>2, <2>3, <2>4
<1>18. <<x, k>> # None
  BY <1>11, <1>12 DEF Running, RunsHere, OneSignature, Classes
<1>19. MostDerived(m, object) = <<x, k>>
  BY <1>7, <1>10, <1>17 DEF MostDerived, IsNearest
<1>20. VTableEntry(object, vtableIndex[m]) = <<x, k>>
  BY <1>1, <1>10, <1>12, <1>16, <1>18 DEF VTableEntry, IsNearest, Decl
<1> QED
  BY <1>1, <1>5, <1>18, <1>19, <1>20

LEMMA MostDerivedStays ==
  ASSUME NEW m, NEW c, program' = program
  PROVE  MostDerived(m, c)' = MostDerived(m, c)
<1>1. Classes' = Classes
  BY DEF Classes
<1>2. Everything' = Everything
  BY <1>1 DEF Everything, Typed, Base
<1>3. Chain(Everything)' = Chain(Everything)
  BY <1>1, <1>2 DEF Chain
<1>4. \A d : Own(d)' = Own(d)
  BY DEF Own
<1>5. MethodsOf(Chain(Everything)[c])' = MethodsOf(Chain(Everything)[c])
  BY <1>3, <1>4 DEF MethodsOf
<1>6. \A n : Decl(n)' = Decl(n)
  BY DEF Decl
<1>7. Matching(m)' = Matching(m)
  BY <1>1, <1>4, <1>6 DEF Matching, SignaturesMatch
<1>8. {n \in Matching(m) : ~Decl(n).abstract}' = {n \in Matching(m) : ~Decl(n).abstract}
  BY <1>6, <1>7
<1> QED
  BY <1>5, <1>8 DEF MostDerived, FirstIn, At

\* Between the end of a class's visit and the next class no method is being checked.
TurnIsOver == InBody => turn = 0

WellOverridden ==
  /\ IInv /\ BodySeesAll /\ NothingDoneYet /\ ObjectIsWhole /\ TurnIsOver
  /\ \E T : LaidOut(T) /\ InterfacesTabled(program, T)
  /\ StampedAreVirtual /\ VirtualsAreStamped /\ PromisesKept

LEMMA NumbersHold ==
  ASSUME WellFormed(program)
  PROVE  AreNumbered
<1>1. ASSUME NEW c \in Classes PROVE \E n \in Nat : DOMAIN program.methods[c] = 1 .. n
  <2>1. PICK ms : ms = program.methods[c]
    OBVIOUS
  <2>2. ms \in Seq(Range(ms))
    BY <2>1 DEF WellFormed, Classes
  <2>3. Len(ms) \in Nat /\ DOMAIN ms = 1 .. Len(ms)
    BY <2>2
  <2> QED
    BY <2>1, <2>3
<1> QED
  BY <1>1 DEF AreNumbered

\* What a call runs, in a program that is checked to its end.
LEMMA CallRuns ==
  ASSUME \A p \in Programs : RunsOverrides(p), WellOverridden, Call
  PROVE  CallsRunOverrides'
<1>1. /\ RunsOverrides(program) /\ FindsRelatives(program) /\ WellFormed(program)
      /\ None \notin Classes /\ BasesComeFirst(program) /\ PlainInterfaces(program)
  BY DEF WellOverridden, IInv, TypeOK, RunsOverrides, FindsRelatives, Orderly, WellFormed, Classes
<1>2. PICK N, h : Heights(N, h)
  BY <1>1, HeightsExist DEF FindsRelatives, Orderly
<1>3. object \in Classes /\ Accepted
  BY DEF Call, WellOverridden, IInv, TypeOK, Visits
<1>4. visited = Classes /\ seen = Classes
  <2>1. visited = Classes
    BY <1>1, <1>3, AcceptedVisitedAll
       DEF WellOverridden, ObjectsHaveLayouts, IInv, TypeOK, RunsOverrides, FindsRelatives, Orderly
  <2> QED
    BY <1>3, <2>1 DEF WellOverridden, BodySeesAll, Accepted
<1>5. AreNumbered /\ RunsHere
  BY <1>1, <1>2, NumbersHold, RunsHereHolds
<1>6. PICK T : LaidOut(T) /\ InterfacesTabled(program, T)
  BY DEF WellOverridden
<1>7. Running(N, h, T)
  <2>1. stopped = "" /\ object \notin program.abstract
    BY <1>3 DEF WellOverridden, ObjectIsWhole, Accepted, Call
  <2> QED
    BY <1>1, <1>2, <1>3, <1>4, <1>5, <1>6, <2>1 DEF Running, WellOverridden, IInv
<1>8. PICK c \in Views : \E n \in ToSet(Visible(c)) :
        last' = [did |-> "call", of |-> FirstIn(Visible(c), Matching(n)),
                 got |-> Called(FirstIn(Visible(c), Matching(n)))]
  BY DEF Call
<1>9. PICK n \in ToSet(Visible(c)) :
        last' = [did |-> "call", of |-> FirstIn(Visible(c), Matching(n)),
                 got |-> Called(FirstIn(Visible(c), Matching(n)))]
  BY <1>8
<1>10. PICK v, S, m : v = Visible(c) /\ S = Matching(n) /\ m = FirstIn(v, S)
  OBVIOUS
<1>11. last' = [did |-> "call", of |-> m, got |-> Called(m)]
  BY <1>9, <1>10
<1>12. c \in Sup[object] /\ c \in Classes
  <2>1. c \in Sup[object]
    BY <1>3, <1>4, <1>8 DEF Views, Sup, Everything
  <2> QED
    BY <1>1, <1>2, <1>3, <2>1, UpOfAll
<1>13. v \in Seq(Methods) /\ \A x \in ToSet(v) :
         \E d \in Sup[c] : \E i \in DOMAIN program.methods[d] : x = <<d, i>>
  BY <1>1, <1>2, <1>5, <1>10, <1>12, VisibleIs
<1>14. n \in ToSet(v) /\ n \in S
  <2>1. n \in ToSet(v)
    BY <1>9, <1>10
  <2>2. PICK d \in Sup[c] : \E i \in DOMAIN program.methods[d] : n = <<d, i>>
    BY <1>13, <2>1
  <2>3. PICK i \in DOMAIN program.methods[d] : n = <<d, i>>
    BY <2>2
  <2>4. d \in Classes
    BY <1>1, <1>2, <1>12, <2>2, UpOfAll
  <2>5. OneSignature(program)
    BY <1>5 DEF RunsHere
  <2>6. <<d, i>> \in Matching(<<d, i>>)
    BY <2>3, <2>4, <2>5, MatchingIs
  <2> QED
    BY <1>10, <2>1, <2>3, <2>6
<1>15. m \in ToSet(v)
  <2>1. ToSet(v) \cap S # {}
    BY <1>14
  <2>2. FirstIn(v, S) \in ToSet(v)
    BY ONLY <1>13, <2>1, FirstInHolds
  <2> QED
    BY <1>10, <2>2
<1>16. PICK d \in Sup[c] : \E i \in DOMAIN program.methods[d] : m = <<d, i>>
  BY <1>13, <1>15
<1>17. PICK i \in DOMAIN program.methods[d] : m = <<d, i>>
  BY <1>16
<1>18. d \in Sup[object] /\ d \in Classes
  <2>1. Sup[c] \subseteq Sup[object]
    BY <1>1, <1>2, <1>3, <1>12, SupIsTransitive
  <2>2. d \in Sup[object]
    BY <1>16, <2>1
  <2> QED
    BY <1>1, <1>2, <1>3, <2>2, UpOfAll
<1>19. m # None
  BY <1>5, <1>17, <1>18 DEF RunsHere, OneSignature, Classes
<1>20. CASE m \in DOMAIN vtableIndex
  <2>1. /\ object \in polymorphic
        /\ VTableEntry(object, vtableIndex[<<d, i>>]) = MostDerived(<<d, i>>, object)
        /\ MostDerived(<<d, i>>, object) # None
    BY <1>7, <1>17, <1>18, <1>20, CallFinds
  <2>2. Called(m) = MostDerived(m, object) /\ MostDerived(m, object) # None
    BY <1>17, <1>20, <2>1 DEF Called
  <2>3. program' = program /\ vtableIndex' = vtableIndex /\ object' = object
    BY DEF Call, checking
  <2>4. MostDerived(m, object)' = MostDerived(m, object)
    BY <2>3, MostDerivedStays
  <2>5. last'.got = MostDerived(m, object) /\ last'.of = m
    BY <1>11, <2>2
  <2> QED
    BY <1>20, <2>2, <2>3, <2>4, <2>5 DEF CallsRunOverrides
<1>21. CASE m \notin DOMAIN vtableIndex
  <2>1. last'.got = m /\ last'.of = m
    BY <1>11, <1>21 DEF Called
  <2>2. vtableIndex' = vtableIndex
    BY DEF Call, checking
  <2> QED
    BY <1>19, <1>21, <2>1, <2>2 DEF CallsRunOverrides
<1> QED
  BY <1>20, <1>21

-----------------------------------------------------------------------------
(* Every step keeps what a call relies on.                                 *)

LEMMA FramesStay ==
  ASSUME AreNumbered, StampedAreVirtual, VirtualsAreStamped, PromisesKept,
         UNCHANGED <<program, visited, vtableIndex>>, stopped' = "" => stopped = "",
         \A c \in Classes : \A i \in DOMAIN program.methods[c] :
           IsChecked(c, i)' /\ i # 0 /\ ~(i < 1) => IsChecked(c, i)
  PROVE  StampedAreVirtual' /\ VirtualsAreStamped' /\ PromisesKept'
<1>1. Classes' = Classes /\ Sup' = Sup /\ Line' = Line
  BY LinesStay
<1>2. StampedAreVirtual'
  BY <1>1 DEF StampedAreVirtual
<1>3. VirtualsAreStamped'
  <2>1. ASSUME stopped' = "", NEW c \in Classes, NEW i \in DOMAIN program.methods[c],
               IsChecked(c, i)', VirtualIn(program, Sup, c, program.methods[c][i].name)
        PROVE  <<c, i>> \in DOMAIN vtableIndex
    <3>1. PICK n \in Nat : DOMAIN program.methods[c] = 1 .. n
      BY DEF AreNumbered
    <3>2. i # 0 /\ ~(i < 1)
      <4>1. i \in 1 .. n
        BY <3>1
      <4>2. i \in Nat /\ 1 <= i
        BY ONLY <3>1, <4>1
      <4> QED
        BY ONLY <4>2
    <3>3. IsChecked(c, i)
      BY <2>1, <3>2
    <3> QED
      BY <2>1, <3>3 DEF VirtualsAreStamped
  <2> QED
    BY <1>1, <2>1 DEF VirtualsAreStamped
<1>4. PromisesKept'
  BY <1>1 DEF PromisesKept
<1> QED
  BY <1>2, <1>3, <1>4

LEMMA StepKeepsStamps ==
  ASSUME \A p \in Programs : RunsOverrides(p), WellOverridden, [Next]_vars
  PROVE  StampedAreVirtual' /\ VirtualsAreStamped' /\ PromisesKept'
<1>0. \A p \in Programs : WellFormed(p)
  BY DEF RunsOverrides, FindsRelatives, Orderly
<1>1. /\ RunsOverrides(program) /\ FindsRelatives(program) /\ WellFormed(program)
      /\ None \notin Classes /\ BasesComeFirst(program)
  BY DEF WellOverridden, IInv, TypeOK, RunsOverrides, FindsRelatives, Orderly, WellFormed, Classes
<1>2. PICK N, h : Heights(N, h)
  BY <1>1, HeightsExist DEF FindsRelatives, Orderly
<1>3. AreNumbered /\ RunsHere
  BY <1>1, <1>2, NumbersHold, RunsHereHolds
<1>4. /\ TypeOK /\ Visits /\ StampedAreVirtual /\ VirtualsAreStamped /\ PromisesKept
      /\ TurnIsOver
  BY DEF WellOverridden, IInv
<1>5. ASSUME InClass PROVE Visiting(N, h)
  <2>1. Class \in Classes
    BY <1>0, <1>4, <1>5, ClassIsDeclared
  <2> QED
    BY <1>1, <1>2, <1>3, <1>4, <1>5, <2>1 DEF Visiting
<1>6. CASE EnterClass
  <2>1. /\ UNCHANGED <<program, visited, vtableIndex>> /\ stopped = "" /\ turn' = 1
    BY <1>6 DEF EnterClass, InClass
  <2>2. \A c \in Classes : \A i \in DOMAIN program.methods[c] :
          IsChecked(c, i)' /\ i # 0 /\ ~(i < 1) => IsChecked(c, i)
    BY <2>1 DEF IsChecked
  <2> QED
    BY <1>3, <1>4, <2>1, <2>2, FramesStay
<1>7. CASE CheckMethod
  <2>1. Visiting(N, h)
    BY <1>5, <1>7 DEF CheckMethod
  <2>2. StampedAreVirtual' /\ VirtualsAreStamped'
    BY <1>4, <1>7, <2>1, CheckMethodStamps
  <2>3. program' = program /\ visited' = visited /\ stopped = ""
    BY <1>7 DEF CheckMethod, InClass
  <2>4. Sup' = Sup /\ Line' = Line
    BY <2>3, LinesStay
  <2>5. PromisesKept'
    BY <1>4, <2>3, <2>4 DEF PromisesKept
  <2> QED
    BY <2>2, <2>5
<1>8. CASE LeaveClass
  <2>1. Visiting(N, h)
    BY <1>5, <1>8 DEF LeaveClass
  <2>2. VirtualsAreStamped' /\ PromisesKept'
    BY <1>4, <1>8, <2>1, LeaveClassKeeps
  <2>3. program' = program /\ vtableIndex' = vtableIndex
    BY <1>8 DEF LeaveClass
  <2>4. Classes' = Classes /\ Sup' = Sup
    BY <2>3, LinesStay
  <2>5. StampedAreVirtual'
    BY <1>4, <2>3, <2>4 DEF StampedAreVirtual
  <2> QED
    BY <2>2, <2>5
<1>9. CASE CheckBody
  <2>1. /\ UNCHANGED <<program, visited, vtableIndex, stopped>> /\ turn' = 0
    BY <1>4, <1>9 DEF CheckBody, TurnIsOver
  <2>2. \A c \in Classes : \A i \in DOMAIN program.methods[c] :
          IsChecked(c, i)' /\ i # 0 /\ ~(i < 1) => IsChecked(c, i)
    <3>1. ASSUME NEW c \in Classes, NEW i \in DOMAIN program.methods[c], i # 0 /\ ~(i < 1),
                 IsChecked(c, i)'
          PROVE  IsChecked(c, i)
      <4>1. PICK n \in Nat : DOMAIN program.methods[c] = 1 .. n
        BY <1>3 DEF AreNumbered
      <4>2. i \in 1 .. n
        BY <4>1
      <4>3. ~(i < 0)
        BY <4>2
      <4> QED
        BY <2>1, <3>1, <4>3 DEF IsChecked
    <3> QED
      BY <3>1
  <2> QED
    BY <1>3, <1>4, <2>1, <2>2, FramesStay
<1>10. CASE New \/ Call \/ Read \/ Test \/ UNCHANGED vars
  <2>1. UNCHANGED <<program, visited, vtableIndex, stopped, next, turn>>
    BY <1>10 DEF New, Call, Read, Test, vars, checking
  <2>2. \A c \in Classes : \A i \in DOMAIN program.methods[c] :
          IsChecked(c, i)' /\ i # 0 /\ ~(i < 1) => IsChecked(c, i)
    BY <2>1 DEF IsChecked, InClass, Class
  <2> QED
    BY <1>3, <1>4, <2>1, <2>2, FramesStay
<1> QED
  BY <1>6, <1>7, <1>8, <1>9, <1>10 DEF Next

LEMMA StepKeepsTurn ==
  ASSUME TurnIsOver, [Next]_vars
  PROVE  TurnIsOver'
<1>1. ASSUME EnterClass \/ CheckMethod PROVE ~InBody'
  BY <1>1 DEF EnterClass, CheckMethod, InClass, InBody, Class
<1>2. ASSUME LeaveClass PROVE turn' = 0
  BY <1>2 DEF LeaveClass
<1>3. ASSUME CheckBody PROVE turn' = 0
  BY <1>3 DEF CheckBody, TurnIsOver
<1>4. ASSUME New \/ Call \/ Read \/ Test \/ UNCHANGED vars
      PROVE  UNCHANGED <<program, stopped, next, turn>>
  BY <1>4 DEF New, Call, Read, Test, vars, checking
<1> QED
  BY <1>1, <1>2, <1>3, <1>4 DEF Next, TurnIsOver, InBody, Class

\* No object is made of an abstract class, once all are seen.
LEMMA StepKeepsWhole ==
  ASSUME \A p \in Programs : RunsOverrides(p), WellOverridden, [Next]_vars
  PROVE  ObjectIsWhole'
<1>1. program' = program
  BY DEF Next, EnterClass, CheckMethod, LeaveClass, CheckBody, New, Call, Read, Test,
         vars, checking
<1>2. CASE New
  <2>0. FindsRelatives(program) /\ WellFormed(program)
    BY DEF WellOverridden, IInv, TypeOK, RunsOverrides, FindsRelatives, Orderly
  <2>1. seen = Classes
    <3>1. Accepted
      BY <1>2 DEF New
    <3>2. PICK order, n : order = program.order /\ n = Len(order)
      OBVIOUS
    <3>3. order \in Seq(Classes \cup {Body}) /\ next = n + 1 /\ n \in Nat
      <4>1. order \in Seq(Classes \cup {Body})
        BY <2>0, <3>2 DEF WellFormed, Classes
      <4>2. next = n + 1
        BY <3>1, <3>2 DEF Accepted
      <4> QED
        BY <3>2, <4>1, <4>2
    <3>4. visited = {order[i] : i \in 1 .. n} \ {Body}
      <4>1. 1 .. next - 1 = 1 .. n
        BY <3>3
      <4> QED
        BY <3>2, <4>1 DEF WellOverridden, IInv, Visits
    <3>5. visited = Classes
      <4>1. \A i \in 1 .. n : order[i] \in Classes \cup {Body}
        BY <3>2, <3>3
      <4>2. Classes \subseteq {order[i] : i \in 1 .. n} /\ Body \notin Classes
        BY <2>0, <3>2 DEF WellFormed, Classes
      <4> QED
        BY <3>4, <4>1, <4>2
    <3> QED
      BY <3>1, <3>5 DEF WellOverridden, BodySeesAll, Accepted
  <2> QED
    BY <1>1, <1>2, <2>1 DEF New, ObjectIsWhole
<1>3. CASE ~New
  <2>1. object' = object
    BY <1>3 DEF Next, EnterClass, CheckMethod, LeaveClass, CheckBody, Call, Read, Test,
                vars, checking
  <2> QED
    BY <1>1, <2>1 DEF WellOverridden, ObjectIsWhole
<1> QED
  BY <1>2, <1>3

OverridesInv == WellOverridden /\ CallsRunOverrides

LEMMA OverridesInvHolds ==
  ASSUME \A p \in Programs : RunsOverrides(p)
  PROVE  Spec => []OverridesInv
<1>0. \A p \in Programs : FindsRelatives(p)
  BY DEF RunsOverrides
<1>1. ASSUME Init PROVE OverridesInv
  <2>1. IInv
    BY <1>0, <1>1, InitIsGood DEF FindsRelatives, Orderly
  <2>2. /\ FindsRelatives(program) /\ visited = {} /\ seen = {} /\ polymorphic = {}
        /\ last = None /\ object = None /\ turn = 0 /\ vtableIndex = <<>>
    BY <1>0, <1>1 DEF Init, InitWith
  <2>3. PICK T : /\ IsTabled(program, T) /\ ExtendsTabled(program, T)
                 /\ InterfacesTabled(program, T)
    BY <2>2 DEF FindsRelatives
  <2>4. LaidOut(T)
    BY <2>2, <2>3 DEF LaidOut
  <2>5. AreNumbered
    BY <2>2, NumbersHold DEF FindsRelatives, Orderly
  <2>6. VirtualsAreStamped
    <3>1. ASSUME NEW c \in Classes, NEW i \in DOMAIN program.methods[c] PROVE ~IsChecked(c, i)
      <4>1. PICK n \in Nat : DOMAIN program.methods[c] = 1 .. n
        BY <2>5 DEF AreNumbered
      <4>2. i \in 1 .. n
        BY <4>1
      <4>3. ~(i < 0)
        BY <4>2
      <4> QED
        BY <2>2, <4>3 DEF IsChecked
    <3> QED
      BY <3>1 DEF VirtualsAreStamped
  <2>7. StampedAreVirtual /\ PromisesKept /\ ObjectIsWhole /\ TurnIsOver
    BY <2>2 DEF StampedAreVirtual, PromisesKept, KeptBy, ObjectIsWhole, TurnIsOver
  <2>8. BodySeesAll /\ NothingDoneYet /\ CallsRunOverrides
    BY <2>2 DEF BodySeesAll, NothingDoneYet, CallsRunOverrides, Did
  <2> QED
    BY <2>1, <2>3, <2>4, <2>6, <2>7, <2>8 DEF OverridesInv, WellOverridden
<1>2. ASSUME OverridesInv, [Next]_vars PROVE OverridesInv'
  <2>1. WellOverridden /\ IInv /\ TypeOK /\ Visits /\ Slots /\ BodySeesAll /\ TurnIsOver
    BY <1>2 DEF OverridesInv, WellOverridden, IInv
  <2>2. IInv'
    BY <1>0, <1>2, <2>1, StepKeepsTypes, StepKeepsVisits, StepKeepsSlots
       DEF IInv, FindsRelatives, Orderly
  <2>3. PICK T : LaidOut(T) /\ InterfacesTabled(program, T)
    BY <2>1 DEF WellOverridden
  <2>4. LaidOut(T)'
    BY <1>0, <1>2, <2>1, <2>3, StepKeepsLayouts DEF FindsRelatives
  <2>5. program' = program
    BY <1>2 DEF Next, EnterClass, CheckMethod, LeaveClass, CheckBody, New, Call, Read, Test,
               vars, checking
  <2>6. InterfacesTabled(program, T)'
    BY <2>3, <2>5 DEF InterfacesTabled
  <2>7. BodySeesAll'
    BY <1>0, <1>2, <2>1, StepKeepsBody
  <2>8. StampedAreVirtual' /\ VirtualsAreStamped' /\ PromisesKept' /\ TurnIsOver' /\ ObjectIsWhole'
    BY <1>2, <2>1, StepKeepsStamps, StepKeepsTurn, StepKeepsWhole
  <2>9. NothingDoneYet'
    <3>1. CASE Call \/ Read \/ Test
      <4>1. object # None /\ object' = object
        BY <3>1 DEF Call, Read, Test
      <4> QED
        BY <4>1 DEF NothingDoneYet
    <3>2. CASE New
      BY <2>1, <3>2 DEF New, WellOverridden, NothingDoneYet
    <3>3. CASE EnterClass \/ CheckMethod \/ LeaveClass \/ CheckBody \/ UNCHANGED vars
      <4>1. last' = last /\ object' = object
        BY <3>3 DEF EnterClass, CheckMethod, LeaveClass, CheckBody, vars, checking
      <4> QED
        BY <2>1, <4>1 DEF WellOverridden, NothingDoneYet
    <3> QED
      BY <1>2, <3>1, <3>2, <3>3 DEF Next
  <2>10. CallsRunOverrides'
    <3>1. CASE Call
      BY <2>1, <3>1, CallRuns
    <3>2. CASE Test
      <4>1. \E t, c, g : last' = [did |-> "is", of |-> t, through |-> c, got |-> g]
        BY <3>2 DEF Test
      <4> QED
        BY <4>1 DEF CallsRunOverrides, Did
    <3>3. CASE Read
      <4>1. \E m, n : last' = [did |-> "read", of |-> m, got |-> n]
        BY <3>3 DEF Read
      <4> QED
        BY <4>1 DEF CallsRunOverrides, Did
    <3>4. CASE EnterClass \/ CheckMethod \/ LeaveClass \/ CheckBody
      <4>1. object = None
        <5>1. next \in DOMAIN program.order
          BY <3>4 DEF EnterClass, CheckMethod, LeaveClass, CheckBody, InClass, InBody
        <5>2. \A p \in Programs : WellFormed(p)
          BY <1>0 DEF FindsRelatives, Orderly
        <5> QED
          BY <2>1, <5>1, <5>2, NothingRunsYet
      <4>2. last' = None
        BY <2>1, <3>4, <4>1 DEF EnterClass, CheckMethod, LeaveClass, CheckBody, WellOverridden,
                                NothingDoneYet
      <4> QED
        BY <4>2 DEF CallsRunOverrides, Did
    <3>5. CASE New
      <4>1. last' = None
        BY <2>1, <3>5 DEF New, WellOverridden, NothingDoneYet
      <4> QED
        BY <4>1 DEF CallsRunOverrides, Did
    <3>6. CASE UNCHANGED vars
      <4>1. UNCHANGED <<last, object, program, vtableIndex>>
        BY <3>6 DEF vars, checking
      <4>2. \A m : MostDerived(m, object)' = MostDerived(m, object)
        BY <4>1, MostDerivedStays
      <4> QED
        BY <1>2, <4>1, <4>2 DEF OverridesInv, CallsRunOverrides, Did
    <3> QED
      BY <1>2, <3>1, <3>2, <3>3, <3>4, <3>5, <3>6 DEF Next
  <2> QED
    BY <2>2, <2>4, <2>6, <2>7, <2>8, <2>9, <2>10 DEF OverridesInv, WellOverridden
<1> QED
  BY <1>1, <1>2, PTL DEF Spec

\* Whatever the programs, if the classes are those of RelativesAreFound, methods of one
\* name have one signature, the interfaces only promise methods and are known in time, and
\* what is abstract is implemented below it, by the class itself if it names the interface
\* and has the method above: a virtual call runs the implementation of the object's class
\* or of the nearest class above it, through whatever pointer it is made
\* (TypeChecker.cpp, visit(ClassDeclNode); CodeGen.cpp, getOrCreateVTable).
THEOREM OverridesAreRun ==
  ASSUME \A p \in Programs : RunsOverrides(p)
  PROVE  Spec => []CallsRunOverrides
<1>1. OverridesInv => CallsRunOverrides
  BY DEF OverridesInv
<1> QED
  BY <1>1, OverridesInvHolds, PTL
=============================================================================
