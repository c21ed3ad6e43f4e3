--------------------------- MODULE VirtualDispatch ---------------------------
(***************************************************************************)
(* Classes, from the type checker to a virtual call.                       *)
(*                                                                         *)
(* The type checker visits the declarations in the order of the source.    *)
(* The visit of a class decides method by method whether it overrides, and *)
(* gives it a slot; it ends by fixing the class's layout, and only then do *)
(* the class's base and flags appear in its type.  A type named before its *)
(* declaration is resolved when the class that names it is visited.  The   *)
(* body stands for the function that uses the classes.                     *)
(*                                                                         *)
(* Every accepted program is run: it makes one object and calls a method   *)
(* of it, reads a field or tests its type through a pointer to a supertype.*)
(* All members are public, fields have one size, and a call's arguments    *)
(* select a signature, which also stands for result type and const.        *)
(***************************************************************************)
EXTENDS Naturals, FiniteSets, SequencesExt

CONSTANTS
  Programs,  \* records [order, base, interfaces, abstract, methods, fields]
  None       \* no class, no method, nothing observed

VARIABLES
  program,
  next,         \* where the visit of the declarations stands in program.order
  turn,         \* the method being checked of the class there, 0 before the first
  visited,      \* the classes visited
  slotNames,    \* vtableSlotNames
  vtableIndex,  \* the slot of every method that isVirtual or isOverride
  polymorphic,  \* the class types with isPolymorphic
  layout,       \* the fields of the class types visited
  stopped,      \* how the compiler ended, if it did not accept the program
  seen,         \* the classes visited when the body was checked
  object,       \* the class of the object made
  last          \* what was done with it

checking == <<program, next, turn, visited, slotNames, vtableIndex, polymorphic, layout,
              stopped, seen>>
vars == <<checking, object, last>>

Classes == DOMAIN program.base
Body    == "body"
Vptr    == <<"vptr", 0>>

\* The method declarations: the i-th of class c is <<c, i>>
Decl(m) == program.methods[m[1]][m[2]]
Name(m) == Decl(m).name
SignaturesMatch(m, n) == Decl(m).name = Decl(n).name /\ Decl(m).sig = Decl(n).sig
Own(c)      == [j \in DOMAIN program.methods[c] |-> <<c, j>>]
MethodsOf(cs) == FlattenSeq([i \in DOMAIN cs |-> Own(cs[i])])
Matching(m) == {n \in UNION {Range(Own(c)) : c \in Classes} : SignaturesMatch(m, n)}

\* The first and the last of the methods ms that are in S, or None
At(ms, S)      == {i \in DOMAIN ms : ms[i] \in S}
FirstIn(ms, S) == IF At(ms, S) = {} THEN None ELSE ms[Min(At(ms, S))]
LastIn(ms, S)  == IF At(ms, S) = {} THEN None ELSE ms[Max(At(ms, S))]

----------------------------------------------------------------------------
\* What a class extends and implements, as far as it is known.

Before(c, d) == \E i, j \in DOMAIN program.order :
                  i < j /\ program.order[i] = c /\ program.order[j] = d

Base(c) == IF program.base[c] = None THEN <<>> ELSE <<program.base[c]>>

Each(f, cs) == FlattenSeq([i \in DOMAIN cs |-> f[cs[i]]])

\* In the declarations: the parser resolves what it has met, a visit the rest.
Declared(V) ==
  [c \in Classes |->
     LET known == [d \in Classes |-> IF c \in V \/ Before(d, c) THEN <<d>> ELSE <<>>]
     IN [base       |-> Each(known, Base(c)),
         interfaces |-> Each(known, program.interfaces[c])]]

\* In the types: set by the visit.
Typed(V) ==
  [c \in Classes |->
     [base       |-> IF c \in V THEN Base(c) ELSE <<>>,
      interfaces |-> IF c \in V THEN program.interfaces[c] ELSE <<>>]]

Chain(links) ==
  LET chain[c \in Classes] == <<c>> \o Each(chain, links[c].base) IN chain
PreOrder(links) ==
  LET walk[c \in Classes] == <<c>> \o Each(walk, links[c].base \o links[c].interfaces) IN walk
PostOrder(links) ==
  LET walk[c \in Classes] == Each(walk, links[c].base \o links[c].interfaces) \o <<c>> IN walk

Supertypes(links, c) == ToSet(PreOrder(links)[c])
Everything == Typed(Classes)

----------------------------------------------------------------------------
InitWith(p) ==
  /\ program = p
  /\ next = 1 /\ turn = 0
  /\ visited = {} /\ seen = {} /\ polymorphic = {} /\ slotNames = {}
  /\ vtableIndex = <<>> /\ layout = <<>>
  /\ stopped = "" /\ object = None /\ last = None

Init == \E p \in Programs : InitWith(p)

Class   == program.order[next]
Links   == Declared(visited \cup {Class})
InClass == stopped = "" /\ next \in DOMAIN program.order /\ Class # Body
InBody  == stopped = "" /\ next \in DOMAIN program.order /\ Class = Body

\* The classes above c, one after another; None when there is no further one.
Above(c, links) ==
  LET Up(d) == IF d = None \/ links[d].base = <<>> THEN None ELSE links[d].base[1]
      above[k \in 1 .. Cardinality(Classes) + 1] ==
        IF k = 1 THEN Up(c) ELSE Up(above[k - 1])
  IN above

\* The walk for cycles follows the types, and so what has been visited; the
\* walk for the fields follows the declarations.
SeesCycle(c) == c \in Range(Above(c, Typed(visited \cup {c})))
Circles(c)   == None \notin Range(Above(c, Links))

EnterClass ==
  /\ InClass /\ turn = 0
  /\ turn' = 1
  /\ stopped' = CASE SeesCycle(Class) -> "rejected"
                  [] ~SeesCycle(Class) /\ Circles(Class) -> "overflowed"
                  [] OTHER -> ""
  /\ UNCHANGED <<program, next, visited, slotNames, vtableIndex, polymorphic, layout, seen,
                 object, last>>

\* The first method above the class with the signature of m.
Overridden(m) == FirstIn(MethodsOf(Tail(PreOrder(Links)[Class])), Matching(m))

Dispatched(m) == m \in DOMAIN vtableIndex \/ Decl(m).abstract

Refused(m) ==
  IF Overridden(m) = None THEN Decl(m).override ELSE ~Dispatched(Overridden(m))

BecomesVirtual(m) == Decl(m).abstract \/ Decl(m).virtual \/ Overridden(m) # None

\* A slot is the rank of the method's name among all names that have one.
Rank(name, names) == Cardinality({n \in names : n < name})

\* mutant: methods that have a slot keep it
AssignedOnce(m) ==
  /\ slotNames' = slotNames \cup {Name(m)}
  /\ vtableIndex' = [n \in DOMAIN vtableIndex \cup {m} |->
                       IF n = m THEN Rank(Name(m), slotNames') ELSE vtableIndex[n]]

\* A new name moves the later ones, and every method with a slot is stamped anew.
AssignVTableSlot(m) ==
  /\ slotNames' = slotNames \cup {Name(m)}
  /\ vtableIndex' = [n \in DOMAIN vtableIndex \cup {m} |-> Rank(Name(n), slotNames')]

CheckMethod ==
  LET m == <<Class, turn>> IN
  /\ InClass /\ turn \in DOMAIN program.methods[Class]
  /\ turn' = turn + 1
  /\ stopped' = IF Refused(m) THEN "rejected" ELSE ""
  /\ IF BecomesVirtual(m) /\ ~Refused(m)
       THEN AssignVTableSlot(m)
       ELSE UNCHANGED <<slotNames, vtableIndex>>
  /\ UNCHANGED <<program, next, visited, polymorphic, layout, seen, object, last>>

\* Every method of every interface the class names is implemented in the class
\* or in one it extends.
Implements(c) ==
  \A n \in ToSet(MethodsOf(Each(PreOrder(Links), Links[c].interfaces))) :
    \E m \in ToSet(MethodsOf(Chain(Links)[c])) :
      SignaturesMatch(m, n) /\ ~Decl(m).abstract

IsPolymorphic(c) ==
  \/ program.base[c] \in polymorphic
  \/ program.interfaces[c] # <<>>
  \/ \E d \in Range(program.methods[c]) : d.abstract \/ d.virtual \/ d.override

Fields(c) == [k \in 1 .. program.fields[c] |-> <<c, k>>]
\* mutant: the class's own fields come first
OwnFirst(c) ==
  (IF IsPolymorphic(c) THEN <<Vptr>> ELSE <<>>) \o FlattenSeq(
     [i \in DOMAIN Chain(Links)[c] |-> Fields(Chain(Links)[c][i])])
Layout(c) ==
  LET chain == Reverse(Chain(Links)[c])
  IN (IF IsPolymorphic(c) THEN <<Vptr>> ELSE <<>>)
       \o FlattenSeq([i \in DOMAIN chain |-> Fields(chain[i])])

LeaveClass ==
  /\ InClass /\ turn = Len(program.methods[Class]) + 1
  /\ turn' = 0 /\ next' = next + 1
  /\ stopped' = IF Class \in program.abstract \/ Implements(Class) THEN "" ELSE "rejected"
  /\ visited' = visited \cup {Class}
  /\ polymorphic' = polymorphic \cup {c \in {Class} : IsPolymorphic(c)}
  /\ layout' = [c \in visited' |-> IF c = Class THEN Layout(c) ELSE layout[c]]
  /\ UNCHANGED <<program, slotNames, vtableIndex, seen, object, last>>

CheckBody ==
  /\ InBody
  /\ next' = next + 1
  /\ seen' = visited
  /\ UNCHANGED <<program, turn, visited, slotNames, vtableIndex, polymorphic, layout,
                 stopped, object, last>>

----------------------------------------------------------------------------
\* The program runs.

Accepted == stopped = "" /\ next = Len(program.order) + 1

\* The body may make an object of a class not known to be abstract.
New ==
  /\ Accepted /\ object = None
  /\ \E c \in Classes : c \notin seen \cap program.abstract /\ object' = c
  /\ UNCHANGED <<checking, last>>

\* The pointers to it that the body may form.
Views == Supertypes(Typed(seen), object)

\* The methods a call through a pointer to c finds, the most derived first.
Visible(c) ==
  LET links == Declared(seen)
      chain == Chain(links)
  IN MethodsOf(FlattenSeq([i \in DOMAIN chain[c] |->
                 <<chain[c][i]>> \o Each(chain, links[chain[c][i]].interfaces)]))

IsMember(c, name) ==
  \E m \in ToSet(MethodsOf(Chain(Declared(seen))[c])) : Name(m) = name

Stamped(slot) == {m \in DOMAIN vtableIndex : vtableIndex[m] = slot}

\* mutant: a slot that is filled stays as it is
FirstWritten(c, slot) ==
  LET held == FirstIn(MethodsOf(PostOrder(Everything)[c]), Stamped(slot))
  IN IF held = None \/ Decl(held).abstract THEN None ELSE held

\* The class's table: what the bases hold, over it what the interfaces hold,
\* over both the class's own methods.
VTableEntry(c, slot) ==
  LET held == LastIn(MethodsOf(PostOrder(Everything)[c]), Stamped(slot))
  IN IF held = None \/ Decl(held).abstract THEN None ELSE held

\* None when what is called is no method.
Called(m) ==
  IF m \notin DOMAIN vtableIndex THEN m
  ELSE IF object \in polymorphic THEN VTableEntry(object, vtableIndex[m])
  ELSE None

Call ==
  /\ object # None /\ last = None
  /\ \E c \in Views : \E n \in ToSet(Visible(c)) :
       LET m == FirstIn(Visible(c), Matching(n))
       IN /\ IsMember(c, Name(n))
          /\ last' = [did |-> "call", of |-> m, got |-> Called(m)]
  /\ UNCHANGED <<checking, object>>

\* A field is read by the body through a pointer, or by a method the object's
\* class inherits, at the place it has in the class the pointer names.
Read ==
  /\ object # None /\ last = None
  /\ \E c \in Views \cup ToSet(Chain(Everything)[object]) : \E k \in DOMAIN layout[c] :
       /\ layout[c][k] # Vptr
       /\ last' = [did |-> "read", of |-> layout[c][k],
                   got |-> IF k \in DOMAIN layout[object] THEN layout[object][k] ELSE None]
  /\ UNCHANGED <<checking, object>>

\* A type descriptor: the class, the interfaces it names and theirs, and the
\* descriptor of the class it extends if that one is polymorphic.
Interfaces ==
  LET all[c \in Classes] == ToSet(program.interfaces[c])
                              \cup UNION {all[i] : i \in ToSet(program.interfaces[c])}
  IN all
\* mutant: without the descriptor of the base
DescribedFlat == [c \in Classes |-> {c} \cup Interfaces[c]]
Described ==
  LET walk[c \in Classes] == {c} \cup Interfaces[c] \cup
        IF program.base[c] \in polymorphic THEN walk[program.base[c]] ELSE {}
  IN walk

\* p is t, for a pointer p to c: decided by the checker or at run time.
IsAlways(c, t) == t \in Supertypes(Typed(seen), c)
IsBelow(c, t)  == c \in Supertypes(Typed(seen), t)
IsTested(c, t) == c \in seen \cap polymorphic /\ (IsBelow(c, t) \/ t \in seen \cap program.abstract)

Test ==
  /\ object # None /\ last = None
  /\ \E c \in Views, t \in Classes :
       /\ IsBelow(c, t) => IsAlways(c, t) \/ IsTested(c, t)
       /\ last' = [did |-> "is", of |-> t, through |-> c,
                   got |-> IF IsAlways(c, t) THEN TRUE
                           ELSE IF ~IsTested(c, t) THEN FALSE
                           ELSE object \in polymorphic /\ t \in Described[object]]
  /\ UNCHANGED <<checking, object>>

Next == EnterClass \/ CheckMethod \/ LeaveClass \/ CheckBody \/ New \/ Call \/ Read \/ Test

Spec == Init /\ [][Next]_vars

----------------------------------------------------------------------------
\* The implementation of m that an object of class c should run.
MostDerived(m, c) ==
  FirstIn(MethodsOf(Chain(Everything)[c]), {n \in Matching(m) : ~Decl(n).abstract})

Did(what) == last # None /\ last.did = what

\* A virtual call runs the implementation of the object's class or of the
\* nearest class above it, through whatever pointer it is made; there is one.
\* (docs/language/oop.md: "virtual dispatch with a full vtable implementation")
CallsRunOverrides ==
  Did("call") =>
    /\ last.got # None
    /\ last.got = IF last.of \in DOMAIN vtableIndex THEN MostDerived(last.of, object) ELSE last.of

\* A field is where every pointer and every inherited method looks for it.
\* (docs/language/oop.md: "The derived class inherits fields, methods")
FieldsKeepTheirPlace == Did("read") => last.got = last.of

\* "is" answers what the declarations say of the object's class.
IsAgreesWithTheClasses ==
  Did("is") => (last.got <=> last.of \in Supertypes(Everything, object))

\* The same where the pointer's class and the one asked for are above one another,
\* or the latter is abstract.
IsFindsRelatives ==
  Did("is") /\ (\/ last.through \in Supertypes(Everything, last.of)
               \/ last.of \in Supertypes(Everything, last.through) \cup program.abstract)
    => (last.got <=> last.of \in Supertypes(Everything, object))

\* At every moment methods share a slot exactly when they share a name, whatever
\* the order in which classes and names turned up.
\* (SemaContext.hpp: "all implementors must agree on that slot")
SlotsFollowNames ==
  \A m, n \in DOMAIN vtableIndex : vtableIndex[m] = vtableIndex[n] <=> Name(m) = Name(n)

\* Classes that extend each other are reported, whichever comes first.
CirclesAreReported == stopped # "overflowed"
=============================================================================
