-------------------------- MODULE MCVirtualDispatch --------------------------
(***************************************************************************)
(* Programs of two interfaces, I and J, and two classes, A and B, that     *)
(* declare up to two methods each, and a few of other shapes.  A program   *)
(* the compiler accepts and gets wrong does one of the things named below; *)
(* it is left out unless that is one of the Habits.                        *)
(***************************************************************************)
EXTENDS VirtualDispatch

CONSTANT Habits

Method(n, s, kind) ==
  [name |-> n, sig |-> s, abstract |-> kind = "abstract", virtual |-> kind = "virtual",
   override |-> kind = "override"]

\* The bodies of a class with methods 1 and 2 of the given kinds, or without them.
Members(k1, k2) ==
  LET Of(n, kind) == IF kind = "none" THEN <<>> ELSE <<Method(n, 1, kind)>>
  IN {Of(1, a) \o Of(2, b) : a \in k1, b \in k2}

Program(order, base, interfaces, abstract, methods, fields) ==
  [order |-> order, base |-> base, interfaces |-> interfaces, abstract |-> abstract,
   methods |-> methods, fields |-> fields]

Named == {"I", "J", "A", "B"}

\* J may implement I, A may implement I, and B may implement J; i and j are the
\* methods of I and J, which only an interface somebody implements has.
Promises ==
  {p \in [ji : {<<>>, <<"I">>}, ai : {<<>>, <<"I">>}, bi : {<<>>, <<"J">>},
          i : Members({"none", "abstract"}, {"none"}), j : Members({"none"}, {"none", "abstract"})] :
     /\ p.bi = <<>> => p.ji = <<>> /\ p.j = <<>>
     /\ p.ai = <<>> /\ p.ji = <<>> => p.i = <<>>}

\* B extends A.
Plain ==
  {Program(order,
           [c \in Named |-> IF c = "B" THEN "A" ELSE None],
           [c \in Named |-> CASE c = "J" -> p.ji [] c = "A" -> p.ai [] c = "B" -> p.bi [] c = "I" -> <<>>],
           {"I", "J"} \cup {c \in {"A"} : \E d \in Range(a) : d.abstract},
           [c \in Named |-> CASE c = "I" -> p.i [] c = "J" -> p.j [] c = "A" -> a [] c = "B" -> b],
           [c \in Named |-> IF c \in {"A", "B"} THEN 1 ELSE 0]) :
     order \in {<<"I", "J", "A", "B", Body>>, <<"A", "I", "B", "J", Body>>,
               <<"A", "B", "J", "I", Body>>},
     p \in Promises,
     a \in Members({"none", "plain", "virtual"}, {"none", "virtual", "abstract"}),
     b \in Members({"none", "plain", "override"}, {"none", "virtual", "override"})}

\* A class and one that extends it, without interfaces.
Pair(order, base, a) ==
  Program(order, base, [c \in {"A", "B"} |-> <<>>], {},
          [c \in {"A", "B"} |-> IF c = "A" THEN a ELSE <<>>], [c \in {"A", "B"} |-> 1])
Extending == [c \in {"A", "B"} |-> IF c = "A" THEN None ELSE "A"]

Pairs ==
  {Pair(<<"A", "B", Body>>, Extending, <<Method(1, 1, "virtual"), Method(1, 2, "virtual")>>),
   Pair(<<"B", "A", Body>>, Extending, <<Method(1, 1, "virtual")>>),
   Pair(<<Body, "A", "B">>, Extending, <<Method(1, 1, "virtual")>>),
   Pair(<<"A", "B", Body>>, [A |-> "A", B |-> "A"], <<>>),
   Pair(<<"A", "B", Body>>, [A |-> "B", B |-> "A"], <<>>)}

\* B implements J, which has a field or extends I, and extends A, which does not.
Crossed ==
  {Program(<<"I", "J", "A", "B", Body>>,
           [c \in Named |-> CASE c = "B" -> "A" [] c = "J" -> above [] OTHER -> None],
           [c \in Named |-> IF c = "B" THEN <<"J">> ELSE <<>>],
           {"I", "J"},
           [c \in Named |-> CASE c = "A" -> <<Method(1, 1, "virtual")>>
                              [] c = "B" -> <<Method(2, 1, "plain")>>
                              [] OTHER   -> <<Method(2, 1, "abstract")>>],
           [c \in Named |-> IF c = "J" THEN data ELSE 0]) :
     above \in {None, "I"}, data \in {0, 1}}

MCPrograms == Plain \cup Pairs \cup Crossed

----------------------------------------------------------------------------
\* What links of one kind lead to from the classes of S: of four, in three steps.
Closure(Direct(_), S) ==
  LET Up(T) == T \cup UNION {Direct(c) : c \in T} IN Up(Up(Up(S)))
Bases(c)       == Closure(LAMBDA d : Range(Base(d)), {c})
Ancestors(S)   == Closure(LAMBDA d : Range(Base(d)) \cup Range(program.interfaces[d]), S)

Owned(c)       == {<<c, i>> : i \in DOMAIN program.methods[c]}
OwnedBy(S)     == UNION {Owned(c) : c \in S}
Inherited(c)   == OwnedBy(Bases(c) \ {c})
IsInterface(c) == \E d \in Classes : c \in Range(program.interfaces[d])
Promised(c)    == OwnedBy(Ancestors(Range(program.interfaces[c])))
Implemented(m, ms) == \E n \in ms : SignaturesMatch(n, m)

HasTable(c) == \E d \in Bases(c) :
                 \/ program.interfaces[d] # <<>>
                 \/ \E m \in Owned(d) : Decl(m).abstract \/ Decl(m).virtual \/ Decl(m).override

Circular ==
  \E c \in Classes : program.base[c] # c /\ c \in Range(Above(c, Everything))

Avoids(habit) ==
  CASE habit = "extendsWhatFollows" ->
         \A c \in Classes : program.base[c] # None => Before(program.base[c], c)
    [] habit = "usesWhatFollows" -> program.order[Len(program.order)] = Body
    [] habit = "interfacesFollow" ->
         \A c \in Classes : \A d \in Ancestors({c}) \ {c} : \A i \in Range(program.interfaces[d]) :
           Before(i, d) \/ Before(d, c)
    [] habit = "addsATable" ->
         LET tables == {c \in Classes : HasTable(c)}
         IN \A c \in tables : Ancestors({c}) \subseteq tables
    [] habit = "overloads" ->
         \A c, d \in Classes : \A m \in Owned(c), n \in Owned(d) :
           Name(m) = Name(n) => SignaturesMatch(m, n)
    [] habit = "leavesAbstract" ->
         \A c \in Classes \ program.abstract :
           LET concrete == {m \in OwnedBy(Bases(c)) : ~Decl(m).abstract}
           IN \A n \in OwnedBy(Ancestors({c})) : Decl(n).abstract => Implemented(n, concrete)
    [] habit = "implementsByInheritance" ->
         \A c \in Classes : \A n \in Promised(c) :
           Implemented(n, Inherited(c)) => Implemented(n, Owned(c))
    [] habit = "interfacesWithFields" -> \A c \in Classes : IsInterface(c) => program.fields[c] = 0
    [] habit = "interfacesExtended" -> \A c \in Classes : IsInterface(c) => program.base[c] = None

AllHabits == {"extendsWhatFollows", "usesWhatFollows", "interfacesFollow", "addsATable",
              "overloads", "leavesAbstract", "implementsByInheritance",
              "interfacesWithFields", "interfacesExtended"}

Sound ==
  IF \E c \in Classes : program.base[c] = c THEN TRUE
  ELSE IF Circular THEN "circular" \in Habits
  ELSE \A h \in AllHabits \ Habits : Avoids(h)

MCInit == (\E p \in MCPrograms : InitWith(p)) /\ Sound
=============================================================================
