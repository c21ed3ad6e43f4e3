------------------------------ MODULE MCFunctions ------------------------------
(***************************************************************************)
(* Functions of up to three nested statements, and programs of classes,    *)
(* analysed, compiled and run: one of them in each behaviour.              *)
(***************************************************************************)
EXTENDS FlowAnalysis, MCVirtualDispatch

CONSTANTS
  Families,            \* which programs are run, by the names below
  HasMoveConstructor   \* of the objects in functions

VARIABLES
  body, code, pc, live, armed, xSet,
  verdict   \* of the analyses on the function

E == INSTANCE ScopeCleanups WITH program <- body

ASSUME MoveAssumption == E!HasMoveConstructorAssumption

Jumps == {Break, Continue, Return}
One(S) == {<<s>> : s \in S}
Two(S, T) == {<<s, t>> : s \in S, t \in T}

\* What two bodies from sets of bodies make, in if, else and the cases of a switch
Branches(B) == {If(b) : b \in B} \cup {IfElse(b, c) : b \in B, c \in B}
Cases(B, C) == {Switch(<<b, c>>) : b \in B, c \in C}
                 \cup {SwitchDefault(<<b, c>>) : b \in B, c \in C}
Looped(B)   == {While(b) : b \in B} \cup {For(b) : b \in B} \cup {WhileTrue(b) : b \in B}
LegalBody(ss) == \A i \in DOMAIN ss : Legal(ss[i], FALSE, FALSE)

(***************************************************************************)
(* Objects: variables and temporaries in blocks, loops and switches whose  *)
(* cases are blocks, with every mixture of jumps.  A conditional of        *)
(* objects stands only in blocks that a jump ends.                         *)
(***************************************************************************)
Inner == {<<>>, <<Declare>>} \cup One(Jumps) \cup Two({Declare}, Jumps) \cup Two({Pick}, Jumps)
Braced == {<<Block(b)>> : b \in Inner} \cup One(Jumps) \cup {<<>>}
Final  == {<<>>, <<Break>>, <<Return>>, <<Block(<<Declare>>)>>, <<Block(<<Declare, Return>>)>>}
InLoop == Branches(Inner) \cup Cases(Braced, Final)
After(S)  == One(S) \cup Two({Declare}, S)
Around(S) == After(S) \cup Two(S, {Declare})
ObjectBodies ==
  {b \in After(Looped(Around(InLoop))) \cup Around(InLoop) \cup Two(InLoop, {ReturnTemp}) :
     LegalBody(b)}

(***************************************************************************)
(* Values: paths on which x is set or not, used, and marked statements.    *)
(* No break leaves a switch, and no continue a loop whose increment uses x.*)
(***************************************************************************)
Inner2 == {<<>>, <<SetX>>, <<UseX>>, <<Return>>, <<SetX, Return>>}
InnerJ == Inner2 \cup {<<Continue>>, <<SetX, Break>>, <<Break>>}
InCase == Inner2 \cup {<<Continue>>}
ValueBodies ==
  {b \in {<<Declare0, s, UseX, Mark>> : s \in Looped(One(Branches(InnerJ)))
             \cup Looped(One(Cases(InCase, InCase)))
             \cup Looped(Two(Branches(InnerJ), {SetX, UseX}))
             \cup Branches(Inner2) \cup Cases(Inner2, Inner2)
             \cup {ForUse(<<s>>) : s \in Branches(Inner2)}} : LegalBody(b)}

----------------------------------------------------------------------------
\* Statement forms the code generator or the analyses get wrong, one each
TernaryBodies    == {<<Pick>>, <<Declare, Block(<<Pick>>)>>}
AndBodies        == {<<AndTemp>>}
ConditionBodies  == {<<WhileTemp(<<>>)>>}
CaseBodies       == {<<Switch(<<<<Declare, Break>>, <<Return>>>>)>>}
ReturnTempBodies == {<<ReturnTemp>>}
BreakingBodies   == {<<SwitchDefault(<<<<If(<<Break>>), Return>>, <<Return>>>>)>>,
                     <<Declare0, SwitchDefault(<<<<SetX, Break>>, <<SetX, Break>>>>), Mark>>,
                     <<Declare0, SwitchDefault(<<<<If(<<Break>>), SetX>>, <<SetX>>>>), UseX>>}
IncrementBodies  == {<<Declare0, ForUse(<<If(<<Continue>>), SetX>>)>>}
FreeBodies       == {<<Declare>>, <<Delete>>}

Bodies(f) ==
  CASE f = "objects"    -> ObjectBodies
    [] f = "values"     -> ValueBodies
    [] f = "ternary"    -> TernaryBodies
    [] f = "and"        -> AndBodies
    [] f = "condition"  -> ConditionBodies
    [] f = "case"       -> CaseBodies
    [] f = "returnTemp" -> ReturnTempBodies
    [] f = "breaking"   -> BreakingBodies
    [] f = "increment"  -> IncrementBodies
    [] f = "frees"      -> FreeBodies

functionVars == <<body, code, pc, live, armed, xSet, verdict>>

NoFunction == /\ body = <<>> /\ code = <<>> /\ verdict = Analyse(<<>>)
              /\ pc = 0 /\ live = {} /\ armed = {} /\ xSet = FALSE
NoClasses  == InitWith(Program(<<>>, <<>>, <<>>, {}, <<>>, <<>>))

FunctionsInit ==
  \/ /\ \E f \in Families \ {"classes"} : \E b \in Bodies(f) : E!InitWith(b) /\ verdict = Analyse(b)
     /\ NoClasses
  \/ "classes" \in Families /\ NoFunction /\ MCInit

RunFunction == E!Next /\ UNCHANGED <<verdict, vars>>
RunClasses  == Next /\ UNCHANGED functionVars
FunctionsNext == RunFunction \/ RunClasses
FunctionsSpec == FunctionsInit /\ [][FunctionsNext]_<<functionVars, vars>>
                   /\ WF_functionVars(RunFunction)

----------------------------------------------------------------------------
(***************************************************************************)
(* A function the type checker accepts never runs into its end, where the  *)
(* code generator returns an undefined value.                              *)
(***************************************************************************)
AcceptedMeansReturns == verdict.returns => ~E!At("fallOff")

(***************************************************************************)
(* The analysis of control flow is right: no path of a function that       *)
(* passes without a warning reads a variable before it is assigned, and no *)
(* statement reported as unreachable runs.                                 *)
(***************************************************************************)
ReportsAreRight ==
  /\ E!At("useX") /\ ~verdict.warned => xSet
  /\ verdict.markDead => ~E!At("mark")

(***************************************************************************)
(* A function that is emitted with the attribute willreturn returns.       *)
(***************************************************************************)
WillReturnReturns == verdict.willReturn ~> (pc = 0)

(***************************************************************************)
(* A function that is emitted with the attribute nofree frees nothing.     *)
(* Not so: destructors are not among the calls that are looked at.         *)
(***************************************************************************)
NoFreeIsHonest == verdict.noFree => ~E!At("delete") /\ ~E!At("destroy") /\ ~E!At("destroyIfArmed")

\* Stated and described in ScopeCleanups
DestroyedOnce == E!DestroyedOnce
================================================================================
