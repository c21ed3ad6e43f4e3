------------------------------ MODULE Statements ------------------------------
(***************************************************************************)
(* The statements of a function body as the parser hands them to the type  *)
(* checker and the code generator.  A statement is its form and the bodies *)
(* it contains; expressions are kept only for what they do to objects with *)
(* destructors and to one local variable x without an initializer.         *)
(***************************************************************************)
EXTENDS Sequences, Naturals

Stmt(form, parts) == [form |-> form, parts |-> parts]

Declare  == Stmt("declare", <<>>)    \* Guard g(...);
Temp     == Stmt("temp", <<>>)       \* an expression that makes a temporary
Pick     == Stmt("pick", <<>>)       \* c ? a : b, of objects, each copied
AndTemp  == Stmt("andTemp", <<>>)    \* c && f(Guard(...))
Declare0 == Stmt("declareX", <<>>)   \* int x;
SetX     == Stmt("setX", <<>>)       \* x = ...
UseX     == Stmt("useX", <<>>)       \* f(x)
Break    == Stmt("break", <<>>)
Continue == Stmt("continue", <<>>)
Mark     == Stmt("mark", <<>>)       \* any statement; a program has one at most
Delete   == Stmt("delete", <<>>)     \* delete p;
Return   == Stmt("return", <<>>)
ReturnTemp == Stmt("returnTemp", <<>>)  \* return Guard(...);

(***************************************************************************)
(* Bodies of if and of loops always are blocks, braces or not              *)
(* (parseStatementAsBlock); the statements of a case are not.              *)
(***************************************************************************)
Block(ss)        == Stmt("block", <<ss>>)
If(ss)           == Stmt("if", <<ss>>)
IfElse(ss, tt)   == Stmt("if", <<ss, tt>>)
While(ss)        == Stmt("while", <<ss>>)       \* while (c) { ss }
WhileTrue(ss)    == Stmt("whileTrue", <<ss>>)   \* while (true) { ss }
WhileTemp(ss)    == Stmt("whileTemp", <<ss>>)   \* while (f(Guard(...))) { ss }
For(ss)          == Stmt("for", <<ss>>)         \* for (Guard g; c; ) { ss }
ForUse(ss)       == Stmt("forUse", <<ss>>)      \* for (Guard g; c; f(x)) { ss }
Switch(cases)        == Stmt("switch", cases)         \* no default label
SwitchDefault(cases) == Stmt("switchDefault", cases)  \* the last is default

Loops    == {"while", "whileTrue", "whileTemp", "for", "forUse"}
Switches == {"switch", "switchDefault"}

(***************************************************************************)
(* The type checker rejects a break outside of loops and switches and a    *)
(* continue outside of loops.                                              *)
(***************************************************************************)
RECURSIVE Legal(_, _, _)
Legal(s, inLoop, inBreakable) ==
  CASE s.form = "break"    -> inBreakable
    [] s.form = "continue" -> inLoop
    [] OTHER ->
         \A i \in DOMAIN s.parts : \A j \in DOMAIN s.parts[i] :
            Legal(s.parts[i][j], inLoop \/ s.form \in Loops,
                  inBreakable \/ s.form \in Loops \cup Switches)
================================================================================
