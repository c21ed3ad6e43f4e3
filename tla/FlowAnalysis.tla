----------------------------- MODULE FlowAnalysis -----------------------------
(***************************************************************************)
(* What the semantic analysis concludes about a function body without      *)
(* running it: guaranteesReturn of the type checker, the reachability and  *)
(* initialization analysis of ControlFlowPass, and the memory effects      *)
(* EffectAnalyzer hands to the optimizer.                                  *)
(***************************************************************************)
EXTENDS Statements, SequencesExt

----------------------------------------------------------------------------
\* Any statement of a sequence, any sequence of parts
SomeStmt(Op(_), ss) == \E i \in DOMAIN ss : Op(ss[i])
SomePart(Op(_), s)  == \E i \in DOMAIN s.parts : SomeStmt(Op, s.parts[i])

(***************************************************************************)
(* A break that leaves the loop whose body is examined, found at depth 0.  *)
(***************************************************************************)
RECURSIVE HasEscapingBreak(_, _)
HasEscapingBreak(s, depth) ==
  CASE s.form = "break" -> depth = 0
    [] s.form \in {"block", "if"} ->
         SomePart(LAMBDA t : HasEscapingBreak(t, depth), s)
    [] s.form \in Loops \cup Switches ->
         SomePart(LAMBDA t : HasEscapingBreak(t, depth + 1), s)
    [] OTHER -> FALSE

\* the body of a loop, as the block it is
LoopBreaks(s) == \E i \in DOMAIN s.parts[1] : HasEscapingBreak(s.parts[1][i], 0)

RECURSIVE GuaranteesReturn(_)
\* mutant: one branch that returns is enough
SomePartReturns(s) ==
  \E i \in DOMAIN s.parts : \E j \in DOMAIN s.parts[i] : GuaranteesReturn(s.parts[i][j])
EveryPartReturns(s) ==
  \A i \in DOMAIN s.parts : \E j \in DOMAIN s.parts[i] : GuaranteesReturn(s.parts[i][j])

GuaranteesReturn(s) ==
  CASE s.form \in {"return", "returnTemp"} -> TRUE
    [] s.form = "block"         -> EveryPartReturns(s)
    [] s.form = "if"            -> Len(s.parts) = 2 /\ EveryPartReturns(s)
    [] s.form = "switchDefault" -> EveryPartReturns(s)
    [] s.form = "whileTrue"     -> ~LoopBreaks(s)
    [] OTHER                    -> FALSE

----------------------------------------------------------------------------
(***************************************************************************)
(* ControlFlowPass: whether this point is reached, what is known of x and  *)
(* what has been reported.                                                 *)
(***************************************************************************)
Start == [reach |-> TRUE, x |-> "absent", warned |-> FALSE, markDead |-> FALSE]

Unreached(a) == [a EXCEPT !.reach = FALSE]
Used(a) == IF a.x = "no" THEN [a EXCEPT !.warned = TRUE, !.x = "yes"] ELSE a

\* mutant: on one of two paths is enough
Either(p, q) == IF p = "yes" THEN p ELSE q
\* x counts as initialized after two paths when it is on both
Both(p, q) == IF q = "yes" /\ p # "yes" THEN "no" ELSE q

\* the state at the start of another path, with the reports made so far
Rejoin(a, start) == [a EXCEPT !.reach = start.reach, !.x = start.x]

RECURSIVE Flow(_, _), FlowCases(_, _, _)

FlowAll(a, ss) == FoldLeft(Flow, a, ss)

FlowIf(a, parts) ==
  LET then == FlowAll(a, parts[1])
      back == Rejoin(then, a)
      else == IF Len(parts) = 2 THEN FlowAll(back, parts[2]) ELSE back
  IN  [else EXCEPT !.reach = then.reach \/ else.reach, !.x = Both(then.x, else.x)]

\* A loop may run no iteration: after it, all is as it was before its body.
FlowLoop(a, s) ==
  LET b == FlowAll(a, s.parts[1])
  IN  Rejoin(IF s.form = "forUse" THEN Used(b) ELSE b, a)

\* The ends of the cases from i on, each analysed from the switch's start.
FlowCases(a, start, cases) ==
  IF cases = <<>> THEN <<>>
  ELSE LET b == FlowAll(Rejoin(a, start), Head(cases))
       IN  <<b>> \o FlowCases(b, start, Tail(cases))

FlowSwitch(a, s) ==
  LET ends == FlowCases(a, a, s.parts)
      some == \E i \in DOMAIN ends : ends[i].reach
      x    == FoldLeft(LAMBDA acc, e : Both(e.x, acc), Head(ends).x, Tail(ends))
      b    == Last(ends)
  IN  IF s.form = "switchDefault" THEN [b EXCEPT !.reach = some, !.x = x]
      ELSE [b EXCEPT !.reach = some \/ a.reach, !.x = a.x]

Flow(a, s) ==
  CASE s.form = "declareX" -> [a EXCEPT !.x = "no"]
    [] s.form = "setX"     -> [a EXCEPT !.x = "yes"]
    [] s.form = "useX"     -> Used(a)
    [] s.form = "mark"     -> [a EXCEPT !.markDead = ~a.reach]
    [] s.form \in {"break", "continue", "return", "returnTemp"} -> Unreached(a)
    [] s.form = "block"    -> FlowAll(a, s.parts[1])
    [] s.form = "if"       -> FlowIf(a, s.parts)
    [] s.form \in Loops    -> FlowLoop(a, s)
    [] s.form \in Switches -> FlowSwitch(a, s)
    [] OTHER               -> a

----------------------------------------------------------------------------
(***************************************************************************)
(* EffectAnalyzer.  Declarations and temporaries count through their       *)
(* initializers; that an object will be destroyed is not looked at.        *)
(***************************************************************************)
RECURSIVE Frees(_), MayNotReturn(_)
Frees(s) == s.form = "delete" \/ SomePart(Frees, s)
\* mutant: only for loops count
ForRepeats(s) == s.form \in {"for", "forUse"}
MayRepeat(s) == s.form \in Loops
MayNotReturn(s) == MayRepeat(s) \/ SomePart(MayNotReturn, s)

----------------------------------------------------------------------------
\* The verdicts on the body of a function that returns a value.
Analyse(body) ==
  LET a == FlowAll(Start, body)
  IN  [returns    |-> GuaranteesReturn(Block(body)),
       warned     |-> a.warned,
       markDead   |-> a.markDead,
       noFree     |-> ~SomeStmt(Frees, body),
       willReturn |-> ~SomeStmt(MayNotReturn, body)]
================================================================================
