----------------------------- MODULE Preprocessor -----------------------------
(***************************************************************************)
(* The preprocessor: Preprocessor::process copies a source line by line,   *)
(* processDirective keeps the stack of conditional blocks and the macros,  *)
(* and PPExprParser evaluates conditions.                                  *)
(*                                                                         *)
(* A condition is a sequence of tokens.  The lines of a source are read    *)
(* one at a time, each any line there could be.                            *)
(***************************************************************************)
EXTENDS Naturals, FiniteSets, SequencesExt

CONSTANTS
  Lines,       \* the lines there may be at each place of a source
  Predefined   \* macros of the platform and the command line

VARIABLES
  source,  \* the lines read
  stack,   \* condStack, the innermost block last
  macros,  \* definedMacros
  kept,    \* the lines that were copied to the output, by number
  errors,  \* what was reported
  over     \* "no", "end" or "aborted"

ppVars == <<source, stack, macros, kept, errors, over>>

----------------------------------------------------------------------------
(***************************************************************************)
(* PPExprParser.  Each level takes the tokens from one position and gives  *)
(* the value and the position after it; what follows the expression is     *)
(* not looked at.                                                          *)
(***************************************************************************)
TokenAt(s, i) == IF i <= Len(s) THEN s[i] ELSE ""
Operators == {"!", "(", ")", "==", "!=", "&&", "||"}
IsId(t) == t # "" /\ t \notin Operators

RECURSIVE ParseOr(_, _, _), ParseAnd(_, _, _), ParseEquality(_, _, _), ParsePrimary(_, _, _),
          MoreOr(_, _, _), MoreAnd(_, _, _), MoreEquality(_, _, _)

Value(v, i) == [val |-> v, next |-> i]

ParsePrimary(s, i, defined) ==
  LET t == TokenAt(s, i) IN
  CASE t = "!" -> LET e == ParsePrimary(s, i + 1, defined) IN Value(~e.val, e.next)
    [] t = "(" -> LET e == ParseOr(s, i + 1, defined)
                  IN  Value(e.val, IF TokenAt(s, e.next) = ")" THEN e.next + 1 ELSE e.next)
    [] IsId(t) -> Value(t = "true" \/ (t # "false" /\ t \in defined), i + 1)
    [] OTHER   -> Value(FALSE, i)

MoreEquality(e, s, defined) ==
  IF TokenAt(s, e.next) \notin {"==", "!="} THEN e
  ELSE LET r == ParsePrimary(s, e.next + 1, defined)
       IN  MoreEquality(Value((e.val = r.val) <=> (s[e.next] = "=="), r.next), s, defined)
ParseEquality(s, i, defined) == MoreEquality(ParsePrimary(s, i, defined), s, defined)

MoreAnd(e, s, defined) ==
  IF TokenAt(s, e.next) # "&&" THEN e
  ELSE LET r == ParseEquality(s, e.next + 1, defined)
       IN  MoreAnd(Value(e.val /\ r.val, r.next), s, defined)
ParseAnd(s, i, defined) == MoreAnd(ParseEquality(s, i, defined), s, defined)

MoreOr(e, s, defined) ==
  IF TokenAt(s, e.next) # "||" THEN e
  ELSE LET r == ParseAnd(s, e.next + 1, defined)
       IN  MoreOr(Value(e.val \/ r.val, r.next), s, defined)
ParseOr(s, i, defined) == MoreOr(ParseAnd(s, i, defined), s, defined)

EvaluateCondition(s) == ParseOr(s, 1, macros).val

----------------------------------------------------------------------------
Active   == stack = <<>> \/ Last(stack).active   \* ~skipMode()
IfState(parent, met) == [parent |-> parent, met |-> met, active |-> met]
Replaced(state) == Front(stack) \o <<state>>

Init ==
  /\ source = <<>> /\ stack = <<>> /\ macros = Predefined
  /\ kept = {} /\ errors = {} /\ over = "no"

Read(line) == over = "no" /\ Len(source) < Len(Lines) /\ source' = Append(source, line)

Text(line) ==
  /\ line.kind = "text" /\ Read(line)
  /\ kept' = IF Active THEN kept \cup {Len(source')} ELSE kept
  /\ UNCHANGED <<stack, macros, errors, over>>

If(line) ==
  /\ line.kind = "if" /\ Read(line)
  /\ stack' = Append(stack, IfState(Active, Active /\ EvaluateCondition(line.arg)))
  /\ UNCHANGED <<macros, kept, errors, over>>

\* mutant: a block that has been taken is forgotten
Reopened(state, cond) == [state EXCEPT !.met = cond, !.active = state.parent /\ cond]
\* a later branch of the block is active when no earlier one was
Branch(state, cond) ==
  LET now == state.parent /\ ~state.met /\ cond
  IN  [state EXCEPT !.met = @ \/ now, !.active = now]

Elif(line) ==
  /\ line.kind = "elif" /\ stack # <<>> /\ Read(line)
  /\ stack' = Replaced(Branch(Last(stack), EvaluateCondition(line.arg)))
  /\ UNCHANGED <<macros, kept, errors, over>>

Else(line) ==
  /\ line.kind = "else" /\ stack # <<>> /\ Read(line)
  /\ stack' = Replaced(Branch(Last(stack), TRUE))
  /\ UNCHANGED <<macros, kept, errors, over>>

Endif(line) ==
  /\ line.kind = "endif" /\ stack # <<>> /\ Read(line)
  /\ stack' = Front(stack)
  /\ UNCHANGED <<macros, kept, errors, over>>

\* a directive that has no #if is reported and otherwise ignored
Stray(line) ==
  /\ line.kind \in {"elif", "else", "endif"} /\ stack = <<>> /\ Read(line)
  /\ errors' = errors \cup {"stray"}
  /\ UNCHANGED <<stack, macros, kept, over>>

\* the whole rest of the line is the name
Define(line) ==
  /\ line.kind \in {"define", "undef"} /\ Read(line)
  /\ macros' = CASE ~Active                -> macros
                 [] line.kind = "define"   -> macros \cup {line.arg}
                 [] OTHER                  -> macros \ {line.arg}
  /\ UNCHANGED <<stack, kept, errors, over>>

Error(line) ==
  /\ line.kind = "error" /\ Read(line)
  /\ over' = IF Active THEN "aborted" ELSE over
  /\ UNCHANGED <<stack, macros, kept, errors>>

EndOfFile ==
  /\ over = "no" /\ over' = "end"
  /\ errors' = IF stack = <<>> THEN errors ELSE errors \cup {"unclosed"}
  /\ UNCHANGED <<source, stack, macros, kept>>

Step(line) == \/ Text(line) \/ If(line) \/ Elif(line) \/ Else(line) \/ Endif(line)
              \/ Stray(line) \/ Define(line) \/ Error(line)

LinesHere == IF Len(source) < Len(Lines) THEN Lines[Len(source) + 1] ELSE {}

Next == (\E line \in LinesHere : Step(line)) \/ EndOfFile

----------------------------------------------------------------------------
(***************************************************************************)
(* What a source means, from its nesting alone.  A line carries besides    *)
(* the tokens of its condition the condition itself, as a tree.            *)
(***************************************************************************)
RECURSIVE Holds(_, _)
Holds(c, defined) ==
  CASE c.op = "id"   -> c.name \in defined
    [] c.op = "lit"  -> c.name = "true"
    [] c.op = "!"    -> ~Holds(c.left, defined)
    [] c.op = "=="   -> Holds(c.left, defined) <=> Holds(c.right, defined)
    [] c.op = "!="   -> ~(Holds(c.left, defined) <=> Holds(c.right, defined))
    [] c.op = "&&"   -> Holds(c.left, defined) /\ Holds(c.right, defined)
    [] c.op = "||"   -> Holds(c.left, defined) \/ Holds(c.right, defined)

Count(kind, i) == Cardinality({j \in 1 .. i : source[j].kind = kind})
\* how many blocks are open before line i, the one it closes or divides included
Depth(i) == IF i = 1 THEN 0 ELSE Count("if", i - 1) - Count("endif", i - 1)

\* the line that opened the block around line i at the given depth
OpenedAt(i, depth) ==
  CHOOSE j \in 1 .. i - 1 : /\ source[j].kind = "if" /\ Depth(j) = depth - 1
                            /\ \A k \in j + 1 .. i - 1 : Depth(k) >= depth
\* the branches of that block up to line i, the #if first
BranchesBefore(i, depth) ==
  {j \in OpenedAt(i, depth) .. i - 1 :
     j = OpenedAt(i, depth) \/ (source[j].kind \in {"elif", "else"} /\ Depth(j) = depth)}

WellNested(n) ==
  \A i \in 1 .. n :
    source[i].kind \in {"elif", "else", "endif"} =>
      /\ Depth(i) > 0
      /\ \A j \in BranchesBefore(i, Depth(i)) : source[i].kind # "endif" => source[j].kind # "else"

\* A line counts when in each block around it its branch is the first one
\* whose condition holds, with the macros as they are at that branch.
Counts[i \in Nat] ==
  LET Defined(j) ==
        {m \in Predefined \cup {source[k].arg : k \in {k \in 1 .. j - 1 : source[k].kind = "define"}} :
           LET changes == {k \in 1 .. j - 1 : source[k].kind \in {"define", "undef"}
                                                /\ source[k].arg = m /\ Counts[k]}
           IN  IF changes = {} THEN m \in Predefined
               ELSE source[CHOOSE k \in changes : \A l \in changes : l <= k].kind = "define"}
      True(j) == source[j].kind = "else" \/ Holds(source[j].tree, Defined(j))
      Taken(depth) ==
        LET branches == BranchesBefore(i, depth)
            own == CHOOSE j \in branches : \A k \in branches : k <= j
        IN  True(own) /\ \A j \in branches \ {own} : ~True(j)
  IN  \A depth \in 1 .. Depth(i) : Taken(depth)

(***************************************************************************)
(* In a source whose blocks are properly nested exactly the lines that     *)
(* count are kept, through nested conditions, branches after a taken one,  *)
(* and macros defined or removed in blocks that are themselves skipped.    *)
(***************************************************************************)
KeptAsNested ==
  WellNested(Len(source)) =>
    /\ kept = {i \in 1 .. Len(source) : source[i].kind = "text" /\ Counts[i]}
    /\ "stray" \notin errors
    /\ over = "end" => ("unclosed" \in errors <=> Count("if", Len(source)) > Count("endif", Len(source)))
================================================================================
