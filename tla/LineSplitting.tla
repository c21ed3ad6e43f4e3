---------------------------- MODULE LineSplitting ----------------------------
(***************************************************************************)
(* The formatter's line splitting: the Solver's search through the states  *)
(* of a tree of pieces, the Solutions it binds states in, and the          *)
(* CodeWriter that lays a tree out and measures it.                        *)
(*                                                                         *)
(* A piece is an index of tree, text is kept as the widths of its lines,   *)
(* and what has been written as the column that was reached.               *)
(***************************************************************************)
EXTENDS Integers, FiniteSets, SequencesExt

CONSTANTS PageWidth, MaxAttempts

LineSplittingAssumption == PageWidth \in Nat /\ MaxAttempts \in Nat \ {0}

VARIABLES
  tree,      \* the pieces by index, the root first
  queue,     \* the solutions to be looked at
  best,      \* the best solution found so far
  cache,     \* SolutionCache, by piece and indentations
  attempts,
  phase      \* "start", "search" or "done"

vars == <<tree, queue, best, cache, attempts, phase>>

----------------------------------------------------------------------------
\* The states of pieces; a list element's Comma and an assignment's
\* BlockRight are both number 1.
Unsplit == 0
Comma == 1
BlockRight == 1
BlockLeft == 2
Split == 255
Unbound == -1

Kind(p) == tree[p].kind
Kids(p) == tree[p].kids

AdditionalStates(p) ==
  CASE Kind(p) = "text"   -> <<>>
    [] Kind(p) = "elem"   -> <<Comma>>
    [] Kind(p) = "assign" -> <<BlockRight, BlockLeft, Split>>
    [] Kind(p) \in {"infix", "list"} -> <<Split>>

\* The lists of the model use trailing commas: every element but the last
\* is pinned to have one, and the last has one when the list is split.
Pinned(p) == IF Kind(p) = "elem" /\ ~tree[p].last THEN Comma ELSE Unbound

StateCost(p, s) ==
  CASE s = Split     -> IF Kind(p) = "infix" THEN 1 ELSE tree[p].cost
    [] s = BlockLeft -> 1
    [] OTHER         -> 0

Constraints(p, s) ==
  IF Kind(p) = "list" THEN <<<<Last(Kids(p)), IF s = Split THEN Comma ELSE Unsplit>>>> ELSE <<>>

AnyShape == {"inline", "block", "headline", "other"}
AnyIf(b) == IF b THEN AnyShape ELSE {"inline"}
AllowedChildShapes(p, s, child) ==
  CASE Kind(p) = "infix" -> AnyIf(s = Split)
    [] Kind(p) = "list"  -> AnyIf(s = Split \/ tree[child].open)
    [] Kind(p) = "assign" /\ s = Unsplit -> {"inline"}
    [] Kind(p) = "assign" /\ s = BlockLeft ->
         IF child = Kids(p)[1] THEN {"block"} ELSE {"inline", "other"}
    [] Kind(p) = "assign" /\ s = BlockRight /\ child = Kids(p)[2] -> {"block", "headline"}
    [] OTHER -> AnyShape

Total(S(_), q) == FoldLeft(LAMBDA acc, x : acc + S(x), 0, q)

RECURSIVE Characters(_), HardNewline(_), StatefulOffspring(_)
Characters(p) ==
  CASE Kind(p) = "text" -> Total(LAMBDA n : n, tree[p].lines)
    [] Kind(p) = "list" ->
         tree[p].before + tree[p].after + Total(Characters, Kids(p)) + 2 * (Len(Kids(p)) - 1)
    [] OTHER -> Total(Characters, Kids(p))
HardNewline(p) ==
  IF Kind(p) = "text" THEN Len(tree[p].lines) > 1
  ELSE \E i \in DOMAIN Kids(p) : HardNewline(Kids(p)[i])
StatefulOffspring(p) ==
  IF Kind(p) = "text" THEN <<>>
  ELSE <<p>> \o FlattenSeq([i \in DOMAIN Kids(p) |-> StatefulOffspring(Kids(p)[i])])

ContainsNewline(p, s) == s # Unsplit \/ HardNewline(p)

\* Elements that can be block formatted end the part of a list that is measured.
ListWiderThan(p, width) ==
  LET around == tree[p].before + tree[p].after
      Measure(acc, e) ==
        IF tree[e].open THEN [acc EXCEPT !.len = around]
        ELSE LET n == acc.len + Characters(e) + (IF acc.first THEN 0 ELSE 2)
             IN  [len |-> n, first |-> FALSE, over |-> acc.over \/ HardNewline(e) \/ n > width]
  IN  FoldLeft(Measure, [len |-> around, first |-> TRUE, over |-> FALSE], Kids(p)).over
ListFills(p, width)   == ListWiderThan(p, width - 1)   \* mutant: what just fits is split
ListTooWide(p, width) == ListWiderThan(p, width)

FixedState(p, width) ==
  IF \/ Kind(p) = "infix" /\ (HardNewline(p) \/ Characters(p) > width)
     \/ Kind(p) = "list" /\ ListTooWide(p, width)
  THEN Split ELSE Unbound

----------------------------------------------------------------------------
(***************************************************************************)
(* A solution: the states bound, in order, and what formatting found out.  *)
(***************************************************************************)
NoSolution == [bound |-> <<>>, cost |-> 0, subtrees |-> 0, valid |-> TRUE, dead |-> FALSE,
               overflow |-> 0, expand |-> <<>>, column |-> 0]

TotalCost(sol) == sol.cost + sol.subtrees

BoundState(sol, p) ==
  LET i == SelectInSeq(sol.bound, LAMBDA b : b[1] = p)
  IN  CASE Pinned(p) # Unbound -> Pinned(p)
        [] i # 0            -> sol.bound[i][2]
        [] OTHER            -> Unbound

PieceState(sol, p) == IF BoundState(sol, p) = Unbound THEN Unsplit ELSE BoundState(sol, p)

DeadEnd(sol) == [sol EXCEPT !.dead = TRUE, !.valid = FALSE]

RECURSIVE Bind(_, _, _)

\* Only states that write no newline are left to p and the pieces below it.
\* In these pieces that is Unsplit, or nothing.
ConstrainOffspring(sol, p) ==
  LET Constrain(acc, o) ==
        CASE acc.dead -> acc
          [] BoundState(acc, o) # Unbound ->
               IF ContainsNewline(o, BoundState(acc, o)) THEN DeadEnd(acc) ELSE acc
          [] OTHER -> IF ContainsNewline(o, Unsplit) THEN DeadEnd(acc) ELSE Bind(acc, o, Unsplit)
  IN  FoldLeft(Constrain, sol, StatefulOffspring(p))

Bind(sol, p, s) ==
  IF sol.dead \/ BoundState(sol, p) = s THEN sol
  ELSE IF BoundState(sol, p) # Unbound THEN DeadEnd(sol)
  ELSE LET one == [sol EXCEPT !.cost = @ + StateCost(p, s), !.bound = Append(@, <<p, s>>)]
           two == FoldLeft(LAMBDA acc, c : Bind(acc, c[1], c[2]), one, Constraints(p, s))
       IN  FoldLeft(LAMBDA acc, child :
                      IF ~acc.dead /\ AllowedChildShapes(p, s, child) = {"inline"}
                      THEN ConstrainOffspring(acc, child) ELSE acc,
                    two, Kids(p))

\* Cheaper first, then less overflow, then lower states of the pieces bound first
WorseThan(a, b) ==
  LET differ == SelectInSeq(a.bound, LAMBDA e : PieceState(a, e[1]) # PieceState(b, e[1]))
  IN  \/ TotalCost(a) > TotalCost(b)
      \/ TotalCost(a) = TotalCost(b) /\ a.overflow > b.overflow
      \/ /\ TotalCost(a) = TotalCost(b) /\ a.overflow = b.overflow /\ differ # 0
         /\ a.bound[differ][2] > PieceState(b, a.bound[differ][1])

----------------------------------------------------------------------------
(***************************************************************************)
(* CodeWriter.  An indentation is kept with the number of spaces that      *)
(* names it: Assignment, Infix and Expression all are 4.                   *)
(***************************************************************************)
Writer(sol, known, lead, subsequent) ==
  [sol |-> sol, known |-> known, lead |-> lead, column |-> lead, soft |-> 0,
   pending |-> "none", pendingIndent |-> lead, frames |-> <<>>, found |-> FALSE,
   unsolved |-> <<>>, line |-> <<>>,
   indents |-> IF subsequent > lead THEN <<<<0, lead>>, <<0, subsequent>>>> ELSE <<<<0, lead>>>>]

CurrentIndent(w) == Last(w.indents)[2]
PushIndent(w, n) ==
  [w EXCEPT !.indents =
     Append(@, <<n, CurrentIndent(w) + (IF n = 4 /\ Last(w.indents)[1] = 4 THEN 0 ELSE n)>>)]
PopIndent(w) == [w EXCEPT !.indents = Front(@)]

FinishLine(w) ==
  LET over == w.column - PageWidth
      most == IF w.soft = 0 THEN over ELSE IF w.soft >= over THEN 1 ELSE over - w.soft + 1
      new  == [w EXCEPT !.sol.overflow = @ + (IF over > 0 THEN most ELSE 0)]
      bad  == w.line # <<>> /\ (over > 0 \/ ~w.sol.valid)
  IN  IF w.found THEN new
      ELSE IF bad THEN [new EXCEPT !.found = TRUE, !.sol.expand = w.line]
      ELSE [new EXCEPT !.line = <<>>]

FlushWhitespace(w) ==
  CASE w.pending = "none"  -> w
    [] w.pending = "space" -> [w EXCEPT !.pending = "none", !.column = @ + 1, !.soft = @ + 1]
    [] OTHER -> [FinishLine(w) EXCEPT !.pending = "none", !.column = w.pendingIndent, !.soft = 0]

AppendNew(s, x) == IF \E i \in DOMAIN s : s[i] = x THEN s ELSE Append(s, x)
Write(w, n, soft) ==
  IF n = 0 THEN w
  ELSE LET f == FlushWhitespace(w)
       IN  [f EXCEPT !.column = @ + n, !.soft = IF soft THEN @ + n ELSE 0,
                     !.line = IF f.found THEN @ ELSE FoldLeft(AppendNew, @, f.unsolved)]

\* What a newline, or a child of another shape, makes of the piece's shape
Reshaped(frame, shape) ==
  [frame EXCEPT !.shape =
     CASE frame.mode = "merge" -> IF @ = "inline" THEN shape ELSE "other"
       [] frame.mode = "block" -> "block"
       [] frame.mode = "afterHeadline" -> IF @ = "inline" THEN "headline" ELSE @
       [] OTHER -> "other"]
Reshape(w, shape) == [w EXCEPT !.frames[Len(w.frames)] = Reshaped(@, shape)]
ShapeMode(w, mode) == [w EXCEPT !.frames[Len(w.frames)].mode = mode]

Newline(w, indent) == [Reshape(w, "other") EXCEPT !.pendingIndent = indent, !.pending = "newline"]
Space(w) == [w EXCEPT !.pending = IF @ = "newline" THEN @ ELSE "space"]
SplitIf(w, split, space) ==
  IF split THEN Newline(w, CurrentIndent(w)) ELSE IF space THEN Space(w) ELSE w

RECURSIVE FormatInline(_, _), FormatSeparate(_, _), Search(_, _, _, _, _)

FormatPiece(w, p, separate) == IF separate THEN FormatSeparate(w, p) ELSE FormatInline(w, p)

FormatText(w, lines) ==
  IF Len(lines) = 1 THEN Write(w, lines[1], FALSE)
  ELSE FoldLeft(LAMBDA acc, n : Write(Newline(acc, 0), n, FALSE),
                ShapeMode(Write(ShapeMode(w, "beforeHeadline"), lines[1], FALSE), "afterHeadline"),
                Tail(lines))

FormatElement(w, p, s) ==
  LET content == FormatInline(w, Kids(p)[1]) IN IF s = Comma THEN Write(content, 1, TRUE) ELSE content

\* Operands between the first and the last are on lines of their own.
RECURSIVE Operands(_, _, _, _)
Operands(w, p, split, i) ==
  IF i > Len(Kids(p)) THEN w
  ELSE Operands(FormatPiece(SplitIf(w, split, TRUE), Kids(p)[i], split /\ i < Len(Kids(p))), p, split, i + 1)
FormatInfix(w, p, s) ==
  PopIndent(Operands(FormatInline(PushIndent(w, 4), Kids(p)[1]), p, s = Split, 2))

OnNewLine(w, p) == PopIndent(FormatInline(PushIndent(PopIndent(Newline(w, CurrentIndent(w))), 4), p))
FormatAssign(w, p, s) ==
  IF s # Split THEN FormatInline(Space(FormatInline(w, Kids(p)[1])), Kids(p)[2])
  ELSE OnNewLine(ShapeMode(FormatInline(ShapeMode(PushIndent(w, 4), "beforeHeadline"), Kids(p)[1]),
                           "afterHeadline"), Kids(p)[2])

OpenList(w, split) == SplitIf(ShapeMode(IF split THEN PushIndent(w, 2) ELSE w, "block"), split, FALSE)
CloseList(w, split) == ShapeMode(SplitIf(IF split THEN PopIndent(w) ELSE w, split, FALSE), "merge")
RECURSIVE Elements(_, _, _, _)
Elements(w, p, split, i) ==
  LET comma == i < Len(Kids(p))
  IN  IF i > Len(Kids(p)) THEN w
      ELSE Elements(SplitIf(FormatPiece(w, Kids(p)[i], split), split /\ comma, comma), p, split, i + 1)
FormatList(w, p, s) ==
  Write(CloseList(Elements(OpenList(Write(w, tree[p].before, FALSE), s = Split), p, s = Split, 1), s = Split),
        tree[p].after, FALSE)

\* The piece goes through its own solver, unless it did at this indentation.
Inserted(w, key, known) ==
  LET sub == known[key]
  IN  [FlushWhitespace([w EXCEPT !.pendingIndent = 0]) EXCEPT
         !.known = known, !.column = @ + sub.column,
         !.sol.overflow = @ + sub.overflow, !.sol.subtrees = @ + TotalCost(sub)]
FormatSeparate(w, p) ==
  LET key == <<p, w.pendingIndent, CurrentIndent(w)>>
  IN  Inserted(w, key, IF key \in DOMAIN w.known THEN w.known
                       ELSE Search(p, BoundState(w.sol, p), key[2], key[3], w.known))

Entered(w, p, open, fixed) ==
  [w EXCEPT !.sol = IF fixed # Unbound THEN Bind(@, p, fixed) ELSE @,
            !.unsolved = IF open /\ fixed = Unbound THEN Append(@, p) ELSE @,
            !.frames = Append(@, [piece |-> p, shape |-> "inline", mode |-> "merge"])]
Enter(w, p) ==
  LET open == BoundState(w.sol, p) = Unbound /\ AdditionalStates(p) # <<>>
  IN  Entered(w, p, open, IF open THEN FixedState(p, PageWidth - w.lead) ELSE Unbound)

Contents(w, p, s) ==
  CASE Kind(p) = "text"   -> FormatText(w, tree[p].lines)
    [] Kind(p) = "elem"   -> FormatElement(w, p, s)
    [] Kind(p) = "infix"  -> FormatInfix(w, p, s)
    [] Kind(p) = "assign" -> FormatAssign(w, p, s)
    [] Kind(p) = "list"   -> FormatList(w, p, s)

\* Back in the piece around p, which p's shape must be allowed in
Checked(w, p, q, shape) ==
  IF shape \in AllowedChildShapes(q, PieceState(w.sol, q), p) \/ Pinned(q) # Unbound
  THEN w ELSE [w EXCEPT !.sol.valid = FALSE]
Left(w, p, before) ==
  LET shape == Last(w.frames).shape
      outer == [w EXCEPT !.frames = Front(@), !.unsolved = before.unsolved]
      inner == Checked(outer, p, Last(before.frames).piece, shape)
  IN  CASE before.frames = <<>> -> outer
        [] shape = "inline"     -> inner
        [] OTHER                -> Reshape(inner, shape)

Within(w, p, before) == Left(Contents(w, p, PieceState(w.sol, p)), p, before)
FormatInline(w, p) == Within(Enter(w, p), p, w)

----------------------------------------------------------------------------
(***************************************************************************)
(* Solution::format and expand.  What is known of separately formatted     *)
(* pieces travels along; the result is the solutions and what is known.    *)
(***************************************************************************)
Outcome(w) == [sol |-> [w.sol EXCEPT !.column = w.column], known |-> w.known]
Formatted(sol, root, lead, subsequent, known) ==
  Outcome(FinishLine(FormatInline(Writer(sol, known, lead, subsequent), root)))

\* the pieces before the i-th stay unsplit: earlier ones have split them
Candidate(sol, i, s) ==
  LET fresh == [NoSolution EXCEPT !.bound = sol.bound, !.cost = sol.cost]
      kept  == FoldLeft(LAMBDA acc, p : Bind(acc, p, Unsplit), fresh, SubSeq(sol.expand, 1, i - 1))
  IN  Bind(kept, sol.expand[i], s)

Openings(sol) ==
  FlattenSeq([i \in DOMAIN sol.expand |->
    [j \in DOMAIN AdditionalStates(sol.expand[i]) |-> <<i, AdditionalStates(sol.expand[i])[j]>>]])

\* The candidates one after the other, with what is known so far
RECURSIVE Grow(_, _, _, _, _, _)
Grow(sol, openings, root, lead, subsequent, acc) ==
  LET Keep(f) == [sols |-> IF f.sol.dead THEN acc.sols ELSE Append(acc.sols, f.sol), known |-> f.known]
      Try(new) == IF new.dead THEN acc ELSE Keep(Formatted(new, root, lead, subsequent, acc.known))
  IN  IF openings = <<>> THEN acc
      ELSE Grow(sol, Tail(openings), root, lead, subsequent,
                Try(Candidate(sol, Head(openings)[1], Head(openings)[2])))
Expand(sol, root, lead, subsequent, known) ==
  Grow(sol, Openings(sol), root, lead, subsequent, [sols |-> <<>>, known |-> known])

First(root, state, lead, subsequent, known) ==
  Formatted(IF state = Unbound THEN NoSolution ELSE Bind(NoSolution, root, state), root, lead, subsequent, known)

Fits(sol) == sol.valid /\ sol.overflow = 0
LessBad(sol, than) == sol.valid /\ (~than.valid \/ sol.overflow < than.overflow)

\* A solution that becomes the best is moved from, so nothing is expanded.
Expandable(sol, than) == ~LessBad(sol, than)

\* The queue of a separate search, ties in an order of our choosing
RECURSIVE Loop(_, _, _, _, _, _, _)
Loop(q, top, n, root, lead, subsequent, known) ==
  LET Look(cur, rest) ==
        LET Go(x) == Loop(rest \o x.sols, IF LessBad(cur, top) THEN cur ELSE top, n + 1,
                          root, lead, subsequent, x.known)
        IN  IF Fits(cur) THEN [known |-> known, sol |-> cur]
            ELSE Go(IF Expandable(cur, top) THEN Expand(cur, root, lead, subsequent, known)
                    ELSE [sols |-> <<>>, known |-> known])
      TakeOut(i) == Look(q[i], RemoveAt(q, i))
  IN  IF q = <<>> \/ n = MaxAttempts THEN [known |-> known, sol |-> top]
      ELSE TakeOut(CHOOSE k \in DOMAIN q : \A l \in DOMAIN q : ~WorseThan(q[k], q[l]))

Search(root, state, lead, subsequent, known) ==
  LET Record(r) == (<<root, lead, subsequent>> :> r.sol) @@ r.known
      From(f)   == Loop(<<f.sol>>, f.sol, 0, root, lead, subsequent, f.known)
  IN  Record(From(First(root, state, lead, subsequent, known)))

----------------------------------------------------------------------------
\* Solver::format for the whole file, one iteration of its loop at a time
InitWith(t) ==
  /\ tree = t
  /\ queue = <<>> /\ best = NoSolution /\ cache = <<>>
  /\ attempts = 0 /\ phase = "start"

Begin(f) == queue' = <<f.sol>> /\ best' = f.sol /\ cache' = f.known
Start ==
  /\ phase = "start" /\ Begin(First(1, Unbound, 0, 0, <<>>)) /\ phase' = "search"
  /\ UNCHANGED <<tree, attempts>>

Continue == phase = "search" /\ queue # <<>> /\ attempts < MaxAttempts
IsNext(i) == \A j \in DOMAIN queue : ~WorseThan(queue[i], queue[j])

Attempt(i) == attempts' = attempts + 1 /\ UNCHANGED tree

Settle(i) ==
  /\ Fits(queue[i])
  /\ best' = queue[i] /\ queue' = RemoveAt(queue, i) /\ phase' = "done"
  /\ UNCHANGED cache

Remember(i) ==
  /\ ~Fits(queue[i]) /\ ~Expandable(queue[i], best)
  /\ best' = queue[i] /\ queue' = RemoveAt(queue, i)
  /\ UNCHANGED <<cache, phase>>

Refine(i) ==
  /\ ~Fits(queue[i]) /\ Expandable(queue[i], best)
  /\ LET x == Expand(queue[i], 1, 0, 0, cache)
     IN queue' = RemoveAt(queue, i) \o x.sols /\ cache' = x.known
  /\ best' = IF LessBad(queue[i], best) THEN queue[i] ELSE best
  /\ UNCHANGED phase

GiveUp ==
  /\ phase = "search" /\ (queue = <<>> \/ attempts = MaxAttempts)
  /\ phase' = "done"
  /\ UNCHANGED <<tree, queue, best, cache, attempts>>

Next == \/ Start
        \/ \E i \in DOMAIN queue :
             Continue /\ IsNext(i) /\ Attempt(i) /\ (Settle(i) \/ Remember(i) \/ Refine(i))
        \/ GiveUp

----------------------------------------------------------------------------
Stateful == {p \in DOMAIN tree : AdditionalStates(p) # <<>>}

\* Every choice of states for the pieces that agrees with what states ask of
\* others, none left out by the queue, the pruning or the pinning of the search.
\* (Pieces that are formatted apart are still solved by Search.)
Layouts ==
  LET free   == {p \in Stateful : Pinned(p) = Unbound}
      states == [p \in free |-> {Unsplit} \cup ToSet(AdditionalStates(p))]
      agree(f) == \A p \in free : \A i \in DOMAIN Constraints(p, f[p]) :
                    LET pair == Constraints(p, f[p])[i] IN pair[1] \in free => f[pair[1]] = pair[2]
      order  == SetToSeq(free)
      laid(f) == [NoSolution EXCEPT
                    !.bound = [i \in DOMAIN order |-> <<order[i], f[order[i]]>>],
                    !.cost  = Total(LAMBDA p : StateCost(p, f[p]), order)]
  IN  {Formatted(laid(f), 1, 0, 0, <<>>).sol :
         f \in {g \in [free -> {Unsplit, BlockRight, BlockLeft, Split}] :
                   agree(g) /\ \A p \in free : g[p] \in states[p]}}

(***************************************************************************)
(* As soon as a solution that fits is found it is the best: among all the  *)
(* states the pieces could have been given, none that fits costs less,     *)
(* although only pieces of the first bad line are ever tried and the       *)
(* pieces before the one that is split are held unsplit.                   *)
(***************************************************************************)
CheapestFit ==
  phase = "done" /\ Fits(best) =>
    \A sol \in Layouts : Fits(sol) => TotalCost(best) <= TotalCost(sol)

(***************************************************************************)
(* A file that can be laid out within the page width is: the solver finds  *)
(* the set of line splits that minimizes overflow characters.              *)
(***************************************************************************)
FitsIfItCan ==
  phase = "done" /\ attempts < MaxAttempts =>
    ((\E sol \in Layouts : Fits(sol)) => Fits(best))
================================================================================
