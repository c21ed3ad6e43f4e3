---------------------------- MODULE ScopeCleanups ----------------------------
(***************************************************************************)
(* How the code generator places destructor calls.  CompileFunction walks  *)
(* a function's statements with the compile-time state of CodeGenContext,  *)
(* the stack of scopes with their cleanups and the stack of loops, and     *)
(* emits the instructions that matter to objects: constructions,           *)
(* destructions, jumps.  The machine below runs what was emitted, with     *)
(* every condition open.                                                   *)
(*                                                                         *)
(* A slot is an alloca in the entry block: one for each place in the       *)
(* source that makes an object, shared by all executions of that place.    *)
(***************************************************************************)
EXTENDS Statements, SequencesExt

CONSTANT HasMoveConstructor  \* of the class of the objects

HasMoveConstructorAssumption == HasMoveConstructor \in BOOLEAN

----------------------------------------------------------------------------
Instr(op, slot, to) == [op |-> op, slot |-> slot, to |-> to]

Empty == [code |-> <<>>, scopes |-> <<>>, loops |-> <<>>,
          open |-> TRUE,   \* the insert block has no terminator
          labels |-> 0, slots |-> 0]

Emit(e, op, slot) == [e EXCEPT !.code = Append(@, Instr(op, slot, {}))]
StartBlock(e, l)  == [e EXCEPT !.code = Append(@, Instr("label", 0, {l})), !.open = TRUE]
BranchTo(e, ls)   == [e EXCEPT !.code = Append(@, Instr("branch", 0, ls)), !.open = FALSE]
BranchIfOpen(e, l) == IF e.open THEN BranchTo(e, {l}) ELSE e
Terminate(e, op)  == [Emit(e, op, 0) EXCEPT !.open = FALSE]
NewLabels(e, n)   == [e EXCEPT !.labels = @ + n]

PushScope(e) == [e EXCEPT !.scopes = Append(@, <<>>)]
PopScope(e)  == [e EXCEPT !.scopes = Front(@)]
PushLoop(e, cont, brk) ==
  [e EXCEPT !.loops = Append(@, [cont |-> cont, brk |-> brk, depth |-> Len(e.scopes)])]
PopLoop(e)   == [e EXCEPT !.loops = Front(@)]

\* continue passes over the entries of switches, which have no continue block
LoopForContinue(e) == SelectLastInSeq(e.loops, LAMBDA l : l.cont # 0)

AddCleanup(e, slot, guarded) ==
  [e EXCEPT !.scopes[Len(e.scopes)] = Append(@, [slot |-> slot, guarded |-> guarded])]
RemoveCleanup(e, slot) ==
  [e EXCEPT !.scopes = [i \in DOMAIN @ |-> SelectSeq(@[i], LAMBDA c : c.slot # slot)]]

EmitCleanupCall(e, c, guarded) ==
  Emit(e, IF guarded THEN "destroyIfArmed" ELSE "destroy", c.slot)

\* the cleanups of one scope, last registered first
CloseGuarded(e, scope) ==
  FoldLeft(LAMBDA acc, c : EmitCleanupCall(acc, c, c.guarded), e, Reverse(scope))
CloseUnguarded(e, scope) ==
  FoldLeft(LAMBDA acc, c : EmitCleanupCall(acc, c, FALSE), e, Reverse(scope))

\* at the natural end of a scope: the guards are not passed on
EmitScopeCleanups(e) == CloseUnguarded(e, Last(e.scopes))

\* mutant: only the scope that is left
InnermostCleanups(e, depth) == CloseGuarded(e, Last(e.scopes))
\* from the innermost scope out to those opened since the loop was
EmitLoopCleanups(e, depth) ==
  FoldLeft(CloseGuarded, e, Reverse(SubSeq(e.scopes, depth + 1, Len(e.scopes))))

\* at a return: the function's scopes from the outermost in
EmitReturnCleanups(e) == FoldLeft(CloseGuarded, e, e.scopes)

\* the temporaries of a branch of ?:, up to the first guarded copy
RECURSIVE EmitBranchCleanups(_, _)
EmitBranchCleanups(e, count) ==
  LET scope == Last(e.scopes)
  IN  IF Len(scope) <= count \/ Last(scope).guarded THEN e
      ELSE EmitBranchCleanups([EmitCleanupCall(e, Last(scope), FALSE)
                                 EXCEPT !.scopes[Len(e.scopes)] = Front(@)], count)

----------------------------------------------------------------------------
\* A variable's cleanup is registered before its constructor is called.
NewSlot(e) == [e EXCEPT !.slots = @ + 1]
VisitObject(e) ==
  LET f == NewSlot(e) IN Emit(AddCleanup(f, f.slots, FALSE), "make", f.slots)

VisitAnd(e) ==
  LET f == NewLabels(e, 2)  rhs == f.labels - 1  merge == f.labels
      g == VisitObject(StartBlock(BranchTo(f, {rhs, merge}), rhs))
  IN  StartBlock(BranchTo(g, {merge}), merge)

\* One branch of ?: makes a temporary, copies it into an owned slot, destroys
\* the temporary and arms the guard of the copy.
VisitPickBranch(e, label, owned, merge) ==
  LET f == VisitObject(StartBlock(e, label))
      g == EmitBranchCleanups(Emit(f, "make", owned), Len(Last(e.scopes)))
  IN  BranchTo(AddCleanup(Emit(g, "arm", owned), owned, TRUE), {merge})

VisitPick(e) ==
  LET f == NewLabels(NewSlot(NewSlot(e)), 3)
      t == f.slots - 1  u == f.slots  merge == f.labels
      g == BranchTo(Emit(Emit(f, "disarm", t), "disarm", u), {merge - 2, merge - 1})
  IN  StartBlock(VisitPickBranch(VisitPickBranch(g, merge - 2, t, merge),
                                 merge - 1, u, merge), merge)

VisitBreak(e) ==
  BranchTo(EmitLoopCleanups(e, Last(e.loops).depth), {Last(e.loops).brk})
VisitContinue(e) ==
  LET l == e.loops[LoopForContinue(e)]
  IN  BranchTo(EmitLoopCleanups(e, l.depth), {l.cont})

\* A returned temporary is moved from and keeps its cleanup; without a move
\* constructor the cleanup is dropped.
VisitReturn(e, temp) ==
  LET f == IF temp THEN VisitObject(e) ELSE e
      g == IF temp /\ ~HasMoveConstructor THEN RemoveCleanup(f, f.slots) ELSE f
  IN  Terminate(EmitReturnCleanups(g), "return")

RECURSIVE Visit(_, _), VisitAll(_, _), VisitCases(_, _, _)

VisitAll(e, ss) ==
  IF ss = <<>> \/ ~e.open THEN e ELSE VisitAll(Visit(e, Head(ss)), Tail(ss))

VisitBlock(e, ss) ==
  LET f == VisitAll(PushScope(e), ss)
  IN  PopScope(IF f.open THEN EmitScopeCleanups(f) ELSE f)

VisitIf(e, parts) ==
  LET f == NewLabels(e, 3)  then == f.labels - 2  else == f.labels - 1  end == f.labels
      g == BranchTo(f, {then, IF Len(parts) = 2 THEN else ELSE end})
      h == BranchIfOpen(VisitBlock(StartBlock(g, then), parts[1]), end)
      k == IF Len(parts) = 1 THEN h
           ELSE BranchIfOpen(VisitBlock(StartBlock(h, else), parts[2]), end)
  IN  StartBlock(k, end)

VisitWhile(e, s) ==
  LET f == NewLabels(e, 3)  cond == f.labels - 2  body == f.labels - 1  end == f.labels
      g == StartBlock(BranchTo(f, {cond}), cond)
      h == IF s.form = "whileTemp" THEN VisitObject(g) ELSE g
      k == StartBlock(BranchTo(h, IF s.form = "whileTrue" THEN {body} ELSE {body, end}), body)
      m == PopLoop(VisitBlock(PushLoop(k, cond, end), s.parts[1]))
  IN  StartBlock(BranchIfOpen(m, cond), end)

\* The loop variable has a scope of its own, around the one of the body.
VisitFor(e, s) ==
  LET f == NewLabels(VisitObject(PushScope(e)), 4)
      cond == f.labels - 3  body == f.labels - 2  inc == f.labels - 1  end == f.labels
      g == BranchTo(StartBlock(BranchTo(f, {cond}), cond), {body, end})
      h == PopLoop(VisitBlock(PushLoop(StartBlock(g, body), inc, end), s.parts[1]))
      k == StartBlock(BranchIfOpen(h, inc), inc)
      m == IF s.form = "forUse" THEN Emit(k, "useX", 0) ELSE k
  IN  PopScope(EmitScopeCleanups(StartBlock(BranchTo(m, {cond}), end)))

\* The statements of case i; the case above runs into it.
VisitCases(e, cases, i) ==
  IF i > Len(cases) THEN e
  ELSE LET label == Last(e.loops).brk - Len(cases) + i - 1
           f == StartBlock(IF i > 1 THEN BranchIfOpen(e, label) ELSE e, label)
       IN  VisitCases(VisitAll(f, cases[i]), cases, i + 1)

\* One scope for all cases, which nothing closes at the end of the switch.
VisitSwitch(e, s) ==
  LET n == Len(s.parts)
      f == NewLabels(e, n + 1)  end == f.labels
      cases == end - n .. end - 1
      g == BranchTo(f, IF s.form = "switchDefault" THEN cases ELSE cases \cup {end})
      h == VisitCases(PushLoop(PushScope(g), 0, end), s.parts, 1)
  IN  PopScope(StartBlock(PopLoop(BranchIfOpen(h, end)), end))

Visit(e, s) ==
  CASE s.form \in {"declare", "temp"} -> VisitObject(e)
    [] s.form = "pick"       -> VisitPick(e)
    [] s.form = "andTemp"    -> VisitAnd(e)
    [] s.form = "break"      -> VisitBreak(e)
    [] s.form = "continue"   -> VisitContinue(e)
    [] s.form = "return"     -> VisitReturn(e, FALSE)
    [] s.form = "returnTemp" -> VisitReturn(e, TRUE)
    [] s.form = "block"      -> VisitBlock(e, s.parts[1])
    [] s.form = "if"         -> VisitIf(e, s.parts)
    [] s.form \in {"while", "whileTrue", "whileTemp"} -> VisitWhile(e, s)
    [] s.form \in {"for", "forUse"} -> VisitFor(e, s)
    [] s.form \in Switches   -> VisitSwitch(e, s)
    [] OTHER                 -> Emit(e, s.form, 0)

\* Slot 1 is a parameter passed by value, which the callee owns.
CompileFunction(body) ==
  LET e == VisitBlock(VisitObject(PushScope(Empty)), body)
  IN  IF e.open THEN Terminate(EmitScopeCleanups(e), "fallOff").code ELSE e.code

----------------------------------------------------------------------------
VARIABLES program,  \* the statements of the function
          code,     \* what was emitted for them
          pc,       \* the instruction to execute, 0 after the return
          live,     \* slots that hold an object
          armed,    \* slots whose guard is set
          xSet      \* the variable x has a value

vars == <<program, code, pc, live, armed, xSet>>

InitWith(body) ==
  /\ program = body
  /\ code = CompileFunction(body)
  /\ pc = 1 /\ live = {} /\ armed = {} /\ xSet = FALSE

At(op) == pc > 0 /\ code[pc].op = op
Slot   == code[pc].slot
Goto(l) == CHOOSE i \in DOMAIN code : code[i].op = "label" /\ code[i].to = {l}

MakeObject ==
  /\ At("make")
  /\ live' = live \cup {Slot} /\ pc' = pc + 1
  /\ UNCHANGED <<program, code, armed, xSet>>

DestroyObject ==
  /\ At("destroy") \/ (At("destroyIfArmed") /\ Slot \in armed)
  /\ live' = live \ {Slot} /\ pc' = pc + 1
  /\ UNCHANGED <<program, code, armed, xSet>>

SkipDestroy ==
  /\ At("destroyIfArmed") /\ Slot \notin armed
  /\ pc' = pc + 1
  /\ UNCHANGED <<program, code, live, armed, xSet>>

StoreGuard ==
  /\ At("arm") \/ At("disarm")
  /\ armed' = IF At("arm") THEN armed \cup {Slot} ELSE armed \ {Slot}
  /\ pc' = pc + 1
  /\ UNCHANGED <<program, code, live, xSet>>

TakeBranch ==
  /\ At("branch")
  /\ \E l \in code[pc].to : pc' = Goto(l)
  /\ UNCHANGED <<program, code, live, armed, xSet>>

StoreX ==
  /\ At("setX") \/ At("declareX")
  /\ xSet' = At("setX") /\ pc' = pc + 1
  /\ UNCHANGED <<program, code, live, armed>>

Proceed ==
  /\ \E op \in {"label", "useX", "mark", "delete"} : At(op)
  /\ pc' = pc + 1
  /\ UNCHANGED <<program, code, live, armed, xSet>>

Leave ==
  /\ At("return") \/ At("fallOff")
  /\ pc' = 0
  /\ UNCHANGED <<program, code, live, armed, xSet>>

Next == \/ MakeObject \/ DestroyObject \/ SkipDestroy \/ StoreGuard
        \/ TakeBranch \/ StoreX \/ Proceed \/ Leave

----------------------------------------------------------------------------
TypeOK ==
  /\ pc \in 0 .. Len(code)
  /\ live \subseteq 1 .. Len(code) /\ armed \subseteq 1 .. Len(code)
  /\ xSet \in BOOLEAN

(***************************************************************************)
(* Along every path through the emitted code, through blocks, loops,       *)
(* switches, break, continue and early returns, each object is destroyed   *)
(* exactly once: no destructor runs on a slot that holds no object, no     *)
(* construction overwrites an object that is still alive, and when the     *)
(* function has returned none is left.                                     *)
(***************************************************************************)
DestroyedOnce ==
  /\ At("destroy") \/ (At("destroyIfArmed") /\ Slot \in armed) => Slot \in live
  /\ At("make") => Slot \notin live
  /\ pc = 0 => live = {}
================================================================================
