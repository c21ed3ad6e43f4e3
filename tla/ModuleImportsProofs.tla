-------------------------- MODULE ModuleImportsProofs --------------------------
(***************************************************************************)
(* Proofs about ModuleImports, for any import graph.                       *)
(*                                                                         *)
(* A module stands in the cache with its imports not yet linked while its  *)
(* loader runs through what the parser noted.  Nobody else can come by it  *)
(* then, because that loader is the innermost call (Waiting): it enters no *)
(* further call, since the parser has had every module it noted loaded or  *)
(* found it being loaded (NotedAreSettled).                                *)
(***************************************************************************)
EXTENDS ModuleImports, SequenceTheorems, TLAPS

Calls == 1 .. Len(stack)
Past  == {"imports", "exports"}

\* A call is one of those under way exactly while its module is in activeImports,
\* and there is one per module.
ActiveAreCalled == active = {stack[i].mod : i \in Calls}
OnePerModule    == \A i, j \in Calls : stack[i].mod = stack[j].mod => i = j

\* A call that waits for another one has not finished parsing, and waits for it.
WaitsFor(f, g) ==
  /\ f.phase \in {"prelude", "parse"}
  /\ f.next \in DOMAIN Agenda(f)
  /\ Agenda(f)[f.next].of = g.mod
Waiting == \A i \in Calls : i + 1 \in Calls => WaitsFor(stack[i], stack[i + 1])

CachedWhenPast == \A i \in Calls : stack[i].mod \in cache <=> stack[i].phase \in Past

\* What the parser noted has been loaded, is being loaded, or does not exist; and
\* a module that names itself has been reported.
Settled(f, d) ==
  /\ d.of \in cache \cup active \cup Missing
  /\ d.of = f.mod => "circular" \in errors
AllSettled(f) ==
  /\ \A k \in DOMAIN f.rawImports : Settled(f, f.rawImports[k])
  /\ \A k \in DOMAIN f.rawExports : Settled(f, f.rawExports[k])
NotedAreSettled == \A i \in Calls : AllSettled(stack[i])

Shape == ActiveAreCalled /\ OnePerModule /\ Waiting
IInv  == TypeOK /\ Shape /\ CachedWhenPast /\ NotedAreSettled

-----------------------------------------------------------------------------
\* Frames and what loads put into them

\* Every load on a frame's agenda is that of a directive.
LEMMA AgendaType ==
  ASSUME directives \in [Modules -> Seq(Directive)], NEW f \in Frames
  PROVE  Agenda(f) \in Seq(Directive)
<1>1. [kind |-> "import", of |-> Prelude] \in Directive
  BY ModulesAssumption DEF Directive
<1>2. /\ f.mod \in Modules /\ f.phase \in Phases
      /\ f.rawImports \in Seq(Directive) /\ f.rawExports \in Seq(Directive)
  BY DEF Frames
<1>3. <<[kind |-> "import", of |-> Prelude]>> \in Seq(Directive)
  BY <1>1
<1>4. directives[f.mod] \in Seq(Directive)
  BY <1>2
<1> HIDE DEF Directive
<1> QED BY <1>2, <1>3, <1>4 DEF Agenda, Phases

LEMMA FrameType == ASSUME NEW m \in Modules PROVE Frame(m) \in Frames
<1>1. \A S : <<>> \in Seq(S)
  BY EmptySeq
<1> QED BY <1>1 DEF Frame, Frames, Phases

\* A frame that receives the result of a load keeps its module and phase, and notes at
\* most the directive it had loaded.
LEMMA ReceivedType ==
  ASSUME directives \in [Modules -> Seq(Directive)],
         NEW f \in Frames, f.next \in DOMAIN Agenda(f),
         NEW m \in Modules \cup {None}
  PROVE  LET g == Received(f, m)
             d == Agenda(f)[f.next]
         IN /\ g \in Frames /\ g.mod = f.mod /\ g.phase = f.phase
            /\ \A k \in DOMAIN g.rawImports :
                 \/ k \in DOMAIN f.rawImports /\ g.rawImports[k] = f.rawImports[k]
                 \/ f.phase = "parse" /\ g.rawImports[k] = d
            /\ \A k \in DOMAIN g.rawExports :
                 \/ k \in DOMAIN f.rawExports /\ g.rawExports[k] = f.rawExports[k]
                 \/ f.phase = "parse" /\ g.rawExports[k] = d
<1> DEFINE d == Agenda(f)[f.next]
<1>1. d \in Directive
  BY AgendaType, ElementOfSeq, LenProperties
<1>2. ASSUME NEW s \in Seq(Directive), NEW kind
      PROVE  LET q == Noted(s, f, kind)
             IN /\ q \in Seq(Directive)
                /\ \A k \in DOMAIN q : \/ k \in DOMAIN s /\ q[k] = s[k]
                                       \/ f.phase = "parse" /\ q[k] = d
  <2>1. CASE f.phase = "parse" /\ d.kind = kind
    <3>1. Noted(s, f, kind) = Append(s, d)
      BY <2>1 DEF Noted
    <3> HIDE DEF d
    <3>2. /\ Append(s, d) \in Seq(Directive)
          /\ DOMAIN Append(s, d) = 1 .. Len(s) + 1 /\ DOMAIN s = 1 .. Len(s)
          /\ Len(s) \in Nat
          /\ Append(s, d)[Len(s) + 1] = d
          /\ \A k \in 1 .. Len(s) : Append(s, d)[k] = s[k]
      BY <1>1, AppendProperties, LenProperties
    <3>3. \A k \in DOMAIN Append(s, d) : k \in DOMAIN s \/ k = Len(s) + 1
      BY <3>2
    <3> QED BY <2>1, <3>1, <3>2, <3>3
  <2>2. CASE ~(f.phase = "parse" /\ d.kind = kind)
    BY <2>2 DEF Noted
  <2> QED BY <2>1, <2>2
<1>3. ASSUME NEW s \in Seq(Modules), m # None PROVE Added(s, m) \in Seq(Modules)
  BY <1>3, AppendProperties DEF Added
<1>4. /\ f.rawImports \in Seq(Directive) /\ f.rawExports \in Seq(Directive)
      /\ f.imports \in Seq(Modules) /\ f.exports \in Seq(Modules)
      /\ f.mod \in Modules /\ f.phase \in Phases /\ f.next \in Nat \ {0}
  BY DEF Frames
<1> DEFINE imports == IF m # None /\ f.phase \in {"prelude", "imports"}
                        THEN Added(f.imports, m) ELSE f.imports
           exports == IF m # None /\ f.phase = "exports"
                        THEN Added(f.exports, m) ELSE f.exports
           rawI == Noted(f.rawImports, f, "import")
           rawE == Noted(f.rawExports, f, "export")
           g == Received(f, m)
<1>5. imports \in Seq(Modules) /\ exports \in Seq(Modules)
  BY <1>3, <1>4
<1>6. rawI \in Seq(Directive) /\ rawE \in Seq(Directive)
  BY <1>2, <1>4
<1>7. g = [f EXCEPT !.next = f.next + 1, !.rawImports = rawI, !.rawExports = rawE,
                    !.imports = imports, !.exports = exports]
  BY DEF Received
<1> HIDE DEF imports, exports, rawI, rawE, d, g
<1>8. /\ g \in Frames /\ g.mod = f.mod /\ g.phase = f.phase
      /\ g.rawImports = rawI /\ g.rawExports = rawE
  <2>1. f.next + 1 \in Nat \ {0}
    BY <1>4
  <2> QED BY <1>5, <1>6, <1>7, <2>1 DEF Frames
<1>9. /\ \A k \in DOMAIN rawI :
           \/ k \in DOMAIN f.rawImports /\ rawI[k] = f.rawImports[k]
           \/ f.phase = "parse" /\ rawI[k] = d
      /\ \A k \in DOMAIN rawE :
           \/ k \in DOMAIN f.rawExports /\ rawE[k] = f.rawExports[k]
           \/ f.phase = "parse" /\ rawE[k] = d
  <2>1. \A k \in DOMAIN rawI :
          \/ k \in DOMAIN f.rawImports /\ rawI[k] = f.rawImports[k]
          \/ f.phase = "parse" /\ rawI[k] = d
    BY <1>2, <1>4 DEF rawI
  <2>2. \A k \in DOMAIN rawE :
          \/ k \in DOMAIN f.rawExports /\ rawE[k] = f.rawExports[k]
          \/ f.phase = "parse" /\ rawE[k] = d
    BY <1>2, <1>4 DEF rawE
  <2> QED BY ONLY <2>1, <2>2
<1> QED BY ONLY <1>8, <1>9 DEF d, g
-----------------------------------------------------------------------------
\* The stack of calls

LEMMA PushedCalls ==
  ASSUME stack \in Seq(Frames), NEW g \in Frames
  PROVE  LET s == Append(stack, g)
         IN /\ s \in Seq(Frames) /\ Len(s) = Len(stack) + 1 /\ Len(stack) \in Nat
            /\ s[Len(stack) + 1] = g
            /\ \A i \in 1 .. Len(stack) : s[i] = stack[i]
BY AppendProperties, LenProperties

\* Only the innermost call changes.
LEMMA ChangedCalls ==
  ASSUME NEW s \in Seq(Frames), s # <<>>, NEW g \in Frames
  PROVE  LET q == [s EXCEPT ![Len(s)] = g]
         IN /\ q \in Seq(Frames) /\ Len(q) = Len(s) /\ Len(s) \in Nat \ {0}
            /\ q[Len(s)] = g /\ s[Len(s)] \in Frames
            /\ \A i \in 1 .. Len(s) : i # Len(s) => q[i] = s[i]
<1>1. Len(s) \in Nat \ {0} /\ DOMAIN s = 1 .. Len(s)
  BY EmptySeq, LenProperties
<1>2. s[Len(s)] \in Frames
  BY <1>1, ElementOfSeq
<1> DEFINE n == Len(s)
           q == [s EXCEPT ![n] = g]
<1>3. n \in 1 .. Len(s)
  BY <1>1
<1> HIDE DEF n
<1>4. /\ q \in Seq(Frames) /\ Len(q) = Len(s)
      /\ \A j \in 1 .. Len(s) : q[j] = IF j = n THEN g ELSE s[j]
  BY <1>3, ExceptSeq
<1> HIDE DEF q
<1>5. q[n] = g /\ \A i \in 1 .. Len(s) : i # n => q[i] = s[i]
  BY <1>3, <1>4
<1> QED BY <1>1, <1>2, <1>4, <1>5 DEF n, q

LEMMA PoppedCalls ==
  ASSUME stack \in Seq(Frames), stack # <<>>
  PROVE  LET s == SubSeq(stack, 1, Len(stack) - 1)
         IN /\ s \in Seq(Frames) /\ Len(s) = Len(stack) - 1 /\ Len(stack) \in Nat \ {0}
            /\ \A i \in 1 .. Len(stack) - 1 : s[i] = stack[i]
<1>1. Len(stack) \in Nat \ {0} /\ DOMAIN stack = 1 .. Len(stack)
  BY EmptySeq, LenProperties
<1> QED BY <1>1, SubSeqProperties

LEMMA TopType ==
  ASSUME stack \in Seq(Frames), stack # <<>>
  PROVE  /\ Len(stack) \in Nat \ {0} /\ Len(stack) \in Calls /\ Top \in Frames
         /\ Top = stack[Len(stack)]
<1>1. Len(stack) \in Nat \ {0} /\ DOMAIN stack = 1 .. Len(stack)
  BY EmptySeq, LenProperties
<1> QED BY <1>1, ElementOfSeq DEF Top, Calls

\* The next load of the innermost call is that of a directive.
LEMMA LoadingTarget ==
  ASSUME TypeOK, Loading
  PROVE  /\ Top.next \in DOMAIN Agenda(Top)
         /\ Agenda(Top)[Top.next] \in Directive /\ Agenda(Top)[Top.next].of = Target
         /\ Target \in Modules \cup Missing
<1>1. Top \in Frames /\ Agenda(Top) \in Seq(Directive)
  BY TopType, AgendaType DEF TypeOK, Loading
<1>2. Top.next \in Nat \ {0}
  BY <1>1 DEF Frames
<1>3. Top.next \in DOMAIN Agenda(Top)
  BY <1>1, <1>2, LenProperties DEF Loading
<1>4. Agenda(Top)[Top.next] \in Directive
  BY <1>1, <1>3, ElementOfSeq, LenProperties
<1> QED BY <1>3, <1>4 DEF Target, Directive

-----------------------------------------------------------------------------
\* What the inductive invariant is for

\* A module that is cached and still being loaded is the innermost call's.
LEMMA HalfLinkedIsInnermost ==
  ASSUME IInv, NEW m \in cache \cap active
  PROVE  stack # <<>> /\ m = Top.mod /\ Top.phase \in Past
<1>1. PICK i \in Calls : stack[i].mod = m
  BY DEF IInv, Shape, ActiveAreCalled
<1>2. Len(stack) \in Nat
  BY LenProperties DEF IInv, TypeOK
<1>3. stack[i].phase \in Past
  BY <1>1 DEF IInv, CachedWhenPast
<1>4. i = Len(stack)
  <2>1. i + 1 \notin Calls
    BY <1>3 DEF IInv, Shape, Waiting, WaitsFor, Past
  <2> QED BY <1>1, <1>2, <2>1 DEF Calls
<1>5. stack # <<>>
  BY <1>1, <1>2, EmptySeq DEF Calls
<1> QED BY <1>1, <1>3, <1>4, <1>5 DEF Top

\* What a call loads again after it has parsed has been settled before.
LEMMA PastIsSettled ==
  ASSUME IInv, Loading, Top.phase \in Past
  PROVE  /\ Target \in cache \cup active \cup Missing
         /\ Target = Top.mod => "circular" \in errors
<1>1. AllSettled(Top)
  BY TopType DEF IInv, TypeOK, Loading, NotedAreSettled
<1>2. Top.next \in DOMAIN Agenda(Top)
  BY LoadingTarget DEF IInv
<1>3. Agenda(Top) \in {Top.rawImports, Top.rawExports}
  BY DEF Agenda, Past
<1>4. Settled(Top, Agenda(Top)[Top.next])
  BY <1>1, <1>2, <1>3 DEF AllSettled
<1> QED BY <1>4 DEF Settled, Target

LEMMA IInvImplies == IInv => TypeOK /\ ReturnedAreLinked
<1> SUFFICES ASSUME IInv, Loading, Target \in cache, Target \in active
             PROVE  Target = Top.mod /\ "circular" \in errors
  BY DEF IInv, ReturnedAreLinked
<1>1. Target = Top.mod /\ Top.phase \in Past
  BY HalfLinkedIsInnermost
<1> QED BY <1>1, PastIsSettled

-----------------------------------------------------------------------------
\* Steps

\* What is settled stays settled while loads finish, and start.
LEMMA SettledStays ==
  ASSUME cache \cup active \subseteq cache' \cup active', errors \subseteq errors',
         NEW f, NEW d, Settled(f, d)
  PROVE  Settled(f, d)'
BY DEF Settled

LEMMA AllSettledStays ==
  ASSUME cache \cup active \subseteq cache' \cup active', errors \subseteq errors',
         NEW f, AllSettled(f)
  PROVE  AllSettled(f)'
BY DEF Settled, AllSettled

\* A frame that receives a load whose directive is settled then has all it noted settled.
LEMMA ReceivedIsSettled ==
  ASSUME directives \in [Modules -> Seq(Directive)],
         NEW f \in Frames, f.next \in DOMAIN Agenda(f), NEW m \in Modules \cup {None},
         AllSettled(f), NEW d, d = Agenda(f)[f.next], f.phase = "parse" => Settled(f, d)',
         cache \cup active \subseteq cache' \cup active', errors \subseteq errors',
         NEW g, g = Received(f, m)
  PROVE  AllSettled(g)'
<1>1. /\ g.mod = f.mod
      /\ \A k \in DOMAIN g.rawImports :
           \/ k \in DOMAIN f.rawImports /\ g.rawImports[k] = f.rawImports[k]
           \/ f.phase = "parse" /\ g.rawImports[k] = d
      /\ \A k \in DOMAIN g.rawExports :
           \/ k \in DOMAIN f.rawExports /\ g.rawExports[k] = f.rawExports[k]
           \/ f.phase = "parse" /\ g.rawExports[k] = d
  BY ReceivedType
<1>2. AllSettled(f)'
  BY AllSettledStays
<1> QED BY <1>1, <1>2 DEF AllSettled, Settled

\* The directives never change, and neither does what a frame waits for.
LEMMA WaitsForStays ==
  ASSUME directives' = directives, NEW f, NEW g
  PROVE  WaitsFor(f, g)' <=> WaitsFor(f, g)
BY DEF WaitsFor, Agenda

\* The innermost call changes and nothing else moves on the stack.
LEMMA TopChanges ==
  ASSUME IInv, stack # <<>>, NEW g \in Frames, g.mod = Top.mod,
         stack' = [stack EXCEPT ![Len(stack)] = g],
         directives' = directives, active' = active
  PROVE  /\ stack' \in Seq(Frames) /\ Shape' /\ Calls' = Calls
         /\ Len(stack) \in Calls /\ stack'[Len(stack)] = g /\ stack[Len(stack)] = Top
         /\ \A i \in Calls : i # Len(stack) => stack'[i] = stack[i]
         /\ \A i \in Calls : stack'[i].mod = stack[i].mod
<1>1. /\ stack' \in Seq(Frames) /\ Len(stack') = Len(stack) /\ Len(stack) \in Nat \ {0}
      /\ stack'[Len(stack)] = g
      /\ \A i \in 1 .. Len(stack) : i # Len(stack) => stack'[i] = stack[i]
  <2> DEFINE q == [stack EXCEPT ![Len(stack)] = g]
  <2>1. stack \in Seq(Frames)
    BY DEF IInv, TypeOK
  <2>2. /\ q \in Seq(Frames) /\ Len(q) = Len(stack) /\ Len(stack) \in Nat \ {0}
        /\ q[Len(stack)] = g
        /\ \A i \in 1 .. Len(stack) : i # Len(stack) => q[i] = stack[i]
    BY <2>1, ChangedCalls
  <2> HIDE DEF q
  <2>3. stack' = q
    BY DEF q
  <2> QED BY <2>2, <2>3
<1>2. Calls' = Calls /\ Len(stack) \in Calls /\ stack[Len(stack)] = Top
  <2>1. Calls' = Calls
    BY <1>1 DEF Calls
  <2>2. Len(stack) \in Calls
    BY TopType DEF IInv, TypeOK
  <2> QED BY <2>1, <2>2 DEF Top
<1>3. \A i \in Calls : stack'[i].mod = stack[i].mod
  BY <1>1, <1>2 DEF Calls
<1>4. ActiveAreCalled'
  BY <1>2, <1>3 DEF IInv, Shape, ActiveAreCalled
<1>5. OnePerModule'
  BY <1>2, <1>3 DEF IInv, Shape, OnePerModule
<1>6. Waiting'
  <2> SUFFICES ASSUME NEW i \in Calls, i + 1 \in Calls
               PROVE  WaitsFor(stack[i], stack[i + 1])'
    BY <1>2 DEF Waiting
  <2>1. WaitsFor(stack[i], stack[i + 1])
    BY DEF IInv, Shape, Waiting
  <2>2. stack'[i] = stack[i]
    <3> DEFINE n == Len(stack)
    <3>1. i # n
      <4>1. n \in Nat
        BY <1>1
      <4>2. i \in 1 .. n /\ i + 1 \in 1 .. n
        BY DEF Calls
      <4> HIDE DEF n
      <4> QED BY <4>1, <4>2
    <3> QED BY <1>1, <3>1 DEF Calls
  <2>3. stack'[i + 1].mod = stack[i + 1].mod
    BY <1>3
  <2> QED BY <2>1, <2>2, <2>3 DEF WaitsFor, Agenda
<1> QED BY <1>1, <1>2, <1>3, <1>4, <1>5, <1>6 DEF Calls, Shape

\* A load that enters no call hands its result to the innermost call.
LEMMA DeliverIInv ==
  ASSUME IInv, Loading, NEW m \in Modules \cup {None}, stack' = Deliver(stack, m),
         UNCHANGED <<directives, cache, active, imported, exported>>,
         errors \subseteq errors', errors' \subseteq {"circular", "not found"},
         Target \in cache \cup active \cup Missing,
         Top.phase = "parse" /\ Target = Top.mod => "circular" \in errors'
  PROVE  IInv'
<1> DEFINE g == Received(Top, m)
           d == Agenda(Top)[Top.next]
           n == Len(stack)
<1>1. Top \in Frames /\ Top.next \in DOMAIN Agenda(Top) /\ d.of = Target
      /\ stack # <<>> /\ n \in Calls /\ directives \in [Modules -> Seq(Directive)]
  BY LoadingTarget, TopType DEF IInv, TypeOK, Loading
<1>2. g \in Frames /\ g.mod = Top.mod /\ g.phase = Top.phase
  BY <1>1, ReceivedType
<1>3. stack' = [stack EXCEPT ![n] = g]
  BY <1>1 DEF Deliver, Top
<1> HIDE DEF g, d
<1>4. /\ stack' \in Seq(Frames) /\ Shape' /\ Calls' = Calls
      /\ stack'[n] = g /\ stack[n] = Top
      /\ \A i \in Calls : i # n => stack'[i] = stack[i]
  BY <1>1, <1>2, <1>3, TopChanges
<1>5. TypeOK'
  BY <1>4 DEF IInv, TypeOK
<1>6. CachedWhenPast'
  <2>1. ASSUME NEW i \in Calls PROVE stack'[i].mod \in cache <=> stack'[i].phase \in Past
    <3>1. stack'[i].mod = stack[i].mod /\ stack'[i].phase = stack[i].phase
      BY <1>2, <1>4
    <3> QED BY <3>1 DEF IInv, CachedWhenPast
  <2> QED BY <1>4, <2>1 DEF CachedWhenPast, Past
<1>7. NotedAreSettled'
  <2>1. AllSettled(Top)
    BY <1>1, <1>4 DEF IInv, NotedAreSettled
  <2>2. \A f, x : x = d /\ f.mod = Top.mod /\ Top.phase = "parse" => Settled(f, x)'
    BY <1>1 DEF Settled
  <2>3. \A f, h : f = Top /\ h = g => AllSettled(h)'
    <3> SUFFICES ASSUME NEW f, NEW h, f = Top, h = g PROVE AllSettled(h)'
      OBVIOUS
    <3>1. f \in Frames /\ f.next \in DOMAIN Agenda(f) /\ AllSettled(f) /\ h = Received(f, m)
      BY <1>1, <2>1 DEF g
    <3> DEFINE e == Agenda(f)[f.next]
    <3>2. f.phase = "parse" => \A x : x = e => Settled(f, x)'
      BY <1>1, <2>2 DEF Settled, d
    <3> QED BY <1>1, <3>1, <3>2, ReceivedIsSettled
  <2>4. ASSUME NEW i \in Calls PROVE \A h : h = stack'[i] => AllSettled(h)'
    <3>1. CASE i = n
      BY <1>4, <2>3, <3>1
    <3>2. CASE i # n
      <4>1. AllSettled(stack[i]) /\ stack'[i] = stack[i]
        BY <1>4, <3>2 DEF IInv, NotedAreSettled
      <4> QED BY <4>1, AllSettledStays
    <3> QED BY <3>1, <3>2
  <2> QED BY <1>4, <2>4 DEF NotedAreSettled
<1> QED BY <1>4, <1>5, <1>6, <1>7 DEF IInv

\* The innermost call goes on to its next phase.
LEMMA TurnIInv ==
  ASSUME IInv, stack # <<>>, NEW phase \in Phases, stack' = Turn(phase),
         UNCHANGED <<directives, active, errors, exported>>,
         imported' \in [Modules -> Seq(Modules)],
         cache \subseteq cache', cache' \subseteq cache \cup {Top.mod},
         Top.mod \in cache' <=> phase \in Past
  PROVE  IInv'
<1> DEFINE g == [Top EXCEPT !.phase = phase, !.next = 1]
           n == Len(stack)
<1>1. Top \in Frames /\ n \in Calls /\ stack[n] = Top
  BY TopType DEF IInv, TypeOK
<1>2. /\ g \in Frames /\ g.mod = Top.mod /\ g.phase = phase
      /\ g.rawImports = Top.rawImports /\ g.rawExports = Top.rawExports
  <2>1. ASSUME NEW f \in Frames
        PROVE  LET h == [f EXCEPT !.phase = phase, !.next = 1]
               IN /\ h \in Frames /\ h.mod = f.mod /\ h.phase = phase
                  /\ h.rawImports = f.rawImports /\ h.rawExports = f.rawExports
    <3>1. 1 \in Nat \ {0}
      OBVIOUS
    <3> QED BY <3>1 DEF Frames
  <2> QED BY <1>1, <2>1
<1>3. stack' = [stack EXCEPT ![n] = g]
  BY DEF Turn, Top
<1> HIDE DEF g
<1>4. /\ stack' \in Seq(Frames) /\ Shape' /\ Calls' = Calls
      /\ stack'[n] = g
      /\ \A i \in Calls : i # n => stack'[i] = stack[i]
  BY <1>2, <1>3, TopChanges
<1>5. TypeOK'
  <2>1. cache' \subseteq Modules
    BY <1>1 DEF IInv, TypeOK, Frames
  <2> QED BY <1>4, <2>1 DEF IInv, TypeOK
<1>6. CachedWhenPast'
  <2>1. ASSUME NEW i \in Calls PROVE stack'[i].mod \in cache' <=> stack'[i].phase \in Past
    <3>1. CASE i = n
      BY <1>2, <1>4, <3>1
    <3>2. CASE i # n
      <4>1. stack[i].mod # Top.mod
        BY <1>1, <3>2 DEF IInv, Shape, OnePerModule
      <4> QED BY <1>4, <3>2, <4>1 DEF IInv, CachedWhenPast
    <3> QED BY <3>1, <3>2
  <2> QED BY <1>4, <2>1 DEF CachedWhenPast, Past
<1>7. NotedAreSettled'
  <2>1. ASSUME NEW f, AllSettled(f) PROVE AllSettled(f)'
    BY <2>1, AllSettledStays
  <2>2. AllSettled(Top)
    BY <1>1 DEF IInv, NotedAreSettled
  <2>3. \A h : h = g => AllSettled(h)'
    <3>1. ASSUME NEW f, NEW h, h.mod = f.mod, h.rawImports = f.rawImports,
                 h.rawExports = f.rawExports, AllSettled(f)'
          PROVE  AllSettled(h)'
      BY <3>1 DEF AllSettled, Settled
    <3> QED BY <1>2, <2>1, <2>2, <3>1
  <2>4. ASSUME NEW i \in Calls PROVE \A h : h = stack'[i] => AllSettled(h)'
    <3>1. CASE i = n
      BY <1>4, <2>3, <3>1
    <3>2. CASE i # n
      <4>1. AllSettled(stack[i]) /\ stack'[i] = stack[i]
        BY <1>4, <3>2 DEF IInv, NotedAreSettled
      <4> QED BY <2>1, <4>1
    <3> QED BY <3>1, <3>2
  <2> QED BY <1>4, <2>4 DEF NotedAreSettled
<1> QED BY <1>4, <1>5, <1>6, <1>7 DEF IInv

\* A load that enters a module whose call has not begun.
LEMMA EnterIInv ==
  ASSUME IInv, NEW m \in Modules, m \notin cache \cup active, Enter(m),
         \/ stack = <<>>
         \/ Loading /\ Target = m /\ Top.phase \in {"prelude", "parse"}
  PROVE  IInv'
<1> DEFINE g == Frame(m)
           n == Len(stack)
<1>1. /\ stack' \in Seq(Frames) /\ Len(stack') = n + 1 /\ n \in Nat
      /\ stack'[n + 1] = g /\ g \in Frames
      /\ \A i \in 1 .. n : stack'[i] = stack[i]
  <2>1. g \in Frames
    BY FrameType
  <2> DEFINE q == Append(stack, g)
  <2>2. /\ q \in Seq(Frames) /\ Len(q) = n + 1 /\ n \in Nat
        /\ q[n + 1] = g /\ \A i \in 1 .. n : q[i] = stack[i]
    BY <2>1, PushedCalls DEF IInv, TypeOK
  <2>3. stack' = q
    BY DEF Enter
  <2> HIDE DEF q, g
  <2> QED BY <2>1, <2>2, <2>3
<1>2. /\ g.mod = m /\ g.phase \notin Past /\ g.rawImports = <<>> /\ g.rawExports = <<>>
  BY DEF Frame, Past
<1>3. /\ active' = active \cup {m}
      /\ UNCHANGED <<directives, cache, errors, imported, exported>>
  BY DEF Enter
<1> HIDE DEF g, n
<1>4. Calls = 1 .. n /\ Calls' = 1 .. n + 1
  BY <1>1 DEF Calls, n
<1>5. \A i \in Calls' : i \in Calls \/ i = n + 1
  BY <1>1, <1>4
<1>6. n + 1 \in Calls' /\ Calls \subseteq Calls' /\ n + 1 \notin Calls
  BY <1>1, <1>4
<1>7. TypeOK'
  BY <1>1, <1>3 DEF IInv, TypeOK
<1>8. \A i \in Calls : stack[i].mod # m
  BY DEF IInv, Shape, ActiveAreCalled
<1>9. ActiveAreCalled'
  <2>1. \A i \in Calls : stack'[i].mod = stack[i].mod
    BY <1>1, <1>4
  <2>2. active = {stack[i].mod : i \in Calls}
    BY DEF IInv, Shape, ActiveAreCalled
  <2> DEFINE C == Calls'
  <2>3. active' = {stack'[i].mod : i \in C}
    BY <1>1, <1>2, <1>3, <1>5, <1>6, <2>1, <2>2
  <2> QED BY <2>3 DEF ActiveAreCalled
<1>10. OnePerModule'
  <2>1. ASSUME NEW i \in Calls', NEW j \in Calls', stack'[i].mod = stack'[j].mod PROVE i = j
    <3>1. CASE i \in Calls /\ j \in Calls
      BY <1>1, <1>4, <2>1, <3>1 DEF IInv, Shape, OnePerModule
    <3>2. CASE i = n + 1 /\ j \in Calls
      BY <1>1, <1>2, <1>4, <1>8, <2>1, <3>2
    <3>3. CASE i \in Calls /\ j = n + 1
      BY <1>1, <1>2, <1>4, <1>8, <2>1, <3>3
    <3> QED BY <1>5, <3>1, <3>2, <3>3
  <2> QED BY <2>1 DEF OnePerModule
<1>11. Waiting'
  <2>1. ASSUME NEW i \in Calls', i + 1 \in Calls' PROVE WaitsFor(stack'[i], stack'[i + 1])
    <3>0. i \in Calls /\ stack'[i] = stack[i]
      BY <1>1, <1>4, <2>1
    <3>1. CASE i + 1 \in Calls
      BY <1>1, <1>4, <3>0, <3>1 DEF IInv, Shape, Waiting
    <3>2. CASE i + 1 = n + 1
      <4>1. i = n /\ stack # <<>> /\ stack[i] = Top
        BY <1>1, <1>4, <3>0, <3>2, EmptySeq DEF n, Top
      <4>2. Loading /\ Target = m /\ Top.phase \in {"prelude", "parse"}
        BY <4>1
      <4> QED BY <1>1, <1>2, <3>0, <4>1, <4>2, LoadingTarget DEF WaitsFor, IInv
    <3> QED BY <1>5, <2>1, <3>1, <3>2
  <2>2. \A f, h : WaitsFor(f, h) => WaitsFor(f, h)'
    BY <1>3, WaitsForStays
  <2> QED BY <2>1, <2>2 DEF Waiting
<1>12. CachedWhenPast'
  <2>1. ASSUME NEW i \in Calls' PROVE stack'[i].mod \in cache <=> stack'[i].phase \in Past
    <3>1. CASE i \in Calls
      BY <1>1, <1>4, <3>1 DEF IInv, CachedWhenPast
    <3>2. CASE i = n + 1
      BY <1>1, <1>2, <3>2
    <3> QED BY <1>5, <3>1, <3>2
  <2> QED BY <1>3, <2>1 DEF CachedWhenPast, Past
<1>13. NotedAreSettled'
  <2>1. ASSUME NEW f, AllSettled(f) PROVE AllSettled(f)'
    BY <1>3, <2>1, AllSettledStays
  <2>2. ASSUME NEW i \in Calls' PROVE \A h : h = stack'[i] => AllSettled(h)'
    <3>1. CASE i \in Calls
      <4>1. AllSettled(stack[i]) /\ stack'[i] = stack[i]
        BY <1>1, <1>4, <3>1 DEF IInv, NotedAreSettled
      <4> QED BY <2>1, <4>1
    <3>2. CASE i = n + 1
      BY <1>1, <1>2, <3>2 DEF AllSettled
    <3> QED BY <1>5, <2>2, <3>1, <3>2
  <2> QED BY <2>2 DEF NotedAreSettled
<1> QED BY <1>7, <1>9, <1>10, <1>11, <1>12, <1>13 DEF IInv, Shape

\* The innermost call ends; the one below it, if any, gets the module.
LEMMA ReturnCalls ==
  ASSUME IInv, Return
  PROVE  LET n == Len(stack)
             k == n - 1
             m == Top.mod
         IN /\ Top \in Frames /\ stack[n] = Top /\ n \in Calls
            /\ m \in Modules /\ m \in cache /\ m \in active
            /\ k \in Nat /\ n = k + 1 /\ Calls = 1 .. n /\ Calls' = 1 .. k
            /\ stack' \in Seq(Frames)
            /\ \A i \in 1 .. k :
                 /\ i \in Calls /\ i # n /\ stack[i] \in Frames /\ stack[i].mod # m
                 /\ i # k => stack'[i] = stack[i]
                 /\ i = k => stack'[i] = Received(stack[i], m) /\ WaitsFor(stack[i], Top)
                 /\ stack'[i].mod = stack[i].mod /\ stack'[i].phase = stack[i].phase
<1> DEFINE n == Len(stack)
           s == SubSeq(stack, 1, n - 1)
           m == Top.mod
           t == stack'
<1>1. /\ stack # <<>> /\ Top.phase = "exports" /\ active' = active \ {m}
      /\ t = Deliver(s, m) /\ UNCHANGED <<directives, cache, errors, imported>>
      /\ exported' = [exported EXCEPT ![m] = Top.exports]
  BY DEF Return, PhaseOver
<1>2. Top \in Frames /\ n \in Calls /\ stack[n] = Top /\ n \in Nat \ {0}
  BY <1>1, TopType DEF IInv, TypeOK
<1>3. /\ s \in Seq(Frames) /\ Len(s) = n - 1
      /\ \A i \in 1 .. n - 1 : s[i] = stack[i]
  BY <1>1, PoppedCalls DEF IInv, TypeOK
<1>4. m \in Modules /\ m \in cache /\ Top.exports \in Seq(Modules)
  BY <1>1, <1>2 DEF IInv, CachedWhenPast, Past, Frames
<1> DEFINE k == n - 1
           f == stack[k]
           g == Received(f, m)
\* The call below waits for this one, and still knows nothing it should not.
<1>5. ASSUME s # <<>>
      PROVE  /\ k \in 1 .. k /\ f \in Frames /\ WaitsFor(f, Top) /\ AllSettled(f) /\ f.mod # m
             /\ g \in Frames /\ g.mod = f.mod /\ g.phase = f.phase
             /\ t = [s EXCEPT ![k] = g]
  <2>1. k \in 1 .. k /\ k \in Calls /\ k + 1 = n
    BY <1>2, <1>3, <1>5, EmptySeq DEF Calls
  <2>2. f \in Frames
    BY <2>1, ElementOfSeq DEF Calls, IInv, TypeOK
  <2>3. WaitsFor(f, Top)
    BY <1>2, <2>1 DEF IInv, Shape, Waiting
  <2>4. f.mod # m
    BY <1>2, <2>1 DEF IInv, Shape, OnePerModule
  <2>5. AllSettled(f)
    BY <2>1 DEF IInv, NotedAreSettled
  <2>6. g \in Frames /\ g.mod = f.mod /\ g.phase = f.phase
    BY <1>4, <2>2, <2>3, ReceivedType DEF WaitsFor, IInv, TypeOK
  <2>7. s[k] = f /\ t = [s EXCEPT ![k] = Received(s[k], m)]
    BY <1>1, <1>3, <1>5, <2>1 DEF Deliver
  <2> QED BY <2>1, <2>2, <2>3, <2>4, <2>5, <2>6, <2>7
<1>6. /\ t \in Seq(Frames) /\ Len(t) = k
      /\ \A i \in 1 .. k : /\ i # k => t[i] = stack[i]
                           /\ i = k => t[i] = g
                           /\ t[i].mod = stack[i].mod /\ t[i].phase = stack[i].phase
  <2>1. CASE s = <<>>
    <3>1. t = <<>> /\ k = 0
      BY <1>1, <1>3, <2>1, EmptySeq DEF Deliver
    <3> QED BY <3>1, EmptySeq
  <2>2. CASE s # <<>>
    <3> DEFINE q == [s EXCEPT ![Len(s)] = g]
    <3>1. /\ q \in Seq(Frames) /\ Len(q) = Len(s) /\ q[Len(s)] = g
          /\ \A i \in 1 .. Len(s) : i # Len(s) => q[i] = s[i]
      BY <1>3, <1>5, <2>2, ChangedCalls
    <3>2. t = q
      BY <1>3, <1>5, <2>2
    <3> HIDE DEF q, g, f, s, t
    <3>3. t \in Seq(Frames) /\ Len(t) = k
      BY <1>3, <3>1, <3>2
    <3>4. ASSUME NEW i \in 1 .. k, i # k PROVE t[i] = stack[i]
      BY <1>3, <3>1, <3>2, <3>4
    <3>5. t[k] = g
      BY <1>3, <3>1, <3>2
    <3> QED BY <1>5, <2>2, <3>3, <3>4, <3>5 DEF f
  <2> QED BY <2>1, <2>2
<1>7. Calls' = 1 .. k /\ k \in Nat /\ Calls = 1 .. n /\ n = k + 1
  BY <1>2, <1>6 DEF Calls
<1>8. \A i \in 1 .. k : i \in Calls /\ i # n /\ stack[i].mod # m
  <2>1. \A i \in 1 .. k : i \in Calls /\ i # n
    <3> HIDE DEF k, n
    <3> QED BY <1>7
  <2> QED BY <1>2, <2>1 DEF IInv, Shape, OnePerModule
<1>9. \A i \in 1 .. k : stack[i] \in Frames
  BY <1>8, ElementOfSeq DEF Calls, IInv, TypeOK
<1>10. m \in active
  BY <1>2 DEF IInv, Shape, ActiveAreCalled
<1>11. \A i \in 1 .. k : i = k => t[i] = Received(stack[i], m) /\ WaitsFor(stack[i], Top)
  <2> SUFFICES ASSUME k \in 1 .. k PROVE t[k] = g /\ WaitsFor(f, Top)
    OBVIOUS
  <2>1. s # <<>>
    <3>1. Len(s) = k /\ k # 0
      BY <1>3, <1>7
    <3> QED BY <3>1, EmptySeq
  <2> QED BY <1>5, <1>6, <2>1
<1> HIDE DEF k, s, f, g, n, t, m
<1>12. \A i \in 1 .. k :
        /\ i \in Calls /\ i # n /\ stack[i] \in Frames /\ stack[i].mod # m
        /\ i # k => t[i] = stack[i]
        /\ i = k => t[i] = Received(stack[i], m) /\ WaitsFor(stack[i], Top)
        /\ t[i].mod = stack[i].mod /\ t[i].phase = stack[i].phase
  BY <1>6, <1>8, <1>9, <1>11
<1>13. /\ Top \in Frames /\ stack[n] = Top /\ n \in Calls
       /\ m \in Modules /\ m \in cache /\ m \in active
       /\ k \in Nat /\ n = k + 1 /\ Calls = 1 .. n /\ Calls' = 1 .. k
       /\ t \in Seq(Frames)
  BY <1>2, <1>4, <1>6, <1>7, <1>10
<1> QED BY <1>12, <1>13 DEF k, n, m, t

LEMMA ReturnIInv == ASSUME IInv, Return PROVE IInv'
<1> DEFINE n == Len(stack)
           k == n - 1
           m == Top.mod
           t == stack'
<1>1. /\ active' = active \ {m} /\ UNCHANGED <<directives, cache, errors, imported>>
      /\ exported' = [exported EXCEPT ![m] = Top.exports]
  BY DEF Return
<1>2. /\ Top \in Frames /\ stack[n] = Top /\ n \in Calls
      /\ m \in Modules /\ m \in cache
      /\ k \in Nat /\ n = k + 1 /\ Calls = 1 .. n /\ Calls' = 1 .. k
      /\ t \in Seq(Frames)
  BY ReturnCalls
<1>3. \A i \in 1 .. k :
        /\ i \in Calls /\ i # n /\ stack[i] \in Frames /\ stack[i].mod # m
        /\ i # k => t[i] = stack[i]
        /\ i = k => t[i] = Received(stack[i], m) /\ WaitsFor(stack[i], Top)
        /\ t[i].mod = stack[i].mod /\ t[i].phase = stack[i].phase
  BY ReturnCalls
<1>4. Top.exports \in Seq(Modules)
  BY <1>2 DEF Frames
<1> HIDE DEF k, n, t, m
<1>5. \A i \in Calls : i \in 1 .. k \/ i = n
  BY <1>2
<1>6. TypeOK'
  BY <1>1, <1>2, <1>4 DEF IInv, TypeOK, t
<1>7. ActiveAreCalled'
  <2>1. active = {stack[i].mod : i \in Calls}
    BY DEF IInv, Shape, ActiveAreCalled
  <2>2. active \ {m} = {t[i].mod : i \in 1 .. k}
    <3>1. ASSUME NEW x \in active, x # m PROVE x \in {t[i].mod : i \in 1 .. k}
      <4>1. PICK i \in Calls : stack[i].mod = x
        BY <2>1
      <4>2. i \in 1 .. k
        BY <1>2, <1>5, <3>1, <4>1 DEF m
      <4> QED BY <1>3, <4>1, <4>2
    <3>2. ASSUME NEW i \in 1 .. k PROVE t[i].mod \in active \ {m}
      BY <1>3, <2>1
    <3> QED BY <3>1, <3>2
  <2> QED BY <1>1, <1>2, <2>2 DEF ActiveAreCalled, t
<1>8. OnePerModule'
  BY <1>2, <1>3 DEF IInv, Shape, OnePerModule, t
<1>9. Waiting'
  <2>1. ASSUME NEW i \in 1 .. k, i + 1 \in 1 .. k PROVE WaitsFor(t[i], t[i + 1])
    <3>1. i # k
      BY <1>2, <2>1
    <3>2. WaitsFor(stack[i], stack[i + 1])
      BY <1>3, <2>1 DEF IInv, Shape, Waiting
    <3>3. t[i] = stack[i] /\ t[i + 1].mod = stack[i + 1].mod
      BY <1>3, <2>1, <3>1
    <3> QED BY <3>2, <3>3 DEF WaitsFor
  <2>2. \A x, y : WaitsFor(x, y) => WaitsFor(x, y)'
    BY <1>1, WaitsForStays
  <2> QED BY <1>2, <2>1, <2>2 DEF Waiting, t
<1>10. CachedWhenPast'
  <2>1. \A i \in 1 .. k : t[i].mod \in cache <=> t[i].phase \in Past
    BY <1>3 DEF IInv, CachedWhenPast
  <2> QED BY <1>1, <1>2, <2>1 DEF CachedWhenPast, Past, t
<1>11. NotedAreSettled'
  <2>1. cache \cup active \subseteq cache' \cup active' /\ errors \subseteq errors'
    BY <1>1, <1>2
  <2>2. ASSUME NEW i \in 1 .. k PROVE \A h : h = t[i] => AllSettled(h)'
    <3>0. AllSettled(stack[i])
      BY <1>3 DEF IInv, NotedAreSettled
    <3>1. CASE i # k
      <4>1. t[i] = stack[i]
        BY <1>3, <3>1
      <4> QED BY <2>1, <3>0, <4>1, AllSettledStays
    <3>2. CASE i = k
      <4>1. /\ stack[i] \in Frames /\ WaitsFor(stack[i], Top) /\ stack[i].mod # m
            /\ t[i] = Received(stack[i], m)
        BY <1>3, <3>2
      <4> SUFFICES ASSUME NEW h, NEW x, NEW y, NEW d, h = Received(x, y),
                          x = stack[i], y = m, d = Agenda(x)[x.next]
                   PROVE  AllSettled(h)'
        BY <4>1
      <4>2. Settled(x, d)'
        BY <1>1, <1>2, <4>1 DEF Settled, WaitsFor, m
      <4>3. x \in Frames /\ x.next \in DOMAIN Agenda(x) /\ y \in Modules /\ AllSettled(x)
        BY <1>2, <3>0, <4>1 DEF WaitsFor
      <4> QED BY <2>1, <4>2, <4>3, ReceivedIsSettled DEF IInv, TypeOK
    <3> QED BY <3>1, <3>2
  <2> QED BY <1>2, <2>2 DEF NotedAreSettled, t
<1> QED BY <1>6, <1>7, <1>8, <1>9, <1>10, <1>11 DEF IInv, Shape

-----------------------------------------------------------------------------
LEMMA InitIInv == Init => IInv
<1> SUFFICES ASSUME Init PROVE IInv
  OBVIOUS
<1>1. Calls = {} /\ \A S : <<>> \in Seq(S)
  BY EmptySeq DEF Init, Calls
<1>2. TypeOK
  BY <1>1 DEF Init, TypeOK
<1>3. Shape /\ CachedWhenPast /\ NotedAreSettled
  BY <1>1 DEF Init, Shape, ActiveAreCalled, OnePerModule, Waiting, CachedWhenPast, NotedAreSettled
<1> QED BY <1>2, <1>3 DEF IInv

LEMMA NextIInv == ASSUME IInv, [Next]_vars PROVE IInv'
<1>1. ASSUME NEW m \in Modules, LoadRoot(m) PROVE IInv'
  BY <1>1, EnterIInv DEF LoadRoot
<1>2. CASE LoadCached
  <2>1. Top.phase = "parse" => Target # Top.mod
    <3>1. Loading /\ stack # <<>> /\ Target \in cache
      BY <1>2 DEF LoadCached, Loading
    <3>2. Len(stack) \in Calls /\ Top = stack[Len(stack)]
      BY <3>1, TopType DEF IInv, TypeOK
    <3> QED BY <3>1, <3>2 DEF IInv, CachedWhenPast, Past
  <2>2. Target \in Modules
    BY <1>2 DEF LoadCached, IInv, TypeOK
  <2> QED BY <1>2, <2>1, <2>2, DeliverIInv DEF LoadCached, IInv, TypeOK
<1>3. CASE LoadActive
  BY <1>3, DeliverIInv DEF LoadActive, Circular, Fails, IInv, TypeOK
<1>4. CASE LoadMissing
  <2>1. Target # Top.mod
    <3>1. Top \in Frames
      BY <1>4, TopType DEF LoadMissing, Loading, IInv, TypeOK
    <3> QED BY <1>4, <3>1, ModulesAssumption DEF LoadMissing, Frames
  <2> QED BY <1>4, <2>1, DeliverIInv DEF LoadMissing, Fails, IInv, TypeOK
<1>5. CASE LoadNew
  <2>1. Loading /\ Target \in Modules /\ Target \notin cache \cup active /\ Enter(Target)
    BY <1>5 DEF LoadNew
  <2>2. Top.phase \notin Past
    BY <2>1, PastIsSettled, ModulesAssumption
  <2>3. Top \in Frames
    BY <2>1, TopType DEF Loading, IInv, TypeOK
  <2>4. Top.phase \in {"prelude", "parse"}
    BY <2>2, <2>3 DEF Frames, Phases, Past
  <2> QED BY <2>1, <2>4, EnterIInv
<1>6. CASE PreludeLoaded
  <2>1. stack # <<>> /\ Top.phase = "prelude"
    BY <1>6 DEF PreludeLoaded, PhaseOver
  <2>2. Top.mod \notin cache
    BY <2>1, TopType DEF IInv, TypeOK, CachedWhenPast, Past
  <2> QED BY <1>6, <2>1, <2>2, TurnIInv DEF PreludeLoaded, Phases, Past, IInv, TypeOK
<1>7. CASE EndParse
  <2>1. stack # <<>>
    BY <1>7 DEF EndParse, PhaseOver
  <2> QED BY <1>7, <2>1, TurnIInv DEF EndParse, Phases, Past, IInv, TypeOK
<1>8. CASE LinkImports
  <2>1. stack # <<>> /\ Top.phase = "imports"
    BY <1>8 DEF LinkImports, PhaseOver
  <2>2. Top \in Frames /\ Top.mod \in cache
    BY <2>1, TopType DEF IInv, TypeOK, CachedWhenPast, Past
  <2>3. imported' \in [Modules -> Seq(Modules)]
    BY <1>8, <2>2 DEF LinkImports, Frames, IInv, TypeOK
  <2> QED BY <1>8, <2>1, <2>2, <2>3, TurnIInv DEF LinkImports, Phases, Past
<1>9. CASE Return
  BY <1>9, ReturnIInv
<1>10. CASE UNCHANGED vars
  <2>1. UNCHANGED <<directives, stack, cache, active, errors, imported, exported>>
    BY <1>10 DEF vars
  <2>2. TypeOK' /\ CachedWhenPast'
    BY <2>1 DEF IInv, TypeOK, CachedWhenPast, Calls
  <2>3. Shape'
    BY <2>1 DEF IInv, Shape, ActiveAreCalled, OnePerModule, Waiting, WaitsFor, Agenda, Calls
  <2>4. NotedAreSettled'
    BY <2>1 DEF IInv, NotedAreSettled, AllSettled, Settled, Calls
  <2> QED BY <2>2, <2>3, <2>4 DEF IInv
<1> QED BY <1>1, <1>2, <1>3, <1>4, <1>5, <1>6, <1>7, <1>8, <1>9, <1>10 DEF Next

LEMMA Invariance == Spec => []IInv
<1>1. Init => IInv
  BY InitIInv
<1>2. IInv /\ [Next]_vars => IInv'
  BY NextIInv
<1> QED BY <1>1, <1>2, PTL DEF Spec

(***************************************************************************)
(* Every variable of the module loader keeps its type, for every import    *)
(* graph.                                                                  *)
(***************************************************************************)
THEOREM LoaderTypeCorrect == Spec => []TypeOK
<1>1. IInv => TypeOK
  BY IInvImplies
<1> QED BY <1>1, Invariance, PTL

(***************************************************************************)
(* loadModule hands nobody a module that it has put in the cache and not   *)
(* linked, except to a module that imports itself, and then it has         *)
(* reported that.                                                          *)
(***************************************************************************)
THEOREM NoHalfLinkedModule == Spec => []ReturnedAreLinked
<1>1. IInv => ReturnedAreLinked
  BY IInvImplies
<1> QED BY <1>1, Invariance, PTL

-----------------------------------------------------------------------------
\* Cycles, and what is linked.  A load is over once its module is cached and no
\* longer active.  While nothing circular has been found, all that a call has had
\* loaded is over, so that the modules whose load is over need only each other; and
\* a cycle that is found is one of the calls under way, each waiting for the next.

Fin    == cache \ active
Absent == IF "not found" \in errors THEN Missing ELSE {}
Done   == Fin \cup Absent

\* The first j elements of a sequence
Upto(s, j) == {s[l] : l \in 1 .. j}

\* The directive a call has come to in its text
Position(f) ==
  CASE f.phase = "prelude" -> 1
    [] f.phase = "parse"   -> f.next
    [] OTHER               -> Len(directives[f.mod]) + 1

\* The parser has noted what the text of m has before its i-th directive, in order.
Notes(raw, m, kind, i) ==
  /\ Upto(raw, Len(raw)) = ReadBefore(m, kind, i)
  /\ \A j \in 0 .. Len(raw) : \E l \in 1 .. i : Upto(raw, j) = ReadBefore(m, kind, l)

TextRead(f) ==
  /\ f.next \in 1 .. Len(Agenda(f)) + 1
  /\ f.phase = "prelude" => f.mod \notin InPrelude
  /\ Notes(f.rawImports, f.mod, "import", Position(f))
  /\ Notes(f.rawExports, f.mod, "export", Position(f))

\* What the call has come past in its text is in W.
PreludeOver(f) == f.mod \notin InPrelude /\ (f.phase = "prelude" => f.next = 2)
Loaded(f, W) ==
  /\ \A i \in 1 .. Position(f) - 1 : directives[f.mod][i].of \in W
  /\ PreludeOver(f) => Prelude \in W

\* A module's list so far: each once, in the text's order, and these.
Lists(s, m, kind, these) ==
  /\ IsInjective(s)
  /\ Upto(s, Len(s)) = these
  /\ \A j \in 0 .. Len(s) : \E i \in 0 .. Len(directives[m]) + 1 :
       Upto(s, j) = NamedBefore(m, kind, i)

Ofs(raw, n) == {d.of : d \in Upto(raw, n)}
ImportsLinked(f) == CASE f.phase = "imports" -> f.next - 1
                      [] f.phase = "exports" -> Len(f.rawImports)
                      [] OTHER               -> 0
ExportsLinked(f) == IF f.phase = "exports" THEN f.next - 1 ELSE 0
PreludeFirst(f)  == IF PreludeOver(f) THEN {Prelude} ELSE {}

Listed(f) ==
  /\ Lists(f.imports, f.mod, "import", PreludeFirst(f) \cup Ofs(f.rawImports, ImportsLinked(f)))
  /\ Lists(f.exports, f.mod, "export", Ofs(f.rawExports, ExportsLinked(f)))

CallInv(f) ==
  /\ TextRead(f)
  /\ "circular" \notin errors => Loaded(f, Done)
  /\ errors = {} => Listed(f)
  /\ errors = {} /\ f.phase = "exports" => LinkedInOrder(imported[f.mod], f.mod, "import")

CallsInv         == \A i \in Calls : CallInv(stack[i])
CycleIsThere     == "circular" \in errors => \E S \in SUBSET (cache \cup active) : Cyclic(S)
FinishedIsClosed == "circular" \notin errors => \A m \in Fin : Needs(m) \subseteq Done
FinishedNoCycle  == "circular" \notin errors => \A S \in SUBSET Fin : ~Cyclic(S)
FinishedIsLinked ==
  errors = {} => \A m \in Fin : /\ LinkedInOrder(imported[m], m, "import")
                                /\ LinkedInOrder(exported[m], m, "export")

GraphInv == CallsInv /\ CycleIsThere /\ FinishedIsClosed /\ FinishedNoCycle /\ FinishedIsLinked

-----------------------------------------------------------------------------
\* Sequences that grow by one

\* q is s with x at its end.
Grown(s, q, x) ==
  /\ Len(s) \in Nat /\ Len(q) = Len(s) + 1 /\ q[Len(s) + 1] = x
  /\ \A l \in 1 .. Len(s) : q[l] = s[l]

LEMMA AppendGrows ==
  ASSUME NEW T, NEW s \in Seq(T), NEW x \in T, NEW q, q = Append(s, x)
  PROVE  Grown(s, q, x)
BY AppendProperties, LenProperties DEF Grown

LEMMA UptoGrown ==
  ASSUME NEW s, NEW q, NEW x, Grown(s, q, x)
  PROVE  /\ \A j \in 0 .. Len(s) : Upto(q, j) = Upto(s, j)
         /\ Upto(q, Len(q)) = Upto(s, Len(s)) \cup {x}
         /\ \A j \in 0 .. Len(q) : j \in 0 .. Len(s) \/ j = Len(q)
<1> DEFINE n == Len(s)
<1> HIDE DEF n
<1>1. Len(q) = n + 1 /\ n \in Nat /\ q[n + 1] = x /\ \A l \in 1 .. n : q[l] = s[l]
  BY DEF n, Grown
<1>2. ASSUME NEW j \in 0 .. n PROVE Upto(q, j) = Upto(s, j)
  <2>1. \A l \in 1 .. j : q[l] = s[l]
    BY <1>1
  <2> QED BY <2>1 DEF Upto
<1>3. Upto(q, n + 1) = Upto(s, n) \cup {x}
  <2>1. \A l \in 1 .. n + 1 : l \in 1 .. n \/ l = n + 1
    BY <1>1
  <2>2. 1 .. n \subseteq 1 .. n + 1 /\ n + 1 \in 1 .. n + 1
    BY <1>1
  <2> QED BY <1>1, <2>1, <2>2 DEF Upto
<1>4. \A j \in 0 .. n + 1 : j \in 0 .. n \/ j = n + 1
  BY <1>1
<1> QED BY <1>1, <1>2, <1>3, <1>4 DEF n

LEMMA UptoEmpty == \A s : Upto(s, 0) = {}
BY DEF Upto

\* Adding what is not there yet keeps a list without repetitions.
LEMMA AddedElements ==
  ASSUME NEW s \in Seq(Modules), NEW x \in Modules, NEW q, q = Added(s, x), IsInjective(s)
  PROVE  /\ q \in Seq(Modules) /\ IsInjective(q)
         /\ Upto(q, Len(q)) = Upto(s, Len(s)) \cup {x}
         /\ \A j \in 0 .. Len(q) : \/ j \in 0 .. Len(s) /\ Upto(q, j) = Upto(s, j)
                                   \/ j = Len(q)
<1>0. Len(s) \in Nat /\ DOMAIN s = 1 .. Len(s)
  BY LenProperties
<1>1. CASE \E i \in DOMAIN s : s[i] = x
  <2>1. q = s
    BY <1>1 DEF Added
  <2>2. x \in Upto(s, Len(s))
    BY <1>0, <1>1 DEF Upto
  <2> QED BY <2>1, <2>2
<1>2. CASE ~\E i \in DOMAIN s : s[i] = x
  <2>1. q = Append(s, x)
    BY <1>2 DEF Added
  <2>0. q \in Seq(Modules) /\ Len(s) \in Nat /\ Grown(s, q, x)
    BY <2>1, AppendProperties, LenProperties DEF Grown
  <2>2. /\ \A j \in 0 .. Len(s) : Upto(q, j) = Upto(s, j)
        /\ Upto(q, Len(q)) = Upto(s, Len(s)) \cup {x}
        /\ \A j \in 0 .. Len(q) : j \in 0 .. Len(s) \/ j = Len(q)
    BY <2>0, UptoGrown
  <2>3. IsInjective(q)
    <3>1. /\ DOMAIN q = 1 .. Len(s) + 1 /\ q[Len(s) + 1] = x
          /\ \A l \in 1 .. Len(s) : q[l] = s[l]
      BY <2>1, AppendProperties, LenProperties
    <3>2. ASSUME NEW i \in DOMAIN q, NEW j \in DOMAIN q, q[i] = q[j] PROVE i = j
      <4>1. CASE i \in 1 .. Len(s) /\ j \in 1 .. Len(s)
        BY <1>0, <3>1, <3>2, <4>1 DEF IsInjective
      <4>2. CASE i = Len(s) + 1 /\ j \in 1 .. Len(s)
        BY <1>0, <1>2, <3>1, <3>2, <4>2
      <4>3. CASE i \in 1 .. Len(s) /\ j = Len(s) + 1
        BY <1>0, <1>2, <3>1, <3>2, <4>3
      <4>4. \A l \in DOMAIN q : l \in 1 .. Len(s) \/ l = Len(s) + 1
        BY <1>0, <3>1
      <4> QED BY <4>1, <4>2, <4>3, <4>4
    <3> QED BY <3>2 DEF IsInjective
  <2> QED BY <2>0, <2>2, <2>3
<1> QED BY <1>1, <1>2

-----------------------------------------------------------------------------
\* What a load does to the call that waits for it

LEMMA ReceivedFields ==
  ASSUME NEW f \in Frames, NEW m, NEW g, g = Received(f, m)
  PROVE  /\ g.mod = f.mod /\ g.phase = f.phase /\ g.next = f.next + 1
         /\ g.rawImports = Noted(f.rawImports, f, "import")
         /\ g.rawExports = Noted(f.rawExports, f, "export")
         /\ g.imports = IF m # None /\ f.phase \in {"prelude", "imports"}
                          THEN Added(f.imports, m) ELSE f.imports
         /\ g.exports = IF m # None /\ f.phase = "exports"
                          THEN Added(f.exports, m) ELSE f.exports
         /\ f.phase # "parse" => g.rawImports = f.rawImports /\ g.rawExports = f.rawExports
<1> DEFINE imports == IF m # None /\ f.phase \in {"prelude", "imports"}
                        THEN Added(f.imports, m) ELSE f.imports
           exports == IF m # None /\ f.phase = "exports"
                        THEN Added(f.exports, m) ELSE f.exports
           rawI == Noted(f.rawImports, f, "import")
           rawE == Noted(f.rawExports, f, "export")
<1>1. g = [f EXCEPT !.next = f.next + 1, !.rawImports = rawI, !.rawExports = rawE,
                    !.imports = imports, !.exports = exports]
  BY DEF Received
<1>2. f.phase # "parse" => rawI = f.rawImports /\ rawE = f.rawExports
  BY DEF Noted
<1> HIDE DEF imports, exports, rawI, rawE
<1>3. /\ g.mod = f.mod /\ g.phase = f.phase /\ g.next = f.next + 1
      /\ g.rawImports = rawI /\ g.rawExports = rawE
      /\ g.imports = imports /\ g.exports = exports
  BY <1>1 DEF Frames
<1> QED BY <1>2, <1>3 DEF imports, exports, rawI, rawE

LEMMA FrameFields ==
  ASSUME NEW f \in Frames
  PROVE  /\ f.mod \in Modules /\ f.phase \in Phases /\ f.next \in Nat \ {0}
         /\ f.rawImports \in Seq(Directive) /\ f.rawExports \in Seq(Directive)
         /\ f.imports \in Seq(Modules) /\ f.exports \in Seq(Modules)
BY DEF Frames

LEMMA ReadBeforeNext ==
  ASSUME directives \in [Modules -> Seq(Directive)], NEW m \in Modules, NEW kind,
         NEW i \in 1 .. Len(directives[m])
  PROVE  ReadBefore(m, kind, i + 1) =
           ReadBefore(m, kind, i)
             \cup (IF directives[m][i].kind = kind THEN {directives[m][i]} ELSE {})
<1>1. /\ Len(directives[m]) \in Nat /\ (i + 1) - 1 = i /\ i \in 1 .. i
      /\ 1 .. i - 1 \subseteq 1 .. i
      /\ \A j \in 1 .. i : j \in 1 .. i - 1 \/ j = i
  BY LenProperties
<1> QED BY <1>1 DEF ReadBefore

LEMMA ReadBeforeFirst == \A m, kind : ReadBefore(m, kind, 1) = {} /\ ReadBefore(m, kind, 0) = {}
<1>1. 1 .. 1 - 1 = {} /\ 1 .. 0 - 1 = {}
  OBVIOUS
<1> QED BY <1>1 DEF ReadBefore

LEMMA NotesNext ==
  ASSUME directives \in [Modules -> Seq(Directive)], NEW m \in Modules, NEW kind,
         NEW i \in 1 .. Len(directives[m]), NEW raw \in Seq(Directive),
         Notes(raw, m, kind, i), NEW r,
         r = IF directives[m][i].kind = kind THEN Append(raw, directives[m][i]) ELSE raw
  PROVE  Notes(r, m, kind, i + 1)
<1>0. i \in Nat /\ \E x \in Directive : x = directives[m][i]
  <2>1. directives[m] \in Seq(Directive) /\ Len(directives[m]) \in Nat
    BY LenProperties
  <2> QED BY <2>1, ElementOfSeq, LenProperties
<1> PICK e \in Directive : e = directives[m][i]
  BY <1>0
<1>1. ReadBefore(m, kind, i + 1) =
        ReadBefore(m, kind, i) \cup (IF e.kind = kind THEN {e} ELSE {})
  BY ReadBeforeNext
<1>2. r = IF e.kind = kind THEN Append(raw, e) ELSE raw
  OBVIOUS
<1>3. 1 .. i \subseteq 1 .. i + 1 /\ i + 1 \in 1 .. i + 1
  BY <1>0
<1>4. CASE e.kind # kind
  BY <1>1, <1>2, <1>3, <1>4 DEF Notes
<1>5. CASE e.kind = kind
  <2>1. r = Append(raw, e)
    BY <1>2, <1>5
  <2>0. Grown(raw, r, e)
    BY <2>1, AppendGrows
  <2>2. /\ \A j \in 0 .. Len(raw) : Upto(r, j) = Upto(raw, j)
        /\ Upto(r, Len(r)) = Upto(raw, Len(raw)) \cup {e}
        /\ \A j \in 0 .. Len(r) : j \in 0 .. Len(raw) \/ j = Len(r)
    BY ONLY <2>0, UptoGrown
  <2>3. Upto(r, Len(r)) = ReadBefore(m, kind, i + 1)
    BY <1>1, <1>5, <2>2 DEF Notes
  <2>4. ASSUME NEW j \in 0 .. Len(r)
        PROVE  \E l \in 1 .. i + 1 : Upto(r, j) = ReadBefore(m, kind, l)
    <3>1. CASE j = Len(r)
      BY <1>3, <2>3, <3>1
    <3>2. CASE j \in 0 .. Len(raw)
      <4>1. PICK l \in 1 .. i : Upto(raw, j) = ReadBefore(m, kind, l)
        BY <3>2 DEF Notes
      <4>2. Upto(r, j) = Upto(raw, j)
        BY <2>2, <3>2
      <4> QED BY <1>3, <4>1, <4>2
    <3> QED BY <2>2, <3>1, <3>2
  <2> QED BY <2>3, <2>4 DEF Notes
<1> QED BY <1>4, <1>5

\* A call that goes on has still read its text in order, and not past its end.
LEMMA TextReceived ==
  ASSUME directives \in [Modules -> Seq(Directive)],
         NEW f \in Frames, f.next \in DOMAIN Agenda(f), TextRead(f),
         NEW m, NEW g, g = Received(f, m)
  PROVE  TextRead(g)
<1>1. /\ g.mod = f.mod /\ g.phase = f.phase /\ g.next = f.next + 1
      /\ g.rawImports = Noted(f.rawImports, f, "import")
      /\ g.rawExports = Noted(f.rawExports, f, "export")
      /\ f.phase # "parse" => g.rawImports = f.rawImports /\ g.rawExports = f.rawExports
  BY ReceivedFields
<1>2. /\ f.mod \in Modules /\ f.phase \in Phases /\ f.next \in Nat \ {0}
      /\ f.rawImports \in Seq(Directive) /\ f.rawExports \in Seq(Directive)
  BY FrameFields
<1>3. Agenda(g) = Agenda(f)
  BY <1>1, <1>2 DEF Agenda, Phases
<1>4. Len(Agenda(f)) \in Nat /\ f.next \in 1 .. Len(Agenda(f))
  BY AgendaType, LenProperties
<1>5. g.next \in 1 .. Len(Agenda(g)) + 1
  BY <1>1, <1>2, <1>3, <1>4
<1>6. CASE f.phase = "parse"
  <2> DEFINE e == directives[f.mod][f.next]
  <2>1. /\ Agenda(f) = directives[f.mod] /\ Position(f) = f.next /\ Position(g) = f.next + 1
    BY <1>1, <1>6 DEF Agenda, Position
  <2>2. /\ g.rawImports = IF e.kind = "import" THEN Append(f.rawImports, e) ELSE f.rawImports
        /\ g.rawExports = IF e.kind = "export" THEN Append(f.rawExports, e) ELSE f.rawExports
    BY <1>1, <1>6, <2>1 DEF Noted
  <2>3. f.next \in 1 .. Len(directives[f.mod])
    BY <1>4, <2>1
  <2>4. Notes(g.rawImports, f.mod, "import", f.next + 1)
    BY <1>2, <2>1, <2>2, <2>3, NotesNext DEF TextRead
  <2>5. Notes(g.rawExports, f.mod, "export", f.next + 1)
    BY <1>2, <2>1, <2>2, <2>3, NotesNext DEF TextRead
  <2> QED BY <1>1, <1>5, <1>6, <2>1, <2>4, <2>5 DEF TextRead
<1>7. CASE f.phase # "parse"
  <2>1. Position(g) = Position(f) /\ g.rawImports = f.rawImports /\ g.rawExports = f.rawExports
    BY <1>1, <1>7 DEF Position
  <2> QED BY <1>1, <1>5, <2>1 DEF TextRead
<1> QED BY <1>6, <1>7

\* What it has come past has been loaded, if this load has.
LEMMA LoadedReceived ==
  ASSUME directives \in [Modules -> Seq(Directive)],
         NEW f \in Frames, f.next \in DOMAIN Agenda(f), TextRead(f),
         NEW W, Loaded(f, W), Agenda(f)[f.next].of \in W,
         NEW m, NEW g, g = Received(f, m)
  PROVE  Loaded(g, W)
<1>1. g.mod = f.mod /\ g.phase = f.phase /\ g.next = f.next + 1
  BY ReceivedFields
<1>2. f.mod \in Modules /\ f.phase \in Phases /\ f.next \in Nat \ {0}
  BY FrameFields
<1>3. f.next \in 1 .. Len(Agenda(f)) /\ Len(Agenda(f)) \in Nat
  BY AgendaType, LenProperties
<1>4. CASE f.phase = "parse"
  <2>1. Agenda(f) = directives[f.mod] /\ Position(f) = f.next /\ Position(g) = f.next + 1
    BY <1>1, <1>4 DEF Agenda, Position
  <2>2. \A i \in 1 .. (f.next + 1) - 1 : i \in 1 .. f.next - 1 \/ i = f.next
    BY <1>2
  <2>3. PreludeOver(g) => PreludeOver(f)
    BY <1>1, <1>4 DEF PreludeOver
  <2> QED BY <1>1, <2>1, <2>2, <2>3 DEF Loaded
<1>5. CASE f.phase = "prelude"
  <2>1. Agenda(f)[f.next].of = Prelude
    <3>1. Agenda(f) = <<[kind |-> "import", of |-> Prelude]>>
      BY <1>5 DEF Agenda
    <3>2. Len(Agenda(f)) = 1
      BY <3>1
    <3>3. f.next = 1
      BY <1>3, <3>2
    <3> QED BY <3>1, <3>3
  <2>2. Position(g) = Position(f)
    BY <1>1, <1>5 DEF Position
  <2> QED BY <1>1, <2>1, <2>2 DEF Loaded
<1>6. CASE f.phase \notin {"parse", "prelude"}
  <2>1. Position(g) = Position(f) /\ PreludeOver(g) = PreludeOver(f)
    BY <1>1, <1>6 DEF Position, PreludeOver
  <2> QED BY <1>1, <2>1 DEF Loaded
<1> QED BY <1>4, <1>5, <1>6

\* The prelude is imported first.
PreludeOf(m, kind) == IF kind = "import" /\ m \notin InPrelude THEN {Prelude} ELSE {}

LEMMA NamedIsNoted ==
  ASSUME NEW raw, NEW j, NEW m, NEW kind, NEW l \in Nat \ {0},
         Upto(raw, j) = ReadBefore(m, kind, l)
  PROVE  NamedBefore(m, kind, l) = Ofs(raw, j) \cup PreludeOf(m, kind)
BY DEF NamedBefore, Ofs, PreludeOf

LEMMA OfsNext ==
  ASSUME NEW raw, NEW j \in Nat
  PROVE  Ofs(raw, j + 1) = Ofs(raw, j) \cup {raw[j + 1].of} /\ Ofs(raw, 0) = {}
<1>1. \A l \in 1 .. j + 1 : l \in 1 .. j \/ l = j + 1
  OBVIOUS
<1>2. 1 .. j \subseteq 1 .. j + 1 /\ j + 1 \in 1 .. j + 1 /\ 1 .. 0 = {}
  OBVIOUS
<1>3. Upto(raw, j + 1) = Upto(raw, j) \cup {raw[j + 1]} /\ Upto(raw, 0) = {}
  BY <1>1, <1>2 DEF Upto
<1> QED BY <1>3 DEF Ofs

LEMMA ListsNext ==
  ASSUME NEW s \in Seq(Modules), NEW x \in Modules, NEW m, NEW kind, NEW these,
         Lists(s, m, kind, these), NEW q, q = Added(s, x), NEW all, all = these \cup {x},
         \E i \in 0 .. Len(directives[m]) + 1 : all = NamedBefore(m, kind, i)
  PROVE  Lists(q, m, kind, all)
<1>1. IsInjective(s)
  BY DEF Lists
<1>2. /\ q \in Seq(Modules) /\ IsInjective(q)
      /\ Upto(q, Len(q)) = Upto(s, Len(s)) \cup {x}
      /\ \A j \in 0 .. Len(q) : \/ j \in 0 .. Len(s) /\ Upto(q, j) = Upto(s, j)
                                \/ j = Len(q)
  BY <1>1, AddedElements
<1>3. Upto(q, Len(q)) = all
  BY <1>2 DEF Lists
<1> QED BY <1>2, <1>3 DEF Lists

\* A load that has succeeded is linked, and that keeps the lists in the text's order.
LEMMA ListedReceived ==
  ASSUME directives \in [Modules -> Seq(Directive)],
         NEW f \in Frames, f.next \in DOMAIN Agenda(f), TextRead(f), Listed(f),
         NEW m \in Modules, m = Agenda(f)[f.next].of, NEW g, g = Received(f, m)
  PROVE  Listed(g)
<1>0. m # None
  BY ModulesAssumption
<1>1. /\ g.mod = f.mod /\ g.phase = f.phase /\ g.next = f.next + 1
      /\ g.imports = IF m # None /\ f.phase \in {"prelude", "imports"}
                       THEN Added(f.imports, m) ELSE f.imports
      /\ g.exports = IF m # None /\ f.phase = "exports"
                       THEN Added(f.exports, m) ELSE f.exports
      /\ f.phase # "parse" => g.rawImports = f.rawImports /\ g.rawExports = f.rawExports
  BY ReceivedFields
<1>2. /\ f.mod \in Modules /\ f.phase \in Phases /\ f.next \in Nat \ {0}
      /\ f.rawImports \in Seq(Directive) /\ f.rawExports \in Seq(Directive)
      /\ f.imports \in Seq(Modules) /\ f.exports \in Seq(Modules)
  BY FrameFields
<1>3. f.next \in 1 .. Len(Agenda(f)) /\ Len(Agenda(f)) \in Nat /\ Len(directives[f.mod]) \in Nat
  BY <1>2, AgendaType, LenProperties
<1> DEFINE N == Len(directives[f.mod]) + 1
<1>4. Lists(f.imports, f.mod, "import", PreludeFirst(f) \cup Ofs(f.rawImports, ImportsLinked(f)))
  BY DEF Listed
<1>5. Lists(f.exports, f.mod, "export", Ofs(f.rawExports, ExportsLinked(f)))
  BY DEF Listed
<1>6. \A raw : Ofs(raw, 0) = {}
  BY OfsNext
<1>7. CASE f.phase = "prelude"
  <2>1. f.next = 1 /\ m = Prelude
    <3>1. Agenda(f) = <<[kind |-> "import", of |-> Prelude]>>
      BY <1>7 DEF Agenda
    <3>2. Len(Agenda(f)) = 1
      BY <3>1
    <3>3. f.next = 1
      BY <1>3, <3>2
    <3> QED BY <3>1, <3>3
  <2>2. f.mod \notin InPrelude
    BY <1>7 DEF TextRead
  <2>3. PreludeFirst(f) = {} /\ PreludeFirst(g) = {Prelude}
    BY <1>1, <1>7, <2>1, <2>2 DEF PreludeFirst, PreludeOver
  <2>4. /\ ImportsLinked(f) = 0 /\ ImportsLinked(g) = 0
        /\ ExportsLinked(f) = 0 /\ ExportsLinked(g) = 0
    BY <1>1, <1>7 DEF ImportsLinked, ExportsLinked
  <2>5. NamedBefore(f.mod, "import", 1) = {Prelude}
    BY <2>2, ReadBeforeFirst DEF NamedBefore
  <2>6. g.imports = Added(f.imports, m) /\ g.exports = f.exports
    BY <1>0, <1>1, <1>7
  <2>7. Lists(f.imports, f.mod, "import", {})
    BY <1>4, <1>6, <2>3, <2>4
  <2>8. Lists(g.imports, f.mod, "import", {Prelude})
    <3>1. 1 \in 0 .. N /\ {Prelude} = {} \cup {m}
      BY <1>3, <2>1
    <3> QED BY <1>2, <2>5, <2>6, <2>7, <3>1, ListsNext
  <2> QED BY <1>1, <1>5, <1>6, <2>3, <2>4, <2>6, <2>8 DEF Listed
<1>8. CASE f.phase = "parse"
  <2>1. PreludeFirst(g) = PreludeFirst(f)
    BY <1>1, <1>8 DEF PreludeFirst, PreludeOver
  <2>2. /\ ImportsLinked(f) = 0 /\ ImportsLinked(g) = 0
        /\ ExportsLinked(f) = 0 /\ ExportsLinked(g) = 0
    BY <1>1, <1>8 DEF ImportsLinked, ExportsLinked
  <2>3. g.imports = f.imports /\ g.exports = f.exports
    BY <1>1, <1>8
  <2> QED BY <1>1, <1>4, <1>5, <1>6, <2>1, <2>2, <2>3 DEF Listed
<1>9. CASE f.phase = "imports"
  <2> DEFINE raw == f.rawImports
  <2>1. PreludeFirst(g) = PreludeFirst(f) /\ PreludeFirst(f) = PreludeOf(f.mod, "import")
    BY <1>1, <1>9 DEF PreludeFirst, PreludeOver, PreludeOf
  <2>2. /\ ImportsLinked(f) = f.next - 1 /\ ImportsLinked(g) = f.next
        /\ ExportsLinked(f) = 0 /\ ExportsLinked(g) = 0
    BY <1>1, <1>2, <1>9 DEF ImportsLinked, ExportsLinked
  <2>3. g.imports = Added(f.imports, m) /\ g.exports = f.exports /\ g.rawImports = raw
    BY <1>0, <1>1, <1>9
  <2>4. Agenda(f) = raw /\ Position(f) = N
    BY <1>9 DEF Agenda, Position
  <2>5. PICK l \in 1 .. N : Upto(raw, f.next) = ReadBefore(f.mod, "import", l)
    <3>1. f.next \in 0 .. Len(raw)
      BY <1>3, <2>4
    <3> QED BY <2>4, <3>1 DEF TextRead, Notes
  <2>6. NamedBefore(f.mod, "import", l) = PreludeFirst(f) \cup Ofs(raw, f.next)
    <3>1. l \in Nat \ {0}
      BY <1>3
    <3> QED BY <2>1, <2>5, <3>1, NamedIsNoted
  <2>7. Ofs(raw, f.next) = Ofs(raw, f.next - 1) \cup {m}
    <3>1. f.next - 1 \in Nat /\ (f.next - 1) + 1 = f.next
      BY <1>2
    <3> QED BY <2>4, <3>1, OfsNext
  <2>8. Lists(g.imports, f.mod, "import", PreludeFirst(f) \cup Ofs(raw, f.next))
    <3> DEFINE old == PreludeFirst(f) \cup Ofs(raw, f.next - 1)
               all == PreludeFirst(f) \cup Ofs(raw, f.next)
    <3>1. all = old \cup {m}
      BY <2>7
    <3>2. Lists(f.imports, f.mod, "import", old)
      BY <1>4, <2>2
    <3>3. \E i \in 0 .. N : all = NamedBefore(f.mod, "import", i)
      <4>1. l \in 0 .. N
        BY <1>3
      <4> QED BY <2>6, <4>1
    <3> HIDE DEF old, all, raw
    <3>4. Lists(g.imports, f.mod, "import", all)
      <4>1. f.imports \in Seq(Modules) /\ g.imports = Added(f.imports, m) /\ m \in Modules
        BY <1>2, <2>3
      <4> QED BY ONLY <4>1, <3>1, <3>2, <3>3, ListsNext
    <3> QED BY <3>4 DEF all
  <2> QED BY <1>1, <1>5, <1>6, <2>1, <2>2, <2>3, <2>8 DEF Listed
<1>10. CASE f.phase = "exports"
  <2> DEFINE raw == f.rawExports
  <2>1. PreludeFirst(g) = PreludeFirst(f)
    BY <1>1, <1>10 DEF PreludeFirst, PreludeOver
  <2>2. /\ ImportsLinked(f) = Len(f.rawImports) /\ ImportsLinked(g) = Len(f.rawImports)
        /\ ExportsLinked(f) = f.next - 1 /\ ExportsLinked(g) = f.next
    <3>1. g.phase = "exports" /\ g.next - 1 = f.next
      BY <1>1, <1>2, <1>10
    <3>2. g.rawImports = f.rawImports
      BY <1>1, <1>10
    <3> QED BY <1>10, <3>1, <3>2 DEF ImportsLinked, ExportsLinked
  <2>3. /\ g.exports = Added(f.exports, m) /\ g.imports = f.imports
        /\ g.rawImports = f.rawImports /\ g.rawExports = raw
    BY <1>0, <1>1, <1>10
  <2>4. Agenda(f) = raw /\ Position(f) = N
    BY <1>10 DEF Agenda, Position
  <2>5. PICK l \in 1 .. N : Upto(raw, f.next) = ReadBefore(f.mod, "export", l)
    <3>1. f.next \in 0 .. Len(raw)
      BY <1>3, <2>4
    <3> QED BY <2>4, <3>1 DEF TextRead, Notes
  <2>6. NamedBefore(f.mod, "export", l) = Ofs(raw, f.next)
    <3>1. l \in Nat \ {0}
      BY <1>3
    <3>2. NamedBefore(f.mod, "export", l) = Ofs(raw, f.next) \cup PreludeOf(f.mod, "export")
      BY <2>5, <3>1, NamedIsNoted
    <3>3. PreludeOf(f.mod, "export") = {}
      BY DEF PreludeOf
    <3> QED BY <3>2, <3>3
  <2>7. Ofs(raw, f.next) = Ofs(raw, f.next - 1) \cup {m}
    <3>1. f.next - 1 \in Nat /\ (f.next - 1) + 1 = f.next
      BY <1>2
    <3> QED BY <2>4, <3>1, OfsNext
  <2>8. Lists(g.exports, f.mod, "export", Ofs(raw, f.next))
    <3> DEFINE old == Ofs(raw, f.next - 1)
               all == Ofs(raw, f.next)
    <3>1. all = old \cup {m}
      BY <2>7
    <3>2. Lists(f.exports, f.mod, "export", old)
      BY <1>5, <2>2
    <3>3. \E i \in 0 .. N : all = NamedBefore(f.mod, "export", i)
      <4>1. l \in 0 .. N
        BY <1>3
      <4> QED BY <2>6, <4>1
    <3> HIDE DEF old, all, raw
    <3>4. Lists(g.exports, f.mod, "export", all)
      <4>1. f.exports \in Seq(Modules) /\ g.exports = Added(f.exports, m) /\ m \in Modules
        BY <1>2, <2>3
      <4> QED BY ONLY <4>1, <3>1, <3>2, <3>3, ListsNext
    <3> QED BY <3>4 DEF all
  <2> QED BY <1>1, <1>4, <2>1, <2>2, <2>3, <2>8 DEF Listed
<1> QED BY <1>2, <1>7, <1>8, <1>9, <1>10 DEF Phases

-----------------------------------------------------------------------------
\* What a call begins with, and how it goes on to its next phase

LEMMA FrameBegins ==
  ASSUME directives \in [Modules -> Seq(Directive)], NEW m \in Modules, NEW f, f = Frame(m)
  PROVE  TextRead(f) /\ Listed(f) /\ \A W : Loaded(f, W)
<1> DEFINE N == Len(directives[m]) + 1
<1>1. /\ f.mod = m /\ f.phase = (IF m \in InPrelude THEN "parse" ELSE "prelude") /\ f.next = 1
      /\ f.rawImports = <<>> /\ f.rawExports = <<>> /\ f.imports = <<>> /\ f.exports = <<>>
  BY DEF Frame
<1>2. N \in Nat \ {0} /\ Position(f) = 1
  BY <1>1, LenProperties DEF Position
<1>3. Len(<<>>) = 0 /\ DOMAIN <<>> = {}
  BY EmptySeq
<1>4. TextRead(f)
  <2>1. f.next \in 1 .. Len(Agenda(f)) + 1
    <3>1. f \in Frames
      BY FrameType
    <3>2. Len(Agenda(f)) \in Nat
      BY <3>1, AgendaType, LenProperties
    <3> QED BY <1>1, <3>2
  <2>2. \A kind : Notes(<<>>, m, kind, 1)
    <3>1. \A j \in 0 .. 0 : j = 0
      OBVIOUS
    <3>2. \A kind : Upto(<<>>, 0) = ReadBefore(m, kind, 1)
      BY UptoEmpty, ReadBeforeFirst
    <3>3. 1 \in 1 .. 1
      OBVIOUS
    <3> QED BY <1>3, <3>1, <3>2, <3>3 DEF Notes
  <2> QED BY <1>1, <1>2, <2>1, <2>2 DEF TextRead
<1>5. ~PreludeOver(f)
  BY <1>1 DEF PreludeOver
<1>6. \A W : Loaded(f, W)
  <2>1. 1 .. 1 - 1 = {}
    OBVIOUS
  <2> QED BY <1>2, <1>5, <2>1 DEF Loaded
<1>7. Listed(f)
  <2>1. \A kind : Lists(<<>>, m, kind, {})
    <3>1. \A j \in 0 .. 0 : j = 0
      OBVIOUS
    <3>2. 0 \in 0 .. N
      BY <1>2
    <3>3. \A kind : NamedBefore(m, kind, 0) = {}
      BY ReadBeforeFirst DEF NamedBefore
    <3>4. IsInjective(<<>>)
      BY <1>3 DEF IsInjective
    <3> QED BY <1>3, <3>1, <3>2, <3>3, <3>4, UptoEmpty DEF Lists
  <2>2. ImportsLinked(f) = 0 /\ ExportsLinked(f) = 0 /\ PreludeFirst(f) = {}
    BY <1>1, <1>5 DEF ImportsLinked, ExportsLinked, PreludeFirst
  <2>3. Ofs(<<>>, 0) = {}
    BY OfsNext
  <2> QED BY <1>1, <2>1, <2>2, <2>3 DEF Listed
<1> QED BY <1>4, <1>6, <1>7

\* When everything of its kind has been linked, a list is as the text has it.
LEMMA ListIsWhole ==
  ASSUME directives \in [Modules -> Seq(Directive)], NEW m \in Modules, NEW kind,
         NEW raw, Notes(raw, m, kind, Len(directives[m]) + 1), NEW s \in Seq(Modules),
         Lists(s, m, kind, PreludeOf(m, kind) \cup Ofs(raw, Len(raw)))
  PROVE  LinkedInOrder(s, m, kind)
<1>1. Len(directives[m]) + 1 \in Nat \ {0}
  BY LenProperties
<1>2. NamedBefore(m, kind, Len(directives[m]) + 1) = Ofs(raw, Len(raw)) \cup PreludeOf(m, kind)
  <2>1. Upto(raw, Len(raw)) = ReadBefore(m, kind, Len(directives[m]) + 1)
    BY DEF Notes
  <2> QED BY <1>1, <2>1 DEF NamedBefore, Ofs, PreludeOf
<1>3. Range(s) = Upto(s, Len(s))
  BY LenProperties DEF Range, Upto
<1> QED BY <1>2, <1>3 DEF Lists, LinkedInOrder, Upto

\* A phase that is over
Over(f) == f.next = Len(Agenda(f)) + 1

Turned(f, phase) == [f EXCEPT !.phase = phase, !.next = 1]
Follows(f, phase) ==
  <<f.phase, phase>> \in {<<"prelude", "parse">>, <<"parse", "imports">>,
                          <<"imports", "exports">>}

LEMMA CallTurns ==
  ASSUME directives \in [Modules -> Seq(Directive)],
         NEW f \in Frames, TextRead(f), Over(f), NEW phase, Follows(f, phase),
         NEW h, h = Turned(f, phase)
  PROVE  /\ TextRead(h)
         /\ \A W : Loaded(f, W) => Loaded(h, W)
         /\ Listed(f) => Listed(h)
         /\ Listed(f) /\ phase = "exports" => LinkedInOrder(f.imports, f.mod, "import")
<1>0. /\ h = [f EXCEPT !.phase = phase, !.next = 1]
      /\ <<f.phase, phase>> \in {<<"prelude", "parse">>, <<"parse", "imports">>,
                                  <<"imports", "exports">>}
  BY DEF Turned, Follows
<1>1. /\ f.mod \in Modules /\ f.phase \in Phases /\ f.next \in Nat \ {0}
      /\ f.rawImports \in Seq(Directive) /\ f.rawExports \in Seq(Directive)
      /\ f.imports \in Seq(Modules) /\ f.exports \in Seq(Modules)
  BY FrameFields
<1>2. /\ h.mod = f.mod /\ h.phase = phase /\ h.next = 1
      /\ h.rawImports = f.rawImports /\ h.rawExports = f.rawExports
      /\ h.imports = f.imports /\ h.exports = f.exports
  BY <1>0 DEF Frames
<1>3. h \in Frames
  <2>1. phase \in Phases /\ 1 \in Nat \ {0}
    BY <1>0 DEF Phases
  <2> QED BY <1>0, <2>1 DEF Frames
<1>4. Len(Agenda(h)) \in Nat /\ Len(Agenda(f)) \in Nat /\ Len(directives[f.mod]) \in Nat
  BY <1>1, <1>3, AgendaType, LenProperties
<1>5. f.phase = "prelude" => f.next = 2
  <2> SUFFICES ASSUME f.phase = "prelude" PROVE f.next = 2
    OBVIOUS
  <2>1. Agenda(f) = <<[kind |-> "import", of |-> Prelude]>>
    BY DEF Agenda
  <2>2. Len(Agenda(f)) = 1
    BY <2>1
  <2> QED BY <2>2 DEF Over
<1>6. Position(h) = Position(f)
  <2>1. CASE f.phase = "prelude"
    BY <1>0, <1>2, <2>1 DEF Position
  <2>2. CASE f.phase = "parse"
    <3>1. f.next = Len(directives[f.mod]) + 1
      BY <2>2 DEF Over, Agenda
    <3> QED BY <1>0, <1>2, <2>2, <3>1 DEF Position
  <2>3. CASE f.phase = "imports"
    BY <1>0, <1>2, <2>3 DEF Position
  <2> QED BY <1>0, <2>1, <2>2, <2>3
<1>7. PreludeOver(h) = PreludeOver(f) /\ PreludeFirst(h) = PreludeFirst(f)
  BY <1>0, <1>2, <1>5 DEF PreludeOver, PreludeFirst
<1>8. TextRead(h)
  <2>1. h.next \in 1 .. Len(Agenda(h)) + 1
    BY <1>2, <1>4
  <2> QED BY <1>0, <1>2, <1>6, <2>1 DEF TextRead
<1>9. \A W : Loaded(f, W) => Loaded(h, W)
  BY <1>2, <1>6, <1>7 DEF Loaded
<1>10. f.phase = "imports" => f.next - 1 = Len(f.rawImports)
  BY <1>1, LenProperties DEF Over, Agenda
<1>11. Listed(f) => Listed(h)
  <2>1. ImportsLinked(h) = ImportsLinked(f)
    <3>1. CASE f.phase = "prelude"
      BY <1>0, <1>2, <3>1 DEF ImportsLinked
    <3>2. CASE f.phase = "parse"
      BY <1>0, <1>2, <3>2 DEF ImportsLinked
    <3>3. CASE f.phase = "imports"
      BY <1>0, <1>2, <1>10, <3>3 DEF ImportsLinked
    <3> QED BY <1>0, <3>1, <3>2, <3>3
  <2>2. ExportsLinked(h) = 0 /\ ExportsLinked(f) = 0
    BY <1>0, <1>2 DEF ExportsLinked
  <2> QED BY <1>2, <1>7, <2>1, <2>2 DEF Listed
<1>12. ASSUME Listed(f), phase = "exports" PROVE LinkedInOrder(f.imports, f.mod, "import")
  <2>1. f.phase = "imports"
    BY <1>0, <1>12
  <2>2. ImportsLinked(f) = Len(f.rawImports)
    BY <1>10, <2>1 DEF ImportsLinked
  <2>3. PreludeFirst(f) = PreludeOf(f.mod, "import")
    BY <2>1 DEF PreludeFirst, PreludeOver, PreludeOf
  <2>4. Lists(f.imports, f.mod, "import",
              PreludeOf(f.mod, "import") \cup Ofs(f.rawImports, Len(f.rawImports)))
    BY <1>12, <2>2, <2>3 DEF Listed
  <2>5. Notes(f.rawImports, f.mod, "import", Len(directives[f.mod]) + 1)
    BY <2>1 DEF TextRead, Position
  <2> QED BY <1>1, <2>4, <2>5, ListIsWhole
<1> QED BY <1>8, <1>9, <1>11, <1>12

\* When a call ends, all its text names has been loaded, and linked.
LEMMA CallEnds ==
  ASSUME directives \in [Modules -> Seq(Directive)],
         NEW f \in Frames, TextRead(f), Over(f), f.phase = "exports"
  PROVE  /\ \A W : Loaded(f, W) => Needs(f.mod) \subseteq W
         /\ Listed(f) => LinkedInOrder(f.exports, f.mod, "export")
<1>1. /\ f.mod \in Modules
      /\ f.rawImports \in Seq(Directive) /\ f.rawExports \in Seq(Directive)
      /\ f.imports \in Seq(Modules) /\ f.exports \in Seq(Modules)
  BY FrameFields
<1>2. Len(directives[f.mod]) \in Nat /\ DOMAIN directives[f.mod] = 1 .. Len(directives[f.mod])
  BY <1>1, LenProperties
<1>3. Position(f) = Len(directives[f.mod]) + 1
  BY DEF Position
<1>4. ASSUME NEW W, Loaded(f, W) PROVE Needs(f.mod) \subseteq W
  <2>1. \A i \in DOMAIN directives[f.mod] : directives[f.mod][i].of \in W
    <3>1. (Len(directives[f.mod]) + 1) - 1 = Len(directives[f.mod])
      BY <1>2
    <3> QED BY <1>2, <1>3, <1>4, <3>1 DEF Loaded
  <2>2. f.mod \notin InPrelude => Prelude \in W
    BY <1>4 DEF Loaded, PreludeOver
  <2> QED BY <2>1, <2>2 DEF Needs
<1>5. ASSUME Listed(f) PROVE LinkedInOrder(f.exports, f.mod, "export")
  <2>1. f.next - 1 = Len(f.rawExports)
    BY <1>1, LenProperties DEF Over, Agenda
  <2>2. Lists(f.exports, f.mod, "export",
              PreludeOf(f.mod, "export") \cup Ofs(f.rawExports, Len(f.rawExports)))
    <3>1. PreludeOf(f.mod, "export") = {}
      BY DEF PreludeOf
    <3> QED BY <1>5, <2>1, <3>1 DEF Listed, ExportsLinked
  <2>3. Notes(f.rawExports, f.mod, "export", Len(directives[f.mod]) + 1)
    BY <1>3 DEF TextRead
  <2> QED BY <1>1, <2>2, <2>3, ListIsWhole
<1> QED BY <1>4, <1>5

-----------------------------------------------------------------------------
\* What is known of a call stays known

LEMMA TextStays ==
  ASSUME directives' = directives
  PROVE  /\ \A f : TextRead(f)' <=> TextRead(f)
         /\ \A f : Listed(f)' <=> Listed(f)
         /\ \A f, W : Loaded(f, W)' <=> Loaded(f, W)
         /\ \A s, m, kind : LinkedInOrder(s, m, kind)' <=> LinkedInOrder(s, m, kind)
         /\ \A m : Needs(m)' = Needs(m)
         /\ \A S : Cyclic(S)' <=> Cyclic(S)
<1>1. \A m, kind, i : ReadBefore(m, kind, i)' = ReadBefore(m, kind, i)
  BY DEF ReadBefore
<1>2. \A m, kind, i : NamedBefore(m, kind, i)' = NamedBefore(m, kind, i)
  BY <1>1 DEF NamedBefore
<1>3. \A f : Position(f)' = Position(f) /\ Agenda(f)' = Agenda(f)
  BY DEF Position, Agenda
<1>4. \A raw, m, kind, i : Notes(raw, m, kind, i)' <=> Notes(raw, m, kind, i)
  BY <1>1 DEF Notes
<1>5. \A s, m, kind, these : Lists(s, m, kind, these)' <=> Lists(s, m, kind, these)
  BY <1>2 DEF Lists
<1>6. \A f : TextRead(f)' <=> TextRead(f)
  BY <1>3, <1>4 DEF TextRead
<1>7. \A f : Listed(f)' <=> Listed(f)
  BY <1>5 DEF Listed
<1>8. \A f, W : Loaded(f, W)' <=> Loaded(f, W)
  BY <1>3 DEF Loaded
<1>9. \A s, m, kind : LinkedInOrder(s, m, kind)' <=> LinkedInOrder(s, m, kind)
  BY <1>2 DEF LinkedInOrder
<1>10. \A m : Needs(m)' = Needs(m)
  BY DEF Needs
<1>11. \A S : Cyclic(S)' <=> Cyclic(S)
  BY <1>10 DEF Cyclic
<1> QED BY <1>6, <1>7, <1>8, <1>9, <1>10, <1>11

\* What has to be shown of a call after a step.
LEMMA CallInvAfter ==
  ASSUME directives' = directives, NEW f, NEW W, W = Done', TextRead(f),
         "circular" \notin errors' => Loaded(f, W),
         errors' = {} => Listed(f),
         NEW s, s = imported'[f.mod],
         errors' = {} /\ f.phase = "exports" => LinkedInOrder(s, f.mod, "import")
  PROVE  CallInv(f)'
<1>1. TextRead(f)' /\ (errors' = {} => Listed(f)')
  BY TextStays
<1>2. "circular" \notin errors' => Loaded(f, W)'
  BY TextStays
<1>3. errors' = {} /\ f.phase = "exports" => LinkedInOrder(s, f.mod, "import")'
  BY TextStays
<1>4. ("circular" \notin errors => Loaded(f, Done))'
  BY <1>2 DEF Loaded
<1>5. (errors = {} /\ f.phase = "exports" => LinkedInOrder(imported[f.mod], f.mod, "import"))'
  BY <1>3
<1> QED BY <1>1, <1>4, <1>5 DEF CallInv

LEMMA DoneGrows ==
  ASSUME Fin \subseteq Fin', errors \subseteq errors'
  PROVE  Done \subseteq Done'
BY DEF Done, Absent

LEMMA CallInvStays ==
  ASSUME directives' = directives, Fin \subseteq Fin', errors \subseteq errors',
         NEW f, f.phase = "exports" => imported'[f.mod] = imported[f.mod], CallInv(f)
  PROVE  CallInv(f)'
<1>1. "circular" \notin errors' => Loaded(f, Done')
  <2> SUFFICES ASSUME "circular" \notin errors' PROVE Loaded(f, Done')
    OBVIOUS
  <2>1. Loaded(f, Done)
    BY DEF CallInv
  <2> QED BY <2>1, DoneGrows DEF Loaded
<1>2. errors' = {} => errors = {}
  OBVIOUS
<1>3. errors' = {} /\ f.phase = "exports" => LinkedInOrder(imported'[f.mod], f.mod, "import")
  BY <1>2 DEF CallInv
<1>4. TextRead(f) /\ (errors' = {} => Listed(f))
  BY <1>2 DEF CallInv
<1> QED BY <1>1, <1>3, <1>4, CallInvAfter

LEMMA CallsInvAfter ==
  ASSUME directives' = directives, Fin \subseteq Fin', errors \subseteq errors', CallsInv,
         \A i \in Calls' :
           \/ /\ i \in Calls /\ stack'[i] = stack[i]
              /\ stack[i].phase = "exports" => imported'[stack[i].mod] = imported[stack[i].mod]
           \/ \A h : h = stack'[i] => CallInv(h)'
  PROVE  CallsInv'
<1>1. \A f : CallInv(f) /\ (f.phase = "exports" => imported'[f.mod] = imported[f.mod])
             => CallInv(f)'
  BY CallInvStays
<1>2. ASSUME NEW i \in Calls' PROVE \A h : h = stack'[i] => CallInv(h)'
  BY <1>1 DEF CallsInv
<1> QED BY <1>2 DEF CallsInv

\* While no load ends, only a new error has to be accounted for.
LEMMA GraphStays ==
  ASSUME directives' = directives, Fin' = Fin, errors \subseteq errors',
         cache \cup active \subseteq cache' \cup active',
         \A m \in Fin : imported'[m] = imported[m] /\ exported'[m] = exported[m],
         "circular" \in errors' =>
           "circular" \in errors \/ \E S \in SUBSET (cache \cup active) : Cyclic(S),
         GraphInv
  PROVE  CycleIsThere' /\ FinishedIsClosed' /\ FinishedNoCycle' /\ FinishedIsLinked'
<1>0. /\ \A s, m, kind : LinkedInOrder(s, m, kind)' <=> LinkedInOrder(s, m, kind)
      /\ \A m : Needs(m)' = Needs(m)
      /\ \A S : Cyclic(S)' <=> Cyclic(S)
  BY TextStays
<1>1. CycleIsThere'
  <2> SUFFICES ASSUME "circular" \in errors'
               PROVE  \E S \in SUBSET (cache' \cup active') : Cyclic(S)'
    BY DEF CycleIsThere
  <2>1. PICK S \in SUBSET (cache \cup active) : Cyclic(S)
    BY DEF GraphInv, CycleIsThere
  <2> QED BY <1>0, <2>1
<1>2. FinishedIsClosed'
  <2> SUFFICES ASSUME "circular" \notin errors', NEW m \in Fin' PROVE Needs(m)' \subseteq Done'
    BY DEF FinishedIsClosed
  <2>1. m \in Fin /\ Needs(m) \subseteq Done
    BY DEF GraphInv, FinishedIsClosed
  <2> QED BY <1>0, <2>1, DoneGrows
<1>3. FinishedNoCycle'
  BY <1>0 DEF GraphInv, FinishedNoCycle
<1>4. FinishedIsLinked'
  <2> SUFFICES ASSUME errors' = {}, NEW m \in Fin'
               PROVE  /\ LinkedInOrder(imported[m], m, "import")'
                      /\ LinkedInOrder(exported[m], m, "export")'
    BY DEF FinishedIsLinked
  <2>1. /\ m \in Fin
        /\ LinkedInOrder(imported[m], m, "import") /\ LinkedInOrder(exported[m], m, "export")
    BY DEF GraphInv, FinishedIsLinked
  <2>2. imported'[m] = imported[m] /\ exported'[m] = exported[m]
    BY <2>1
  <2>3. ASSUME NEW s, NEW t, s = imported[m], t = exported[m]
        PROVE  LinkedInOrder(s, m, "import")' /\ LinkedInOrder(t, m, "export")'
    BY <1>0, <2>1, <2>3
  <2> QED BY <2>2, <2>3 DEF LinkedInOrder
<1> QED BY <1>1, <1>2, <1>3, <1>4

-----------------------------------------------------------------------------
\* The cycle that is found

\* What a call loads next, in whatever phase, its text needs.
LEMMA AgendaIsNeeded ==
  ASSUME directives \in [Modules -> Seq(Directive)],
         NEW f \in Frames, TextRead(f), f.next \in DOMAIN Agenda(f)
  PROVE  Agenda(f)[f.next].of \in Needs(f.mod)
<1>1. /\ f.mod \in Modules /\ f.phase \in Phases /\ f.next \in Nat \ {0}
      /\ f.rawImports \in Seq(Directive) /\ f.rawExports \in Seq(Directive)
  BY FrameFields
<1>2. Len(directives[f.mod]) \in Nat /\ DOMAIN directives[f.mod] = 1 .. Len(directives[f.mod])
  BY <1>1, LenProperties
<1>3. f.next \in 1 .. Len(Agenda(f)) /\ Len(Agenda(f)) \in Nat
  BY AgendaType, LenProperties
<1>4. ASSUME NEW raw, NEW kind, Notes(raw, f.mod, kind, Len(directives[f.mod]) + 1),
             NEW k \in 1 .. Len(raw)
      PROVE  raw[k].of \in Needs(f.mod)
  <2>1. raw[k] \in ReadBefore(f.mod, kind, Len(directives[f.mod]) + 1)
    BY <1>4 DEF Notes, Upto
  <2>2. \A j \in 1 .. (Len(directives[f.mod]) + 1) - 1 : j \in DOMAIN directives[f.mod]
    BY <1>2
  <2>3. \E j \in DOMAIN directives[f.mod] : raw[k] = directives[f.mod][j]
    BY <2>1, <2>2 DEF ReadBefore
  <2> QED BY <2>3 DEF Needs
<1>5. CASE f.phase = "prelude"
  <2>1. Agenda(f)[f.next].of = Prelude
    <3>1. Agenda(f) = <<[kind |-> "import", of |-> Prelude]>>
      BY <1>5 DEF Agenda
    <3>2. Len(Agenda(f)) = 1
      BY <3>1
    <3>3. f.next = 1
      BY <1>3, <3>2
    <3> QED BY <3>1, <3>3
  <2>2. f.mod \notin InPrelude
    BY <1>5 DEF TextRead
  <2> QED BY <2>1, <2>2 DEF Needs
<1>6. CASE f.phase = "parse"
  <2>1. Agenda(f) = directives[f.mod]
    BY <1>6 DEF Agenda
  <2> QED BY <1>2, <1>3, <2>1 DEF Needs
<1>7. CASE f.phase = "imports"
  <2>1. Agenda(f) = f.rawImports
    BY <1>7 DEF Agenda
  <2>2. Notes(f.rawImports, f.mod, "import", Len(directives[f.mod]) + 1)
    BY <1>7 DEF TextRead, Position
  <2> QED BY <1>3, <1>4, <2>1, <2>2
<1>8. CASE f.phase = "exports"
  <2>1. Agenda(f) = f.rawExports
    BY <1>8 DEF Agenda
  <2>2. Notes(f.rawExports, f.mod, "export", Len(directives[f.mod]) + 1)
    BY <1>8 DEF TextRead, Position
  <2> QED BY <1>3, <1>4, <2>1, <2>2
<1> QED BY <1>1, <1>5, <1>6, <1>7, <1>8 DEF Phases

\* The calls from that of the module in question on
LEMMA ActiveIsOnCycle ==
  ASSUME IInv, CallsInv, Loading, Target \in active
  PROVE  \E S \in SUBSET (cache \cup active) : Cyclic(S)
<1> DEFINE n == Len(stack)
<1>1. n \in Nat /\ n \in Calls /\ stack[n] = Top /\ stack \in Seq(Frames)
  BY TopType DEF IInv, TypeOK, Loading
<1>2. PICK j \in Calls : stack[j].mod = Target
  BY DEF IInv, Shape, ActiveAreCalled
<1>3. ASSUME NEW i \in Calls PROVE stack[i] \in Frames /\ stack[i].mod \in active
  BY <1>1, ElementOfSeq DEF Calls, IInv, Shape, ActiveAreCalled
<1>4. Target \in Needs(stack[n].mod)
  <2>1. Top.next \in DOMAIN Agenda(Top)
    BY LoadingTarget DEF IInv
  <2>2. Top \in Frames /\ TextRead(Top)
    BY <1>1, <1>3 DEF CallsInv, CallInv
  <2> QED BY <1>1, <2>1, <2>2, AgendaIsNeeded DEF Target, IInv, TypeOK
<1>5. ASSUME NEW i \in Calls, i + 1 \in Calls PROVE stack[i + 1].mod \in Needs(stack[i].mod)
  <2>1. WaitsFor(stack[i], stack[i + 1])
    BY <1>5 DEF IInv, Shape, Waiting
  <2>2. stack[i] \in Frames /\ TextRead(stack[i])
    BY <1>3 DEF CallsInv, CallInv
  <2> QED BY <2>1, <2>2, AgendaIsNeeded DEF WaitsFor, IInv, TypeOK
<1> DEFINE S == {stack[i].mod : i \in j .. n}
<1>6. j .. n \subseteq Calls /\ j \in j .. n
  BY <1>1 DEF Calls
<1>7. S \subseteq cache \cup active
  BY <1>3, <1>6
<1>8. \A i \in j .. n : Needs(stack[i].mod) \cap S # {}
  <2> TAKE i \in j .. n
  <2>1. CASE i = n
    BY <1>2, <1>4, <1>6, <2>1
  <2>2. CASE i # n
    <3>1. i + 1 \in j .. n
      BY <1>1, <1>6, <2>2 DEF Calls
    <3>2. stack[i + 1].mod \in Needs(stack[i].mod) /\ stack[i + 1].mod \in S
      BY <1>5, <1>6, <3>1
    <3> QED BY <3>2
  <2> QED BY <2>1, <2>2
<1>9. Cyclic(S)
  <2>1. stack[j].mod \in S
    BY <1>6
  <2> QED BY <1>8, <2>1 DEF Cyclic
<1> QED BY <1>7, <1>9

-----------------------------------------------------------------------------
\* Steps

\* A load that enters no call
LEMMA DeliverGraph ==
  ASSUME IInv, GraphInv, Loading, NEW m \in Modules \cup {None}, stack' = Deliver(stack, m),
         UNCHANGED <<directives, cache, active, imported, exported>>,
         errors \subseteq errors',
         "circular" \in errors' =>
           "circular" \in errors \/ \E S \in SUBSET (cache \cup active) : Cyclic(S),
         "circular" \notin errors' => Target \in Done',
         errors' = {} => m = Target
  PROVE  GraphInv'
<1> DEFINE g == Received(Top, m)
           n == Len(stack)
<1>1. Top \in Frames /\ Top.next \in DOMAIN Agenda(Top) /\ Agenda(Top)[Top.next].of = Target
      /\ stack # <<>> /\ n \in Calls /\ stack[n] = Top
      /\ directives \in [Modules -> Seq(Directive)]
  BY LoadingTarget, TopType DEF IInv, TypeOK, Loading
<1>2. g \in Frames /\ g.mod = Top.mod /\ g.phase = Top.phase
  BY <1>1, ReceivedType
<1>3. stack' = [stack EXCEPT ![n] = g]
  BY <1>1 DEF Deliver, Top
<1>4. Calls' = Calls /\ stack'[n] = g /\ \A i \in Calls : i # n => stack'[i] = stack[i]
  <2> HIDE DEF g
  <2> QED BY <1>1, <1>2, <1>3, TopChanges
<1>5. Fin' = Fin /\ directives' = directives /\ imported' = imported /\ exported' = exported
  BY DEF Fin
<1>6. CallInv(Top) /\ CallsInv
  BY <1>1 DEF GraphInv, CallsInv
<1>7. ASSUME NEW h, h = g PROVE CallInv(h)'
  <2>0. PICK f \in Frames : f = Top
    BY <1>1
  <2>1. /\ f.next \in DOMAIN Agenda(f) /\ TextRead(f) /\ h = Received(f, m)
        /\ Agenda(f)[f.next].of = Target
    BY <1>1, <1>6, <1>7, <2>0 DEF CallInv
  <2>2. TextRead(h)
    BY <1>1, <2>1, TextReceived
  <2>3. ASSUME NEW W, W = Done', "circular" \notin errors' PROVE Loaded(h, W)
    <3>1. Loaded(f, Done)
      BY <1>6, <2>0, <2>3 DEF CallInv
    <3>2. Done \subseteq W
      BY <1>5, <2>3, DoneGrows
    <3>3. Loaded(f, W)
      BY <3>1, <3>2 DEF Loaded
    <3>4. Agenda(f)[f.next].of \in W
      BY <2>1, <2>3
    <3> QED BY <1>1, <2>1, <3>3, <3>4, LoadedReceived
  <2>4. ASSUME errors' = {} PROVE Listed(h)
    <3>1. Listed(f) /\ m = Agenda(f)[f.next].of
      BY <1>6, <2>0, <2>1, <2>4 DEF CallInv
    <3>2. m \in Modules
      <4>1. Target \in Modules \cup Missing
        BY LoadingTarget DEF IInv
      <4> QED BY <2>4, <4>1, ModulesAssumption
    <3> QED BY <1>1, <2>1, <3>1, <3>2, ListedReceived
  <2>5. ASSUME errors' = {}, h.phase = "exports"
        PROVE  LinkedInOrder(imported'[h.mod], h.mod, "import")
    BY <1>2, <1>5, <1>6, <1>7, <2>5 DEF CallInv
  <2> HIDE DEF g
  <2> QED BY <1>5, <2>2, <2>3, <2>4, <2>5, CallInvAfter
<1>8. CallsInv'
  <2> HIDE DEF g
  <2>1. \A i \in Calls' :
           \/ /\ i \in Calls /\ stack'[i] = stack[i]
              /\ stack[i].phase = "exports" => imported'[stack[i].mod] = imported[stack[i].mod]
           \/ \A h : h = stack'[i] => CallInv(h)'
    BY <1>4, <1>5, <1>7
  <2> QED BY <1>5, <1>6, <2>1, CallsInvAfter
<1>9. CycleIsThere' /\ FinishedIsClosed' /\ FinishedNoCycle' /\ FinishedIsLinked'
  BY <1>5, GraphStays
<1> QED BY <1>8, <1>9 DEF GraphInv

\* The innermost call goes on to its next phase.
LEMMA TurnGraph ==
  ASSUME IInv, GraphInv, PhaseOver, NEW phase,
         <<Top.phase, phase>> \in {<<"prelude", "parse">>, <<"parse", "imports">>,
                                   <<"imports", "exports">>},
         stack' = Turn(phase), UNCHANGED <<directives, active, errors, exported>>,
         cache \subseteq cache', cache' \subseteq cache \cup {Top.mod},
         imported' = IF phase = "exports" THEN [imported EXCEPT ![Top.mod] = Top.imports]
                                          ELSE imported
  PROVE  GraphInv'
<1> DEFINE g == [Top EXCEPT !.phase = phase, !.next = 1]
           n == Len(stack)
<1>1. /\ Top \in Frames /\ n \in Calls /\ stack[n] = Top /\ stack # <<>>
      /\ directives \in [Modules -> Seq(Directive)] /\ imported \in [Modules -> Seq(Modules)]
  BY TopType DEF IInv, TypeOK, PhaseOver
<1>2. Top.mod \in Modules /\ Top.mod \in active /\ Top.imports \in Seq(Modules)
  BY <1>1 DEF Frames, IInv, Shape, ActiveAreCalled
<1>3. CallInv(Top) /\ CallsInv
  BY <1>1 DEF GraphInv, CallsInv
<1>4. g \in Frames /\ g.mod = Top.mod
  <2>1. ASSUME NEW f \in Frames
        PROVE  LET h == [f EXCEPT !.phase = phase, !.next = 1] IN h \in Frames /\ h.mod = f.mod
    <3>1. 1 \in Nat \ {0} /\ phase \in Phases
      BY DEF Phases
    <3> QED BY <3>1 DEF Frames
  <2> QED BY <1>1, <2>1
<1>5. stack' = [stack EXCEPT ![n] = g]
  BY DEF Turn, Top
<1>6. /\ Calls' = Calls /\ stack'[n] = g
      /\ \A i \in Calls : i # n => stack'[i] = stack[i] /\ stack[i].mod # Top.mod
  <2> HIDE DEF g
  <2>1. /\ Calls' = Calls /\ stack'[n] = g
        /\ \A i \in Calls : i # n => stack'[i] = stack[i]
    BY <1>1, <1>4, <1>5, TopChanges
  <2> QED BY <1>1, <2>1 DEF IInv, Shape, OnePerModule
<1>7. Fin' = Fin /\ directives' = directives /\ errors' = errors /\ exported' = exported
  BY <1>2 DEF Fin
<1>8. \A m : m # Top.mod => imported'[m] = imported[m]
  BY <1>1, <1>2
<1>9. ASSUME NEW h, h = g PROVE CallInv(h)'
  <2>0. PICK f \in Frames : f = Top
    BY <1>1
  <2>1. TextRead(f) /\ Over(f)
    <3>1. TextRead(f)
      BY <1>3, <2>0 DEF CallInv
    <3>2. Len(Agenda(f)) \in Nat /\ f.next \in Nat
      BY <1>1, AgendaType, FrameFields, LenProperties
    <3>3. f.next > Len(Agenda(f)) /\ f.next \in 1 .. Len(Agenda(f)) + 1
      BY <2>0, <3>1 DEF PhaseOver, TextRead
    <3> QED BY <3>1, <3>2, <3>3 DEF Over
  <2>2. h = [f EXCEPT !.phase = phase, !.next = 1]
    BY <1>9, <2>0
  <2>3. /\ TextRead(h) /\ (\A W : Loaded(f, W) => Loaded(h, W)) /\ (Listed(f) => Listed(h))
        /\ Listed(f) /\ phase = "exports" => LinkedInOrder(f.imports, f.mod, "import")
    <3>1. Follows(f, phase) /\ h = Turned(f, phase)
      BY <2>0, <2>2 DEF Follows, Turned
    <3> QED BY <1>1, <2>1, <3>1, CallTurns
  <2>4. ASSUME NEW W, W = Done', "circular" \notin errors' PROVE Loaded(h, W)
    <3>1. Loaded(f, Done)
      BY <1>3, <1>7, <2>0, <2>4 DEF CallInv
    <3>2. Done \subseteq W
      BY <1>7, <2>4, DoneGrows
    <3>3. Loaded(f, W)
      BY <3>1, <3>2 DEF Loaded
    <3> QED BY <2>3, <3>3
  <2>5. errors' = {} => Listed(h)
    BY <1>3, <1>7, <2>0, <2>3 DEF CallInv
  <2>6. ASSUME errors' = {}, h.phase = "exports", NEW s, s = imported'[h.mod]
        PROVE  LinkedInOrder(s, h.mod, "import")
    <3>1. h.phase = phase /\ h.mod = f.mod
      BY <2>2 DEF Frames
    <3>2. s = f.imports
      BY <1>1, <1>2, <2>0, <2>6, <3>1
    <3>3. Listed(f)
      BY <1>3, <1>7, <2>0, <2>6 DEF CallInv
    <3> QED BY <2>3, <2>6, <3>1, <3>2, <3>3
  <2> HIDE DEF g
  <2> QED BY <1>7, <2>3, <2>4, <2>5, <2>6, CallInvAfter
<1>10. CallsInv'
  <2> HIDE DEF g
  <2>1. \A i \in Calls' :
           \/ /\ i \in Calls /\ stack'[i] = stack[i]
              /\ stack[i].phase = "exports" => imported'[stack[i].mod] = imported[stack[i].mod]
           \/ \A h : h = stack'[i] => CallInv(h)'
    BY <1>6, <1>8, <1>9
  <2> QED BY <1>3, <1>7, <2>1, CallsInvAfter
<1>11. CycleIsThere' /\ FinishedIsClosed' /\ FinishedNoCycle' /\ FinishedIsLinked'
  <2>1. \A m \in Fin : imported'[m] = imported[m] /\ exported'[m] = exported[m]
    BY <1>2, <1>7, <1>8 DEF Fin
  <2>2. "circular" \in errors' =>
          "circular" \in errors \/ \E S \in SUBSET (cache \cup active) : Cyclic(S)
    BY <1>7
  <2>3. errors \subseteq errors' /\ cache \cup active \subseteq cache' \cup active'
    BY <1>7
  <2> QED BY <1>7, <2>1, <2>2, <2>3, GraphStays
<1> QED BY <1>10, <1>11 DEF GraphInv

\* A load that enters a module
LEMMA EnterGraph ==
  ASSUME IInv, GraphInv, NEW m \in Modules, m \notin cache \cup active, Enter(m)
  PROVE  GraphInv'
<1> DEFINE n == Len(stack)
           g == Frame(m)
<1>1. /\ n \in Nat /\ Calls = 1 .. n /\ Calls' = 1 .. n + 1
      /\ stack'[n + 1] = g /\ \A i \in 1 .. n : stack'[i] = stack[i]
  <2>1. g \in Frames
    BY FrameType
  <2> DEFINE q == Append(stack, g)
  <2>2. /\ Len(q) = n + 1 /\ n \in Nat
        /\ q[n + 1] = g /\ \A i \in 1 .. n : q[i] = stack[i]
    BY <2>1, PushedCalls DEF IInv, TypeOK
  <2>3. stack' = q
    BY DEF Enter
  <2> HIDE DEF q, g
  <2> QED BY <2>2, <2>3 DEF Calls
<1>2. /\ active' = active \cup {m}
      /\ UNCHANGED <<directives, cache, errors, imported, exported>>
  BY DEF Enter
<1>3. Fin' = Fin
  BY <1>2 DEF Fin
<1>4. ASSUME NEW h, h = g PROVE CallInv(h)'
  <2>1. TextRead(h) /\ Listed(h) /\ \A W : Loaded(h, W)
    BY <1>4, FrameBegins DEF IInv, TypeOK
  <2>2. h.phase # "exports"
    BY <1>4 DEF Frame
  <2> HIDE DEF g
  <2> QED BY <1>2, <2>1, <2>2, CallInvAfter
<1> HIDE DEF g, n
<1>5. CallsInv'
  <2>1. \A i \in Calls' : i \in 1 .. n \/ i = n + 1
    BY <1>1
  <2>2. \A i \in Calls' :
           \/ /\ i \in Calls /\ stack'[i] = stack[i]
              /\ stack[i].phase = "exports" => imported'[stack[i].mod] = imported[stack[i].mod]
           \/ \A h : h = stack'[i] => CallInv(h)'
    BY <1>1, <1>2, <1>4, <2>1
  <2> QED BY <1>2, <1>3, <2>2, CallsInvAfter DEF GraphInv
<1>6. CycleIsThere' /\ FinishedIsClosed' /\ FinishedNoCycle' /\ FinishedIsLinked'
  BY <1>2, <1>3, GraphStays
<1> QED BY <1>5, <1>6 DEF GraphInv

\* A call that ends: its module needs only modules whose load is over, itself not
\* among them, so that it lies on no cycle.
LEMMA ReturnGraph == ASSUME IInv, GraphInv, Return PROVE GraphInv'
<1> DEFINE n == Len(stack)
           k == n - 1
           m == Top.mod
<1>1. /\ active' = active \ {m} /\ UNCHANGED <<directives, cache, errors, imported>>
      /\ exported' = [exported EXCEPT ![m] = Top.exports] /\ PhaseOver /\ Top.phase = "exports"
  BY DEF Return
<1>2. /\ Top \in Frames /\ stack[n] = Top /\ n \in Calls
      /\ m \in Modules /\ m \in cache /\ m \in active
      /\ k \in Nat /\ n = k + 1 /\ Calls = 1 .. n /\ Calls' = 1 .. k
  BY ReturnCalls
<1>3. \A i \in 1 .. k :
        /\ i \in Calls /\ i # n /\ stack[i] \in Frames /\ stack[i].mod # m
        /\ i # k => stack'[i] = stack[i]
        /\ i = k => stack'[i] = Received(stack[i], m) /\ WaitsFor(stack[i], Top)
        /\ stack'[i].mod = stack[i].mod /\ stack'[i].phase = stack[i].phase
  BY ReturnCalls
<1> HIDE DEF k, n
<1>4. directives \in [Modules -> Seq(Directive)] /\ exported \in [Modules -> Seq(Modules)]
  BY DEF IInv, TypeOK
<1>5. Fin' = Fin \cup {m} /\ m \notin Fin /\ Fin \subseteq Modules
  BY <1>1, <1>2 DEF Fin, IInv, TypeOK
<1>6. /\ directives' = directives /\ errors' = errors /\ imported' = imported
      /\ Fin \subseteq Fin' /\ errors \subseteq errors'
  BY <1>1, <1>5
<1>7. TextRead(Top) /\ Over(Top)
  <2>0. PICK f \in Frames : f = Top
    BY <1>2
  <2>1. TextRead(f)
    BY <1>2, <2>0 DEF GraphInv, CallsInv, CallInv
  <2>2. Len(Agenda(f)) \in Nat /\ f.next \in Nat
    BY <1>4, AgendaType, FrameFields, LenProperties
  <2>3. f.next > Len(Agenda(f)) /\ f.next \in 1 .. Len(Agenda(f)) + 1
    BY <1>1, <2>0, <2>1 DEF PhaseOver, TextRead
  <2> QED BY <2>0, <2>1, <2>2, <2>3 DEF Over
<1>8. /\ \A W : Loaded(Top, W) => Needs(m) \subseteq W
      /\ Listed(Top) => LinkedInOrder(Top.exports, m, "export")
  BY <1>1, <1>2, <1>4, <1>7, CallEnds
<1>9. CallInv(Top)
  BY <1>2 DEF GraphInv, CallsInv
<1>10. "circular" \notin errors => Needs(m) \subseteq Done
  BY <1>8, <1>9 DEF CallInv
<1>11. /\ \A s, x, kind : LinkedInOrder(s, x, kind)' <=> LinkedInOrder(s, x, kind)
       /\ \A x : Needs(x)' = Needs(x)
       /\ \A S : Cyclic(S)' <=> Cyclic(S)
  BY <1>6, TextStays
\* The call below goes on.
<1>12. ASSUME NEW i \in 1 .. k, i = k, NEW h, h = stack'[i] PROVE CallInv(h)'
  <2>0. PICK f \in Frames : f = stack[i]
    BY <1>3
  <2>1. PICK y \in Modules : y = m
    BY <1>2
  <2>2. CallInv(f) /\ h = Received(f, y) /\ f.next \in DOMAIN Agenda(f)
        /\ Agenda(f)[f.next].of = y /\ h.mod = f.mod /\ h.phase = f.phase
    BY <1>3, <1>12, <2>0, <2>1 DEF WaitsFor, GraphInv, CallsInv
  <2>3. TextRead(f) /\ TextRead(h)
    BY <1>4, <2>2, TextReceived DEF CallInv
  <2>4. ASSUME NEW W, W = Done', "circular" \notin errors' PROVE Loaded(h, W)
    <3>1. Loaded(f, Done)
      BY <1>6, <2>2, <2>4 DEF CallInv
    <3>2. Done \subseteq W
      BY <1>6, <2>4, DoneGrows
    <3>3. Loaded(f, W)
      BY <3>1, <3>2 DEF Loaded
    <3>4. y \in W
      BY <1>5, <2>1, <2>4 DEF Done
    <3> QED BY <1>4, <2>2, <2>3, <3>3, <3>4, LoadedReceived
  <2>5. ASSUME errors' = {} PROVE Listed(h)
    <3>1. Listed(f)
      BY <1>6, <2>2, <2>5 DEF CallInv
    <3> QED BY <1>4, <2>2, <2>3, <3>1, ListedReceived
  <2>6. errors' = {} /\ h.phase = "exports" => LinkedInOrder(imported'[h.mod], h.mod, "import")
    BY <1>6, <2>2 DEF CallInv
  <2> QED BY <1>6, <2>3, <2>4, <2>5, <2>6, CallInvAfter
<1>13. CallsInv'
  <2>1. \A i \in Calls' :
           \/ /\ i \in Calls /\ stack'[i] = stack[i]
              /\ stack[i].phase = "exports" => imported'[stack[i].mod] = imported[stack[i].mod]
           \/ \A h : h = stack'[i] => CallInv(h)'
    BY <1>2, <1>3, <1>6, <1>12
  <2> QED BY <1>6, <2>1, CallsInvAfter DEF GraphInv
<1> HIDE DEF m
<1>14. CycleIsThere'
  <2> SUFFICES ASSUME "circular" \in errors'
               PROVE  \E S \in SUBSET (cache' \cup active') : Cyclic(S)'
    BY DEF CycleIsThere
  <2>1. PICK S \in SUBSET (cache \cup active) : Cyclic(S)
    BY <1>6 DEF GraphInv, CycleIsThere
  <2>2. S \subseteq cache' \cup active'
    BY <1>1, <1>2
  <2> QED BY <1>11, <2>1, <2>2
<1>15. FinishedIsClosed'
  <2> SUFFICES ASSUME "circular" \notin errors', NEW x \in Fin' PROVE Needs(x)' \subseteq Done'
    BY DEF FinishedIsClosed
  <2>1. Needs(x) \subseteq Done
    BY <1>5, <1>6, <1>10 DEF GraphInv, FinishedIsClosed
  <2> QED BY <1>6, <1>11, <2>1, DoneGrows
<1>16. FinishedNoCycle'
  <2> SUFFICES ASSUME "circular" \notin errors', NEW S \in SUBSET Fin', Cyclic(S) PROVE FALSE
    BY <1>11 DEF FinishedNoCycle
  <2>1. \A x \in S : Needs(x) \subseteq Done
    BY <1>5, <1>6, <1>10 DEF GraphInv, FinishedIsClosed
  <2>2. \A x \in S : \E y \in S : y \in Needs(x) /\ y \in Fin
    <3> TAKE x \in S
    <3>1. PICK y \in S : y \in Needs(x)
      BY DEF Cyclic
    <3>2. y \in Done /\ y \in Modules
      BY <1>2, <1>5, <2>1, <3>1
    <3>3. y \in Fin
      BY <3>2, ModulesAssumption DEF Done, Absent
    <3> QED BY <3>1, <3>3
  <2> DEFINE T == S \cap Fin
  <2>3. T # {} /\ \A x \in T : Needs(x) \cap T # {}
    BY <2>2 DEF Cyclic
  <2>4. T \in SUBSET Fin /\ Cyclic(T)
    BY <2>3 DEF Cyclic
  <2> QED BY <1>6, <2>4 DEF GraphInv, FinishedNoCycle
<1>17. FinishedIsLinked'
  <2> SUFFICES ASSUME errors' = {}, NEW x \in Fin', NEW s, NEW t,
                      s = imported'[x], t = exported'[x]
               PROVE  LinkedInOrder(s, x, "import")' /\ LinkedInOrder(t, x, "export")'
    BY DEF FinishedIsLinked
  <2>1. CASE x \in Fin
    <3>1. LinkedInOrder(imported[x], x, "import") /\ LinkedInOrder(exported[x], x, "export")
      BY <1>6, <2>1 DEF GraphInv, FinishedIsLinked
    <3>2. s = imported[x] /\ t = exported[x]
      BY <1>1, <1>4, <1>5, <1>6, <2>1
    <3> QED BY <1>11, <3>1, <3>2
  <2>2. CASE x = m
    <3>1. LinkedInOrder(imported[m], m, "import") /\ LinkedInOrder(Top.exports, m, "export")
      BY <1>1, <1>6, <1>8, <1>9 DEF CallInv, m
    <3>2. s = imported[m] /\ t = Top.exports
      BY <1>1, <1>2, <1>4, <1>6, <2>2
    <3> QED BY <1>11, <2>2, <3>1, <3>2
  <2> QED BY <1>5, <2>1, <2>2
<1> QED BY <1>13, <1>14, <1>15, <1>16, <1>17 DEF GraphInv

-----------------------------------------------------------------------------
LEMMA InitGraph == Init => GraphInv
<1> SUFFICES ASSUME Init PROVE GraphInv
  OBVIOUS
<1>1. Calls = {} /\ Fin = {} /\ errors = {}
  BY EmptySeq DEF Init, Calls, Fin
<1>2. \A S \in SUBSET {} : ~Cyclic(S)
  BY DEF Cyclic
<1> QED BY <1>1, <1>2 DEF GraphInv, CallsInv, CycleIsThere, FinishedIsClosed, FinishedNoCycle,
                          FinishedIsLinked

LEMMA NextGraph == ASSUME IInv, GraphInv, [Next]_vars PROVE GraphInv'
<1>1. ASSUME NEW m \in Modules, LoadRoot(m) PROVE GraphInv'
  BY <1>1, EnterGraph DEF LoadRoot
<1>2. CASE LoadCached
  <2>1. Loading /\ Target \in cache /\ Target \in Modules
    BY <1>2 DEF LoadCached, IInv, TypeOK
  <2>2. "circular" \notin errors' => Target \in Done'
    <3>1. ReturnedAreLinked
      BY IInvImplies
    <3>2. "circular" \notin errors => Target \in Fin
      BY <2>1, <3>1 DEF ReturnedAreLinked, Fin
    <3> QED BY <1>2, <3>2 DEF LoadCached, Done, Fin
  <2> QED BY <1>2, <2>1, <2>2, DeliverGraph DEF LoadCached
<1>3. CASE LoadActive
  <2>1. \E S \in SUBSET (cache \cup active) : Cyclic(S)
    BY <1>3, ActiveIsOnCycle DEF LoadActive, Circular, GraphInv
  <2>2. "circular" \in errors'
    BY <1>3 DEF LoadActive, Fails
  <2> QED BY <1>3, <2>1, <2>2, DeliverGraph DEF LoadActive, Fails
<1>4. CASE LoadMissing
  <2>1. Target \in Done'
    BY <1>4 DEF LoadMissing, Fails, Done, Absent
  <2>2. "circular" \in errors' => "circular" \in errors
    BY <1>4 DEF LoadMissing, Fails
  <2>3. errors' # {}
    BY <1>4 DEF LoadMissing, Fails
  <2> QED BY <1>4, <2>1, <2>2, <2>3, DeliverGraph DEF LoadMissing, Fails
<1>5. CASE LoadNew
  BY <1>5, EnterGraph DEF LoadNew
<1>6. CASE PreludeLoaded
  BY <1>6, TurnGraph DEF PreludeLoaded
<1>7. CASE EndParse
  BY <1>7, TurnGraph DEF EndParse
<1>8. CASE LinkImports
  BY <1>8, TurnGraph DEF LinkImports
<1>9. CASE Return
  BY <1>9, ReturnGraph
<1>10. CASE UNCHANGED vars
  <2>1. UNCHANGED <<directives, stack, cache, active, errors, imported, exported>>
    BY <1>10 DEF vars
  <2>2. Calls' = Calls /\ Fin' = Fin /\ Calls \subseteq Calls'
    BY <2>1 DEF Calls, Fin
  <2>3. CallsInv'
    BY <2>1, <2>2, CallsInvAfter DEF GraphInv
  <2>4. CycleIsThere' /\ FinishedIsClosed' /\ FinishedNoCycle' /\ FinishedIsLinked'
    BY <2>1, <2>2, GraphStays
  <2> QED BY <2>3, <2>4 DEF GraphInv
<1> QED BY <1>1, <1>2, <1>3, <1>4, <1>5, <1>6, <1>7, <1>8, <1>9, <1>10 DEF Next

LEMMA GraphInvariance == Spec => [](IInv /\ GraphInv)
<1>1. Init => IInv /\ GraphInv
  BY InitIInv, InitGraph
<1>2. IInv /\ GraphInv /\ [Next]_vars => IInv' /\ GraphInv'
  BY NextIInv, NextGraph
<1> QED BY <1>1, <1>2, PTL DEF Spec

\* With no call under way every load is over.
LEMMA AtRestAllIsOver == ASSUME IInv, stack = <<>> PROVE active = {} /\ Fin = cache
<1>1. Calls = {}
  BY EmptySeq DEF Calls
<1>2. active = {}
  BY <1>1 DEF IInv, Shape, ActiveAreCalled
<1> QED BY <1>2 DEF Fin

(***************************************************************************)
(* The module loader reports a circular import exactly when the modules it *)
(* has loaded contain one, whichever way it is entered and whether it      *)
(* closes over imports, exports or the prelude.                            *)
(***************************************************************************)
THEOREM CyclesAreFound == Spec => []CyclesAreReported
<1>1. ASSUME IInv, GraphInv PROVE CyclesAreReported
  <2> SUFFICES ASSUME AllLoaded
               PROVE  "circular" \in errors <=> \E S \in SUBSET cache : Cyclic(S)
    BY DEF CyclesAreReported
  <2>1. active = {} /\ Fin = cache
    BY <1>1, AtRestAllIsOver DEF AllLoaded
  <2> QED BY <1>1, <2>1 DEF GraphInv, CycleIsThere, FinishedNoCycle
<1> QED BY <1>1, GraphInvariance, PTL

(***************************************************************************)
(* When the loader reports nothing, every module that is needed has been   *)
(* loaded, and each is linked to what its text imports and exports, once   *)
(* and in the text's order, the prelude first.                             *)
(***************************************************************************)
THEOREM AcceptedIsLinked == Spec => []AcceptedIsComplete
<1>1. ASSUME IInv, GraphInv PROVE AcceptedIsComplete
  <2> SUFFICES ASSUME AllLoaded, errors = {}, NEW m \in cache
               PROVE  /\ Needs(m) \subseteq cache
                      /\ LinkedInOrder(imported[m], m, "import")
                      /\ LinkedInOrder(exported[m], m, "export")
    BY DEF AcceptedIsComplete
  <2>1. active = {} /\ Fin = cache
    BY <1>1, AtRestAllIsOver DEF AllLoaded
  <2>2. Done = cache
    BY <2>1 DEF Done, Absent
  <2> QED BY <1>1, <2>1, <2>2 DEF GraphInv, FinishedIsClosed, FinishedIsLinked
<1> QED BY <1>1, GraphInvariance, PTL
=============================================================================
