---------------------------- MODULE ModuleImports ----------------------------
(***************************************************************************)
(* ModuleLoader::loadModule and the parser that calls it back.             *)
(*                                                                         *)
(* A load that finds neither a finished module nor one that is being       *)
(* loaded opens the file, loads the prelude, and parses.  The parser loads *)
(* every module named by an import or export directive as it reads it and  *)
(* drops the result; when it has finished the module is entered in the     *)
(* cache, and the imports and then the exports are loaded once more, this  *)
(* time to be linked to the module.                                        *)
(***************************************************************************)
EXTENDS Naturals, FiniteSets, SequencesExt

CONSTANTS
  Modules,   \* canonical paths of files that exist
  Missing,   \* URIs that resolve to no file, or to one that cannot be read
  Prelude,   \* the prelude's entry module
  InPrelude, \* the modules below the prelude's directory
  Roots,     \* the files the compiler is asked to compile
  None

ASSUME ModulesAssumption ==
  /\ InPrelude \subseteq Modules /\ Prelude \in InPrelude
  /\ Roots \subseteq Modules
  /\ Missing \cap Modules = {} /\ None \notin Modules \cup Missing

VARIABLES
  directives,  \* [module -> the import and export directives of its text]
  stack,       \* the calls of loadModule under way, innermost last
  cache,       \* moduleCache
  active,      \* activeImports
  errors,      \* what has been reported
  imported,    \* [module -> importedModules]
  exported     \* [module -> exportedModules]

vars == <<directives, stack, cache, active, errors, imported, exported>>

Directive == [kind : {"import", "export"}, of : Modules \cup Missing]
Phases    == {"prelude", "parse", "imports", "exports"}

\* A call of loadModule: what it does and which load comes next; rawImports and
\* rawExports of the module it parses; the modules it has resolved them to
Frames == [mod : Modules, phase : Phases, next : Nat \ {0},
           rawImports : Seq(Directive), rawExports : Seq(Directive),
           imports : Seq(Modules), exports : Seq(Modules)]

Frame(m) == [mod |-> m, phase |-> IF m \in InPrelude THEN "parse" ELSE "prelude",
             next |-> 1, rawImports |-> <<>>, rawExports |-> <<>>,
             imports |-> <<>>, exports |-> <<>>]

Init ==
  /\ directives \in [Modules -> Seq(Directive)]
  /\ stack = <<>> /\ cache = {} /\ active = {} /\ errors = {}
  /\ imported = [m \in Modules |-> <<>>]
  /\ exported = [m \in Modules |-> <<>>]

----------------------------------------------------------------------------
Top == stack[Len(stack)]

\* What the innermost call still has to load in its phase
Agenda(f) ==
  CASE f.phase = "prelude" -> <<[kind |-> "import", of |-> Prelude]>>
    [] f.phase = "parse"   -> directives[f.mod]
    [] f.phase = "imports" -> f.rawImports
    [] f.phase = "exports" -> f.rawExports

Loading   == stack # <<>> /\ Top.next <= Len(Agenda(Top))
Target    == Agenda(Top)[Top.next].of
PhaseOver == stack # <<>> /\ Top.next > Len(Agenda(Top))

Added(s, m) == IF \E i \in DOMAIN s : s[i] = m THEN s ELSE Append(s, m)

\* The parser notes a directive and has its module loaded.
Noted(s, f, kind) ==
  IF f.phase = "parse" /\ Agenda(f)[f.next].kind = kind THEN Append(s, Agenda(f)[f.next]) ELSE s

\* mutant: the prelude is loaded but not imported
WithoutPrelude(f, m) ==
  [f EXCEPT !.next = @ + 1,
            !.rawImports = Noted(@, f, "import"), !.rawExports = Noted(@, f, "export"),
            !.imports = IF m # None /\ f.phase = "imports" THEN Added(@, m) ELSE @,
            !.exports = IF m # None /\ f.phase = "exports" THEN Added(@, m) ELSE @]
\* A call continues with what the load it waited for returned.
Received(f, m) ==
  [f EXCEPT !.next = @ + 1,
            !.rawImports = Noted(@, f, "import"), !.rawExports = Noted(@, f, "export"),
            !.imports = IF m # None /\ f.phase \in {"prelude", "imports"} THEN Added(@, m) ELSE @,
            !.exports = IF m # None /\ f.phase = "exports" THEN Added(@, m) ELSE @]

Deliver(s, m) == IF s = <<>> THEN s ELSE [s EXCEPT ![Len(s)] = Received(@, m)]

\* mutant: the module is cached before it is parsed
EnterCached(m) ==
  /\ stack' = Append(stack, Frame(m))
  /\ active' = active \cup {m} /\ cache' = cache \cup {m}
  /\ UNCHANGED <<directives, errors, imported, exported>>
Enter(m) ==
  /\ stack' = Append(stack, Frame(m))
  /\ active' = active \cup {m}
  /\ UNCHANGED <<directives, cache, errors, imported, exported>>

\* The driver loads its entry files one after the other.
LoadRoot(m) == stack = <<>> /\ m \in Roots \ (cache \cup active) /\ Enter(m)

LoadCached ==
  /\ Loading /\ Target \in cache
  /\ stack' = Deliver(stack, Target)
  /\ UNCHANGED <<directives, cache, active, errors, imported, exported>>

\* mutant: a load fails without a word
FailsSilently(error) ==
  /\ stack' = Deliver(stack, None)
  /\ UNCHANGED <<directives, cache, active, errors, imported, exported>>
Fails(error) ==
  /\ errors' = errors \cup {error}
  /\ stack' = Deliver(stack, None)
  /\ UNCHANGED <<directives, cache, active, imported, exported>>

Circular(m) == m \notin cache /\ m \in active
LoadActive  == Loading /\ Circular(Target) /\ Fails("circular")
LoadMissing == Loading /\ Target \in Missing /\ Fails("not found")

LoadNew == Loading /\ Target \in Modules \ (cache \cup active) /\ Enter(Target)

Turn(phase) ==
  [stack EXCEPT ![Len(stack)] = [@ EXCEPT !.phase = phase, !.next = 1]]

PreludeLoaded ==
  /\ PhaseOver /\ Top.phase = "prelude"
  /\ stack' = Turn("parse")
  /\ UNCHANGED <<directives, cache, active, errors, imported, exported>>

EndParse ==
  /\ PhaseOver /\ Top.phase = "parse"
  /\ cache' = cache \cup {Top.mod}
  /\ stack' = Turn("imports")
  /\ UNCHANGED <<directives, active, errors, imported, exported>>

LinkImports ==
  /\ PhaseOver /\ Top.phase = "imports"
  /\ imported' = [imported EXCEPT ![Top.mod] = Top.imports]
  /\ stack' = Turn("exports")
  /\ UNCHANGED <<directives, cache, active, errors, exported>>

Return ==
  /\ PhaseOver /\ Top.phase = "exports"
  /\ exported' = [exported EXCEPT ![Top.mod] = Top.exports]
  /\ active' = active \ {Top.mod}
  /\ stack' = Deliver(SubSeq(stack, 1, Len(stack) - 1), Top.mod)
  /\ UNCHANGED <<directives, cache, errors, imported>>

Next == \/ \E m \in Modules : LoadRoot(m)
        \/ LoadCached \/ LoadActive \/ LoadMissing \/ LoadNew
        \/ PreludeLoaded \/ EndParse \/ LinkImports \/ Return

Spec == Init /\ [][Next]_vars

----------------------------------------------------------------------------
TypeOK ==
  /\ directives \in [Modules -> Seq(Directive)]
  /\ stack \in Seq(Frames)
  /\ cache \subseteq Modules /\ active \subseteq Modules
  /\ errors \subseteq {"circular", "not found"}
  /\ imported \in [Modules -> Seq(Modules)] /\ exported \in [Modules -> Seq(Modules)]

(***************************************************************************)
(* A load never returns a module whose imports and exports are not linked  *)
(* yet, except to the module itself, whose import of itself has then been  *)
(* reported: although a module is in the cache before its imports are      *)
(* linked, nobody else can get hold of it in between.                      *)
(***************************************************************************)
ReturnedAreLinked ==
  Loading /\ Target \in cache /\ Target \in active
    => Target = Top.mod /\ "circular" \in errors

----------------------------------------------------------------------------
\* What the text of a module asks for, and what that needs in turn
Needs(m) == {directives[m][i].of : i \in DOMAIN directives[m]}
              \cup (IF m \in InPrelude THEN {} ELSE {Prelude})

\* Modules each of which needs one of them: in a finite graph there are such
\* modules exactly when there is a cycle.
Cyclic(S) == S # {} /\ \A m \in S : Needs(m) \cap S # {}

\* What a text has named before its i-th directive; the prelude comes first.
ReadBefore(m, kind, i) ==
  {directives[m][j] : j \in {l \in 1 .. i - 1 : directives[m][l].kind = kind}}
NamedBefore(m, kind, i) ==
  {d.of : d \in ReadBefore(m, kind, i)}
  \cup (IF i > 0 /\ kind = "import" /\ m \notin InPrelude THEN {Prelude} ELSE {})

\* Each module once, and first those the text names first: whatever s begins with
\* is what the text has named up to some point.
LinkedInOrder(s, m, kind) ==
  /\ IsInjective(s)
  /\ Range(s) = NamedBefore(m, kind, Len(directives[m]) + 1)
  /\ \A j \in 0 .. Len(s) : \E i \in 0 .. Len(directives[m]) + 1 :
       {s[l] : l \in 1 .. j} = NamedBefore(m, kind, i)

AllLoaded == stack = <<>> /\ Roots \subseteq cache

(***************************************************************************)
(* Circular imports are detected and rejected, whichever way the cycle is  *)
(* entered and whether it closes over imports, exports or the prelude, and *)
(* nothing else is reported as one.                                        *)
(***************************************************************************)
CyclesAreReported ==
  AllLoaded => ("circular" \in errors <=> \E S \in SUBSET cache : Cyclic(S))

(***************************************************************************)
(* Without an error every module that is needed has been loaded, and each  *)
(* is linked to all it imports and exports, once and in their order.       *)
(***************************************************************************)
AcceptedIsComplete ==
  AllLoaded /\ errors = {} =>
    \A m \in cache : /\ Needs(m) \subseteq cache
                     /\ LinkedInOrder(imported[m], m, "import")
                     /\ LinkedInOrder(exported[m], m, "export")
================================================================================
