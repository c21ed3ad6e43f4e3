----------------------------- MODULE MCToolchain -----------------------------
(***************************************************************************)
(* The steps before and beside type checking, in one run: a behaviour      *)
(* follows the module loader, the preprocessor, the formatter, the package *)
(* manager or the project builder, and the others keep still.              *)
(***************************************************************************)
EXTENDS MCModuleImports

CONSTANT Parts  \* what is followed

CONSTANTS PageWidth, MaxAttempts, Widths,          \* of the formatter
          Lines, Predefined,            \* of the preprocessor
          Names, Versions, AnyVersion, MaxGets     \* of the package manager

VARIABLES
  which,
  tree, queue, best, splitCache, attempts, splitPhase,
  source, blocks, macros, kept, complaints, over,
  manifest, unreadable, index, packages, todo, wanted, target, fetchPhase,
  failed, result, gets, leftOver,
  listed, unlisted, out, artifacts, building, step, tmp

formatVars == <<tree, queue, best, splitCache, attempts, splitPhase>>
sourceVars == <<source, blocks, macros, kept, complaints, over>>
fetchVars  == <<manifest, unreadable, index, packages, todo, wanted, target, fetchPhase,
                failed, result, gets, leftOver>>
buildVars  == <<listed, unlisted, out, artifacts, building, step, tmp>>

L == INSTANCE MCLineSplitting WITH cache <- splitCache, phase <- splitPhase
S == INSTANCE MCPreprocessor WITH stack <- blocks, errors <- complaints
G == INSTANCE PackageFetch WITH cache <- packages, phase <- fetchPhase

\* A program that links two libraries, one of which needs the other; every
\* project writes to the program's output directory.
B == INSTANCE ProjectBuild
       WITH Projects <- {"app", "low", "high"}, Root <- "app",
            Deps <- [app |-> <<"low", "high">>, high |-> <<"low">>, low |-> <<>>],
            Contents <- {0, 1}, Edited <- {"app", "low"}, Habits <- {"sharedOutput"},
            cache <- artifacts, stack <- building, phase <- step

A == INSTANCE SourceLines
MCLines == A!MCLines

\* Three projects that reach one another in a circle; two packages, one of which
\* the registry may not have.
On(n, v) == [path |-> 0, name |-> n, version |-> v]
At(d) == [path |-> d, name |-> "", version |-> AnyVersion]
MCNames == <<"a", "b">>
MCManifests ==
  {<< <<On("a", v), At(2)>>, <<On("b", w), At(3)>>, <<On("a", x), At(1)>> >> :
     v, x \in G!Requests, w \in {1, AnyVersion}}
MCIndexes == {"a" :> x @@ "b" :> y : x \in {<<1>>, <<2, 1>>}, y \in {<<>>, <<1, 2>>}}
FetchInit == \E m \in MCManifests, i \in MCIndexes, u \in {{}, {2}} : G!InitWith(m, u, i)

ASSUME FormatterAssumption == L!LineSplittingAssumption
ASSUME BuilderAssumption   == B!GraphAssumption /\ B!HabitsAssumption /\ B!ContentsAssumption

AtRest ==
  /\ which # "imports" => directives = [m \in Modules |-> <<>>] /\ Init
  /\ which # "format"  => L!InitWith(<<L!Text(1)>>)
  /\ which # "fetch"   => G!InitWith(<<<<>>>>, {}, [n \in {"a", "b"} |-> <<>>])

ToolInit ==
  /\ which \in Parts
  /\ AtRest /\ S!Init /\ B!Init
  /\ which = "imports" => MCInit
  /\ which = "format"  => L!MCInit
  /\ which = "fetch"   => FetchInit

Imports    == which = "imports" /\ Next /\ UNCHANGED <<which, formatVars, sourceVars, fetchVars, buildVars>>
Preprocess == which = "preprocess" /\ S!MCNext /\ UNCHANGED <<which, vars, formatVars, fetchVars, buildVars>>
Format     == which = "format" /\ L!Next /\ UNCHANGED <<which, vars, sourceVars, fetchVars, buildVars>>
Fetch      == which = "fetch" /\ G!Next /\ UNCHANGED <<which, vars, formatVars, sourceVars, buildVars>>
Build      == which = "build" /\ B!Next /\ UNCHANGED <<which, vars, formatVars, sourceVars, fetchVars>>

ToolNext == Imports \/ Preprocess \/ Format \/ Fetch \/ Build
ToolSpec == ToolInit /\ [][ToolNext]_<<which, vars, formatVars, sourceVars, fetchVars, buildVars>>

\* Stated and described in the modules they come from
CheapestFit        == L!CheapestFit
KeptAsNested       == S!KeptAsNested
SuccessMeansUsable == G!SuccessMeansUsable
FitsIfItCan        == L!FitsIfItCan
RetryRepairs       == G!RetryRepairs
BuildsAreCurrent   == B!BuildsAreCurrent
CacheIsHonest      == B!CacheIsHonest
================================================================================
