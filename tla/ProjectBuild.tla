---------------------------- MODULE ProjectBuild ----------------------------
(***************************************************************************)
(* utopia build: buildProjectRecursive (tools/utopia/src/Core/             *)
(* ProjectBuilder.cpp), the compiler driver and linker it runs, and the    *)
(* content-addressed ArtifactCache.  A build walks the dependency graph;   *)
(* for each project it hashes the sources build.yaml lists and the         *)
(* fingerprints of the dependencies, then restores bin/ and lib/ from the  *)
(* cache or compiles, links and stores them.  The process may be killed    *)
(* between any two steps.  Two builds of the same projects at a time are   *)
(* left out.                                                               *)
(*                                                                         *)
(* What the user does is a parameter, Habits:                              *)
(*   sharedOutput   the projects have no output_dir of their own, so       *)
(*                  every project writes to the main project's             *)
(*   unlisted       a source file that build.yaml does not list and only   *)
(*                  an import reaches is edited                            *)
(*   editsWhileBuilding                                                    *)
(*                                                                         *)
(* Options are constant (they are hashed); dependencies are linked as      *)
(* archives; yip, build.utp scripts and the obj/ directory are left out.   *)
(***************************************************************************)
EXTENDS Integers, Sequences, FiniteSets, Functions, SequencesExt

CONSTANTS
  Projects, Root,
  Deps,       \* dependencies of each project, in the order of build.yaml
  None,
  Contents,   \* bound: what a file may contain, 0 at first
  Edited,     \* bound: the projects the user edits
  Habits

\* What the constants are; the modules that instantiate this one assume it.
GraphAssumption ==
  Root \in Projects /\ Deps \in [Projects -> Seq(Projects \ {Root})]
HabitsAssumption ==
  Habits \subseteq {"sharedOutput", "unlisted", "editsWhileBuilding"}
ContentsAssumption == 0 \in Contents

VARIABLES
  listed,    \* the sources of each project that build.yaml lists
  unlisted,  \* the sources that only imports reach
  out,       \* bin/ and lib/ of each output directory
  cache,     \* ~/.utopia/cache/artifacts
  stack,     \* the projects in progress, innermost last
  phase,     \* the place in the innermost one
  tmp        \* what was read last: sources, or the files to store

vars == <<listed, unlisted, out, cache, stack, phase, tmp>>

\* CompileOptions::outputDir: the parent's unless the project names its own.
OutDir(p) == IF "sharedOutput" \in Habits THEN Root ELSE p

\* Everything p links: a dependency's linker flags reach its consumers.
Linked[p \in Projects] ==
  UNION {{Deps[p][i]} \cup Linked[Deps[p][i]] : i \in DOMAIN Deps[p]}

\* What compiling makes of a project's sources, and a linked artifact: an
\* executable holds its libraries, an archive only its own objects.
Objects(p) == <<listed[p], unlisted[p]>>
LibrariesOf(p) == IF p = Root THEN Linked[p] ELSE {}
Artifact(o, libs) == [objects |-> o, libraries |-> libs]

\* computeFingerprint: two fingerprints are equal when all inputs are; when the
\* names are, whatever the contents (the mistake).
NamesOnly(p, src, deps) ==
  [project |-> p, sources |-> 0, deps |-> deps]
Fingerprint(p, src, deps) == [project |-> p, sources |-> src, deps |-> deps]

NoFiles == [p \in Projects |-> None]

Top == stack[Len(stack)]
Project == Top.project

Init ==
  /\ listed = [p \in Projects |-> 0] /\ unlisted = [p \in Projects |-> 0]
  /\ out = [p \in Projects |-> NoFiles] /\ cache = {}
  /\ stack = <<>> /\ phase = "idle" /\ tmp = None

Idle == phase \in {"idle", "built"}

-----------------------------------------------------------------------------
(* The user, who may also take an edit back. *)

Edit(p) ==
  /\ p \in Edited
  /\ Idle \/ "editsWhileBuilding" \in Habits
  /\ \E v \in Contents :
       \/ /\ v # listed[p]
          /\ listed' = [listed EXCEPT ![p] = v] /\ UNCHANGED unlisted
       \/ /\ v # unlisted[p] /\ "unlisted" \in Habits
          /\ unlisted' = [unlisted EXCEPT ![p] = v] /\ UNCHANGED listed
  \* what was built is what was asked for when it was built
  /\ phase' = IF phase = "built" THEN "idle" ELSE phase
  /\ UNCHANGED <<out, cache, stack, tmp>>

Frame(p) == [project |-> p, deps |-> <<>>, fingerprint |-> None]

Start ==
  /\ Idle
  /\ stack' = <<Frame(Root)>> /\ phase' = "visit"
  /\ UNCHANGED <<listed, unlisted, out, cache, tmp>>

\* The process is killed, or the compilation reports errors.
Stop ==
  /\ stack # <<>>
  /\ stack' = <<>> /\ phase' = "idle" /\ tmp' = None
  /\ UNCHANGED <<listed, unlisted, out, cache>>

-----------------------------------------------------------------------------
(* buildProjectRecursive. *)

At(ph) == phase = ph
Goto(ph) == phase' = ph

\* Every dependency is built first, whatever its fingerprint.
Descend ==
  /\ At("visit") /\ Len(Top.deps) < Len(Deps[Project])
  /\ stack' = Append(stack, Frame(Deps[Project][Len(Top.deps) + 1]))
  /\ UNCHANGED <<listed, unlisted, out, cache, phase, tmp>>

\* What a consumer hashes of its dependencies; nothing (the mistake).
NoDeps(f) == <<>>
DepFingerprints(f) == f.deps

Hash ==
  /\ At("visit") /\ Len(Top.deps) = Len(Deps[Project])
  /\ stack' = [stack EXCEPT ![Len(stack)].fingerprint =
       Fingerprint(Project, listed[Project], DepFingerprints(Top))]
  /\ Goto("restore")
  /\ UNCHANGED <<listed, unlisted, out, cache, tmp>>

-----------------------------------------------------------------------------
(* ArtifactCache::restore. *)

Entry == {e \in cache : e.fingerprint = Top.fingerprint}

\* copyTree overwrites what is there and leaves the other files alone.
Restored(old, files) ==
  [p \in Projects |-> IF files[p] # None THEN files[p] ELSE old[p]]

\* No entry: the project is compiled; only linked (the mistake).
MissLinks ==
  /\ At("restore") /\ Entry = {}
  /\ Goto("link")
  /\ UNCHANGED <<listed, unlisted, out, cache, stack, tmp>>

Miss ==
  /\ At("restore") /\ Entry = {}
  /\ Goto("compile")
  /\ UNCHANGED <<listed, unlisted, out, cache, stack, tmp>>

RestoreCopy ==
  /\ At("restore")
  /\ \E e \in Entry :
       out' = [out EXCEPT ![OutDir(Project)] = Restored(@, e.files)]
  /\ Goto("check")
  /\ UNCHANGED <<listed, unlisted, cache, stack, tmp>>

RestoreCheck ==
  /\ At("check")
  /\ IF out[OutDir(Project)][Project] # None
     THEN Goto("return") /\ UNCHANGED cache
     ELSE Goto("compile") /\ cache' = cache \ Entry
  /\ UNCHANGED <<listed, unlisted, out, stack, tmp>>

-----------------------------------------------------------------------------
(* CompilerDriver::run. *)

Compile ==
  /\ At("compile")
  /\ tmp' = Objects(Project)
  /\ Goto("link")
  /\ UNCHANGED <<listed, unlisted, out, cache, stack>>

\* An archive is removed before llvm-ar writes it.
RemoveArchive ==
  /\ At("link") /\ Project # Root
  /\ out' = [out EXCEPT ![OutDir(Project)][Project] = None]
  /\ Goto("archive")
  /\ UNCHANGED <<listed, unlisted, cache, stack, tmp>>

Archive ==
  /\ At("archive")
  /\ out' = [out EXCEPT ![OutDir(Project)][Project] = Artifact(tmp, <<>>)]
  /\ tmp' = None
  /\ Goto("store")
  /\ UNCHANGED <<listed, unlisted, cache, stack>>

\* The executable, of libraries that were all restored or archived before.
Link ==
  /\ At("link") /\ Project = Root
  /\ out' = [out EXCEPT ![OutDir(Root)][Root] =
       Artifact(tmp, [d \in LibrariesOf(Root) |-> out[OutDir(d)][d]])]
  /\ tmp' = None
  /\ Goto("store")
  /\ UNCHANGED <<listed, unlisted, cache, stack>>

-----------------------------------------------------------------------------
(* ArtifactCache::store. *)

\* The whole bin/ and lib/ go to a directory of a random name.
StoreCopy ==
  /\ At("store")
  /\ tmp' = out[OutDir(Project)]
  /\ Goto("publish")
  /\ UNCHANGED <<listed, unlisted, out, cache, stack>>

\* It is renamed, unless there is an entry of this fingerprint already.
Publish ==
  /\ At("publish")
  /\ cache' = IF Entry # {} THEN cache
              ELSE cache \cup {[fingerprint |-> Top.fingerprint, files |-> tmp]}
  /\ tmp' = None
  /\ Goto("return")
  /\ UNCHANGED <<listed, unlisted, out, stack>>

\* Back in the consumer, which records the fingerprint.
Return ==
  LET below == Front(stack)
  IN /\ At("return")
     /\ IF below = <<>>
        THEN stack' = <<>> /\ Goto("built")
        ELSE /\ stack' = [below EXCEPT ![Len(below)].deps =
                                         Append(@, Top.fingerprint)]
             /\ Goto("visit")
     /\ UNCHANGED <<listed, unlisted, out, cache, tmp>>

Next ==
  \/ \E p \in Projects : Edit(p)
  \/ Start \/ Stop
  \/ Descend \/ Hash \/ Miss \/ RestoreCopy \/ RestoreCheck
  \/ Compile \/ RemoveArchive \/ Archive \/ Link
  \/ StoreCopy \/ Publish \/ Return

Spec == Init /\ [][Next]_vars

-----------------------------------------------------------------------------
(* Properties. *)

\* A file is made of the sources and libraries its project has; the cache has
\* one entry for a fingerprint; a project in progress has built a prefix of its
\* dependencies.
TypeOK ==
  /\ listed \in [Projects -> Contents] /\ unlisted \in [Projects -> Contents]
  /\ \A d, p \in Projects : out[d][p] # None =>
       /\ out[d][p].objects \in Contents \X Contents
       /\ DOMAIN out[d][p].libraries = LibrariesOf(p)
  /\ \A e, f \in cache : e.fingerprint = f.fingerprint => e = f
  /\ \A f \in Range(stack) :
       /\ Len(f.deps) <= Len(Deps[f.project])
       /\ \A i \in DOMAIN f.deps : f.deps[i].project = Deps[f.project][i]
  /\ Idle <=> stack = <<>>

\* What a build from nothing makes of the present sources.
Clean[p \in Projects] ==
  Artifact(Objects(p), [d \in LibrariesOf(p) |-> Clean[d]])

\* A build that succeeds leaves the executable a build from nothing would
\* leave, whatever it took from the cache and whatever was killed before.
\* (ProjectBuilder.cpp: "a change anywhere in the graph invalidates every
\* consumer")
BuildsAreCurrent == phase = "built" => out[Root][Root] = Clean[Root]

\* The contents a fingerprint hashed, of a project and of what it links.
RECURSIVE Hashed(_)
Hashed(f) == {<<f.project, f.sources>>} \cup
             UNION {Hashed(f.deps[i]) : i \in DOMAIN f.deps}

\* An entry holds its project's artifact, made of what its fingerprint
\* hashed.  (ArtifactCache.hpp: "The fingerprint is a SHA-256 over
\* everything that influences the build output")
CacheIsHonest ==
  /\ TypeOK
  /\ \A e \in cache :
       LET project == e.fingerprint.project
           files == e.files[project]
       IN /\ files # None
          /\ <<project, files.objects[1]>> \in Hashed(e.fingerprint)
          /\ \A d \in DOMAIN files.libraries :
               <<d, files.libraries[d].objects[1]>> \in Hashed(e.fingerprint)
=============================================================================
