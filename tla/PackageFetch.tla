----------------------------- MODULE PackageFetch -----------------------------
(***************************************************************************)
(* `utopia yip get`: handleGet reads the manifests of a project and of the *)
(* projects it reaches by path, and brings the registry packages they name *)
(* into the package cache; the project builder looks them up there.        *)
(***************************************************************************)
EXTENDS Naturals, FiniteSets, SequencesExt

CONSTANTS
  Names,     \* of packages, in the order of the map
  Versions,  \* that a package may have
  AnyVersion, \* "", "latest" or "any" as a requested version
  MaxGets    \* bound on the commands run

VARIABLES
  manifest,  \* [project -> its dependencies], project 1 being the root
  unreadable, \* the projects whose manifest cannot be parsed
  index,     \* [package -> versions in the order the registry lists them]
  cache,     \* [package -> [version -> the state of its directory]]
  todo,      \* packages the command under way has still to look at
  wanted,    \* registryDepsToFetch
  target,    \* targetVersion of the first of todo
  phase,     \* what is done for the first of todo
  failed,    \* overallError
  result,    \* of the last command: "none", "success" or "error"
  gets,      \* commands run
  leftOver   \* the unfinished directories the last command found

pfVars == <<manifest, unreadable, index, cache, todo, wanted, target, phase, failed, result, gets, leftOver>>

Requests == Versions \cup {AnyVersion}

\* a dependency: on the project its path leads to, or else, where that is 0,
\* on a package
InitWith(m, u, i) ==
  /\ manifest = m /\ unreadable = u /\ index = i
  /\ cache = [n \in ToSet(Names) |-> [v \in Versions |-> "absent"]]
  /\ todo = <<>> /\ wanted = <<>> /\ target = AnyVersion /\ phase = "idle"
  /\ failed = FALSE /\ result = "none" /\ gets = 0 /\ leftOver = {}

----------------------------------------------------------------------------
\* collectDependencies: projects once each, in the order they are reached; of
\* the versions a package is asked for the one met last stays.
RECURSIVE Collect(_, _)
Collect(acc, p) ==
  IF p \in acc.visited THEN acc
  ELSE IF p \in unreadable THEN [acc EXCEPT !.visited = @ \cup {p}]
  ELSE FoldLeft(LAMBDA a, d :
                  IF d.path # 0 THEN Collect(a, d.path)
                  ELSE [a EXCEPT !.wanted = (d.name :> d.version) @@ @],
                [acc EXCEPT !.visited = @ \cup {p}], manifest[p])
Projects  == Collect([visited |-> {}, wanted |-> <<>>], 1)
Collected == Projects.wanted

Get ==
  /\ phase = "idle" /\ gets < MaxGets
  /\ gets' = gets + 1 /\ failed' = FALSE
  /\ leftOver' = {d \in ToSet(Names) \X Versions : cache[d[1]][d[2]] = "begun"}
  /\ IF Projects.visited \cap unreadable # {}
     THEN result' = "error" /\ UNCHANGED <<todo, wanted, phase>>
     ELSE /\ wanted' = Collected /\ phase' = "index" /\ result' = "none"
          /\ todo' = SelectSeq(Names, LAMBDA n : n \in DOMAIN Collected)
  /\ UNCHANGED <<manifest, unreadable, index, cache, target>>

\* The loop over the packages goes on after an error, which is remembered.
NextPackage(error) ==
  /\ todo' = Tail(todo) /\ phase' = "index" /\ failed' = (failed \/ error)
  /\ UNCHANGED <<manifest, unreadable, index, wanted, target, result, gets, leftOver>>
\* mutant: the error is not remembered
Forgetful(error) ==
  /\ todo' = Tail(todo) /\ phase' = "index"
  /\ UNCHANGED <<manifest, unreadable, index, wanted, target, failed, result, gets, leftOver>>
Abandoned(error) == NextPackage(error)

Package   == Head(todo)
Served    == index[Package]
Suitable  == SelectSeq(Served, LAMBDA v : wanted[Package] \in {AnyVersion, v})

IndexFails ==
  /\ phase = "index" /\ todo # <<>>
  /\ Abandoned(TRUE) /\ UNCHANGED cache

NotFound ==
  /\ phase = "index" /\ todo # <<>> /\ Suitable = <<>>
  /\ Abandoned(TRUE) /\ UNCHANGED cache

Found ==
  /\ phase = "index" /\ todo # <<>> /\ Suitable # <<>>
  /\ target' = Head(Suitable) /\ phase' = "cache"
  /\ UNCHANGED <<manifest, unreadable, index, cache, todo, wanted, failed, result, gets, leftOver>>

\* A directory of that name is a cached package, whatever is in it.
UseCached ==
  /\ phase = "cache" /\ cache[Package][target] # "absent"
  /\ NextPackage(FALSE) /\ UNCHANGED cache

DownloadFails ==
  /\ phase = "cache" /\ cache[Package][target] = "absent"
  /\ Abandoned(TRUE) /\ UNCHANGED cache

Download ==
  /\ phase = "cache" /\ cache[Package][target] = "absent"
  /\ cache' = [cache EXCEPT ![Package][target] = "begun"]
  /\ phase' = "extract"
  /\ UNCHANGED <<manifest, unreadable, index, todo, wanted, target, failed, result, gets, leftOver>>

Extract ==
  /\ phase = "extract"
  /\ cache' = [cache EXCEPT ![Package][target] = "whole"]
  /\ NextPackage(FALSE)

ExtractFails ==
  /\ phase = "extract"
  /\ Abandoned(TRUE) /\ UNCHANGED cache

Report ==
  /\ phase = "index" /\ todo = <<>>
  /\ result' = IF failed THEN "error" ELSE "success"
  /\ phase' = "idle"
  /\ UNCHANGED <<manifest, unreadable, index, cache, todo, wanted, target, failed, gets, leftOver>>

\* The user stops the command, possibly while tar is running.
Kill ==
  /\ phase # "idle"
  /\ phase' = "idle" /\ todo' = <<>>
  /\ UNCHANGED <<manifest, unreadable, index, cache, wanted, target, failed, result, gets, leftOver>>

\* Somebody publishes a version.
Publish(n, v) ==
  /\ phase = "idle" /\ v \notin ToSet(index[n])
  /\ index' = [index EXCEPT ![n] = <<v>> \o @]
  /\ UNCHANGED <<manifest, unreadable, cache, todo, wanted, target, phase, failed, result, gets, leftOver>>

\* The user asks for other versions.
Edit(p, i, v) ==
  /\ phase = "idle" /\ manifest[p][i].path = 0 /\ manifest[p][i].version # v
  /\ manifest' = [manifest EXCEPT ![p][i].version = v] /\ result' = "none"
  /\ UNCHANGED <<unreadable, index, cache, todo, wanted, target, phase, failed, gets, leftOver>>

\* The user mends the manifests.
Mend ==
  /\ phase = "idle" /\ unreadable # {}
  /\ unreadable' = {} /\ result' = "none"
  /\ UNCHANGED <<manifest, index, cache, todo, wanted, target, phase, failed, gets, leftOver>>

Next == \/ Mend \/ Get \/ IndexFails \/ NotFound \/ Found \/ UseCached \/ DownloadFails \/ Download
        \/ Extract \/ ExtractFails \/ Report \/ Kill
        \/ \E n \in ToSet(Names), v \in Versions : Publish(n, v)
        \/ \E p \in DOMAIN manifest : \E i \in DOMAIN manifest[p] :
             \E v \in Requests : Edit(p, i, v)

----------------------------------------------------------------------------
\* Where the builder looks for a dependency: the version's own directory, or
\* else the first one the file system happens to list
Cached(n) == {v \in Versions : cache[n][v] # "absent"}
Resolutions(d) == IF d.version \in Cached(d.name) THEN {d.version} ELSE Cached(d.name)

Asked   == {d \in UNION {ToSet(manifest[p]) : p \in Projects.visited} : d.path = 0}
Agreed  == \A d, e \in Asked : d.name = e.name => d.version = e.version

(***************************************************************************)
(* After a successful get every package a reachable manifest asks for is   *)
(* in the cache, a version that all of them agree on is the one the        *)
(* builder takes, and what it takes is whole, unless an earlier command    *)
(* has left it unfinished: what this command could not finish is reported. *)
(***************************************************************************)
SuccessMeansUsable ==
  result = "success" =>
    \A d \in Asked :
      /\ Resolutions(d) # {}
      /\ \A v \in Resolutions(d) : cache[d.name][v] = "whole" \/ <<d.name, v>> \in leftOver
      /\ Agreed /\ d.version # AnyVersion => Resolutions(d) = {d.version}

(***************************************************************************)
(* A get that succeeds has repaired what an earlier one left unfinished.   *)
(* Not so: a directory that exists is taken for a cached package.          *)
(***************************************************************************)
RetryRepairs ==
  result = "success" =>
    \A d \in Asked : \A v \in Resolutions(d) : cache[d.name][v] = "whole"
================================================================================
