---------------------------- MODULE MCModuleImports ----------------------------
(***************************************************************************)
(* Import graphs of a prelude and three modules, with every mixture of     *)
(* chains, diamonds, cycles, self-imports and files that do not exist.     *)
(***************************************************************************)
EXTENDS ModuleImports

CONSTANTS p, a, b, c, nowhere

MCModules   == {p, a, b, c}
MCMissing   == {nowhere}
MCInPrelude == {p}
MCRoots     == {a, c}

To(targets)   == [kind : {"import", "export"}, of : targets]
UpTo1(D)      == {<<>>} \cup {<<d>> : d \in D}
UpTo2(D)      == UpTo1(D) \cup {<<d, e>> : d \in D, e \in D}

MCInit ==
  /\ \E onP \in UpTo1([kind : {"import"}, of : {b}]), onA \in UpTo2(To({a, b, c, nowhere})),
        onB \in UpTo2([kind : {"import"}, of : {a, c}]), onC \in UpTo1(To({a, b, c})) :
       directives = [m \in MCModules |->
                       CASE m = p -> onP [] m = a -> onA [] m = b -> onB [] m = c -> onC]
  /\ Init

MCSpec == MCInit /\ [][Next]_vars
================================================================================
