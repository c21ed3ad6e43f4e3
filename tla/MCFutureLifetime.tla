-------------------------- MODULE MCFutureLifetime --------------------------
(***************************************************************************)
(* Instances of FutureLifetime for TLC.                                    *)
(***************************************************************************)
EXTENDS FutureLifetime, TLC

CONSTANTS s1, s2, s3, h1, h2

MCThreeStates == {s1, s2, s3}
MCHandles == {h1, h2}

SymmetricThree == Permutations(MCThreeStates) \cup Permutations(MCHandles)
=============================================================================
