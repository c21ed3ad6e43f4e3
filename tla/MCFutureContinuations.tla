----------------------- MODULE MCFutureContinuations -----------------------
(***************************************************************************)
(* Instances of FutureContinuations for TLC.                               *)
(***************************************************************************)
EXTENDS FutureContinuations

CONSTANTS f1, f2, c1, c2, c3, worker, sched

MCFutures == {f1, f2}
MCConts   == {c1, c2, c3}
MCThreads == {worker, sched}
=============================================================================
