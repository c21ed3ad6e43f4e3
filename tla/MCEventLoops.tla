---------------------------- MODULE MCEventLoops ----------------------------
(***************************************************************************)
(* Instances of EventLoops for TLC.                                        *)
(***************************************************************************)
EXTENDS EventLoops

CONSTANTS m, a, b, x, j, n

\* The async main and one or two other activations.
MCFrames    == {m, a, b}
MCTwoFrames == {m, a}
MCTimers == {x}
MCJobs   == {j}
MCNoJobs == {}
=============================================================================
