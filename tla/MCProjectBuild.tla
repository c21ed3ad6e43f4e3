---------------------------- MODULE MCProjectBuild ----------------------------
(***************************************************************************)
(* Instances of ProjectBuild for TLC: a program that links two libraries,  *)
(* high and low; in the diamond high needs low as well.                    *)
(***************************************************************************)
EXTENDS ProjectBuild

CONSTANTS app, low, high

MCProjects   == {app, low, high}
MCFewer      == {app, low}
MCContents   == {0, 1}
MCEdited     == {app, low}

Flat    == [x \in MCProjects |-> IF x = app THEN <<low, high>> ELSE <<>>]
Diamond == [x \in MCProjects |->
              CASE x = app -> <<low, high>> [] x = high -> <<low>> [] OTHER -> <<>>]
Single  == [x \in MCFewer |-> IF x = app THEN <<low>> ELSE <<>>]
=============================================================================
