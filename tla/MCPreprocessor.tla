---------------------------- MODULE MCPreprocessor ----------------------------
(***************************************************************************)
(* Sources of a few lines, the last one without #define, #undef or #error. *)
(***************************************************************************)
EXTENDS Preprocessor, SourceLines

\* A condition of three operands is tried alone.
Alone  == source # <<>> /\ source[1].kind = "if" /\ Len(source[1].arg) > 3
MCNext == (\E line \in IF Alone THEN {Bare("text")} ELSE LinesHere : Step(line)) \/ EndOfFile
Spec == Init /\ [][MCNext]_ppVars
================================================================================
