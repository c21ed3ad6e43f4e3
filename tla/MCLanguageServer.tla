-------------------------- MODULE MCLanguageServer --------------------------
(***************************************************************************)
(* Instances of LanguageServer for TLC.                                    *)
(***************************************************************************)
EXTENDS LanguageServer

CONSTANTS d1, d2

MCUris == {d1, d2}
=============================================================================
