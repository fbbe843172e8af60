------------------------------- MODULE MCBuild -------------------------------
(***************************************************************************)
(* Two source files, either of which may be new, edited or removed, and    *)
(* two jobs: one may fail while the other still runs.                      *)
(***************************************************************************)
EXTENDS Build

CONSTANTS a, b
MCFiles == {a, b}
==============================================================================
