----------------------------- MODULE MCAtfCheck -----------------------------
(***************************************************************************)
(* AtfCheck for TLC: descriptor 3 is the caller's file, there is room for  *)
(* two pipes, a pipe holds less than is written to it.                     *)
(***************************************************************************)
EXTENDS AtfCheck

MCMayLack == {0, 1, 2}
=============================================================================
