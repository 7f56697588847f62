--------------------------- MODULE MCAtfTestCase ----------------------------
(***************************************************************************)
(* Instances of AtfTestCase for TLC: results in a file or on standard      *)
(* output, one way to end abruptly (the four differ in their line only).   *)
(***************************************************************************)
EXTENDS AtfTestCase

MCAbrupt == {"death"}
MCDests == {"file", "std"}
=============================================================================
