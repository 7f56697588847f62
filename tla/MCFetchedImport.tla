--------------------------- MODULE MCFetchedImport ---------------------------
(***************************************************************************)
(* Instances of FetchedImport for TLC: a release, the same release with a  *)
(* patch (one distfile, other inputs), and the next release, which also    *)
(* has other headers.                                                      *)
(***************************************************************************)
EXTENDS FetchedImport

MCVersions == {"one", "patched", "two"}
MCDist == [v \in MCVersions |-> IF v = "two" THEN "two.tar.gz" ELSE "one.tar.gz"]
MCInputs == [v \in MCVersions |-> v]
MCHeaders == [v \in MCVersions |-> IF v = "two" THEN "two.h" ELSE "one.h"]
=============================================================================
