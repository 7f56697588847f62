----------------------------- MODULE KeepGoing ------------------------------
(***************************************************************************)
(* What a keep-going build promises, whatever it builds: the framework's   *)
(* over its modules and the workspace's over its frameworks.  It is told   *)
(* in terms of what was really attempted and what came of it; the code     *)
(* works from marker files that outlive the invocation that wrote them.    *)
(***************************************************************************)
CONSTANTS
    Units,  \* what a build goes through
    NoUnit  \* not a unit

VARIABLES
    phase,     \* what the invocation is at, or how the last one ended
    present,   \* the units the invocation has to build
    deps,      \* deps[u]: the units u needs
    failFast,  \* FAIL_FAST=yes
    result,    \* result[u]: what came of u in this invocation
    root       \* root[u]: the failure a skipped u is put down to

vars == <<phase, present, deps, failFast, result, root>>

Results == {"none", "ok", "failed", "skipped"}
Phases == {"none", "building", "passed", "failed", "failfast", "refused", "killed"}

Nothing == [u \in Units |-> "none"]
NoRoots == [u \in Units |-> NoUnit]

Init ==
    /\ phase = "none"
    /\ present \in SUBSET Units
    /\ deps \in [Units -> SUBSET Units]
    /\ failFast \in BOOLEAN
    /\ result = Nothing
    /\ root = NoRoots

\* A new invocation owes nothing to the earlier ones.
Begin ==
    /\ phase # "building"
    /\ phase' = "building"
    /\ present' \in SUBSET Units
    /\ deps' \in [Units -> SUBSET Units]
    /\ failFast' \in BOOLEAN
    /\ result' = Nothing
    /\ root' = NoRoots

Bad(u) == result[u] \in {"failed", "skipped"}

\* A unit is attempted once, after everything it needs was built; a failure
\* ends the build there and then with FAIL_FAST=yes.
Try(u) ==
    /\ phase = "building"
    /\ u \in present /\ result[u] = "none"
    /\ \A d \in deps[u] : result[d] = "ok"
    /\ \/ result' = [result EXCEPT ![u] = "ok"] /\ UNCHANGED phase
       \/ /\ result' = [result EXCEPT ![u] = "failed"]
          /\ phase' = IF failFast THEN "failfast" ELSE "building"
    /\ UNCHANGED <<present, deps, failFast, root>>

\* It is skipped only for a unit it needs that failed or was skipped, and is
\* put down to what that one is put down to.
Skip(u) ==
    /\ phase = "building"
    /\ u \in present /\ result[u] = "none"
    /\ \E d \in deps[u] :
        /\ Bad(d)
        /\ root' = [root EXCEPT ![u] = IF result[d] = "failed" THEN d ELSE root[d]]
    /\ result' = [result EXCEPT ![u] = "skipped"]
    /\ UNCHANGED <<phase, present, deps, failFast>>

\* Every unit was attempted or skipped; status 0 says that all were built.
End ==
    /\ phase = "building"
    /\ \A u \in present : result[u] # "none"
    /\ phase' = IF \A u \in present : result[u] = "ok" THEN "passed" ELSE "failed"
    /\ UNCHANGED <<present, deps, failFast, result, root>>

\* Something is missing that the build needs: nothing is attempted.
Refuse ==
    /\ phase = "building" /\ result = Nothing
    /\ phase' = "refused"
    /\ UNCHANGED <<present, deps, failFast, result, root>>

Kill ==
    /\ phase = "building"
    /\ phase' = "killed"
    /\ UNCHANGED <<present, deps, failFast, result, root>>

Next ==
    \/ Begin \/ End \/ Refuse \/ Kill
    \/ \E u \in Units : Try(u) \/ Skip(u)

Spec == Init /\ [][Next]_vars

-----------------------------------------------------------------------------
\* r is reached from u along ds: it is in every set that holds what u needs
\* and what its members need.
Reaches(ds, u, r) ==
    \A S \in SUBSET Units :
        (ds[u] \subseteq S /\ \A x \in S : ds[x] \subseteq S) => r \in S
=============================================================================
