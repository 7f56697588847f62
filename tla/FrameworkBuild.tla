--------------------------- MODULE FrameworkBuild ---------------------------
(***************************************************************************)
(* `bmake all` in a framework: mk.framework.mk's all, _check_requires,     *)
(* _build_modules and _check_build_failures.                               *)
(*                                                                         *)
(* The loop over the modules is one shell command per module, so the only  *)
(* thing one module's command knows of another is the marker files of this *)
(* RUN_ID: <module>/build/<key>/runs/<RUN_ID>/build.failed and             *)
(* build.skipped.  A RUN_ID may be given (a CI's build number), so that    *)
(* markers of earlier invocations, finished or not, can be there already.  *)
(* runs/latest is a copy of the last run's directory.                      *)
(***************************************************************************)
EXTENDS Naturals, Sequences

CONSTANTS
    Units,    \* the modules (*.m) and test modules (*.tst)
    RunIds,   \* values of RUN_ID
    Graphs,   \* the orders and MODULE_DEPS a parse can include
    MaxRuns,  \* bound: the invocations of a behaviour
    NoUnit,   \* no root cause: no build.skipped
    NoRun     \* no runs/latest

\* The units in build order, modules before test modules, each once and each
\* after its MODULE_DEPS (a test module has none).
Graph == [order : Seq(Units), deps : [Units -> SUBSET Units]]
Sorted(g) ==
    /\ \A i, j \in DOMAIN g.order : g.order[i] = g.order[j] => i = j
    /\ \A i \in DOMAIN g.order : \A d \in g.deps[g.order[i]] :
            \E j \in DOMAIN g.order : j < i /\ g.order[j] = d

ASSUME FrameworkBuildAssumption ==
    /\ NoUnit \notin Units
    /\ \A g \in Graphs : g \in Graph /\ Sorted(g)
    /\ MaxRuns \in Nat

-----------------------------------------------------------------------------
VARIABLES
    graph,     \* SUBDIR_MODULES, SUBDIR_TESTMODS and MODULE_DEPS
    run,       \* RUN_ID
    failFast,  \* FAIL_FAST
    failed,    \* failed[r]: the units with a build.failed in run r
    skipped,   \* skipped[r][u]: what u's build.skipped holds in run r
    latest,    \* latest[u]: u's runs/latest
    pc,        \* where the invocation is
    pos,       \* the loop's place in the order
    status,    \* how the invocation ended
    made,      \* history: what came of each unit in this invocation
    runs       \* the invocations so far

markers == <<failed, skipped, latest>>
vars == <<graph, run, failFast, markers, pc, pos, status, made, runs>>

\* What `cp -a $_rundir runs/latest` copies.
Snapshot == [run : RunIds, failed : BOOLEAN, root : Units \cup {NoUnit}]
PCs == {"idle", "requires", "loop", "making", "refresh", "check"}
Statuses == {"none", "building", "passed", "failed", "failfast", "refused", "killed"}
Made == {"none", "ok", "failed", "skipped"}

TypeOK ==
    /\ graph \in Graphs
    /\ run \in RunIds
    /\ failFast \in BOOLEAN
    /\ failed \in [RunIds -> SUBSET Units]
    /\ skipped \in [RunIds -> [Units -> Units \cup {NoUnit}]]
    /\ latest \in [Units -> Snapshot \cup {NoRun}]
    /\ pc \in PCs
    /\ pos \in Nat \ {0}
    /\ status \in Statuses
    /\ made \in [Units -> Made]
    /\ runs \in 0..MaxRuns

Init ==
    /\ graph \in Graphs
    /\ run \in RunIds
    /\ failFast \in BOOLEAN
    /\ failed = [r \in RunIds |-> {}]
    /\ skipped = [r \in RunIds |-> [u \in Units |-> NoUnit]]
    /\ latest = [u \in Units |-> NoRun]
    /\ pc = "idle"
    /\ pos = 1
    /\ status = "none"
    /\ made = [u \in Units |-> "none"]
    /\ runs = 0

-----------------------------------------------------------------------------
Unit == graph.order[pos]
Exit(s) == pc' = "idle" /\ status' = s

\* bmake all, with a RUN_ID of its own or one used before; the makefiles may
\* have been edited since.
Begin ==
    /\ pc = "idle" /\ runs < MaxRuns
    /\ graph' \in Graphs
    /\ run' \in RunIds
    /\ failFast' \in BOOLEAN
    /\ pc' = "requires"
    /\ pos' = 1
    /\ status' = "building"
    /\ made' = [u \in Units |-> "none"]
    /\ runs' = runs + 1
    /\ UNCHANGED markers

\* _check_requires: something is missing, or a module cannot say.
Refuse ==
    /\ pc = "requires"
    /\ Exit("refused")
    /\ UNCHANGED <<graph, run, failFast, markers, pos, made, runs>>

Required ==
    /\ pc = "requires"
    /\ pc' = "loop"
    /\ UNCHANGED <<graph, run, failFast, markers, pos, status, made, runs>>

\* Mutant: a skipped unit is put down to its direct prerequisite.
SkipForDirect ==
    /\ pc = "loop" /\ pos \in DOMAIN graph.order
    /\ \E d \in graph.deps[Unit] \cap failed[run] :
        skipped' = [skipped EXCEPT ![run][Unit] = d]
    /\ failed' = [failed EXCEPT ![run] = @ \cup {Unit}]
    /\ made' = [made EXCEPT ![Unit] = "skipped"]
    /\ pc' = "refresh"
    /\ UNCHANGED <<graph, run, failFast, latest, pos, status, runs>>

\* A prerequisite has a build.failed: the unit is skipped for the root cause
\* that one's build.skipped names, else for that one.
Skip ==
    /\ pc = "loop" /\ pos \in DOMAIN graph.order
    /\ \E d \in graph.deps[Unit] \cap failed[run] :
        skipped' = [skipped EXCEPT ![run][Unit] =
                        IF skipped[run][d] # NoUnit THEN skipped[run][d] ELSE d]
    /\ failed' = [failed EXCEPT ![run] = @ \cup {Unit}]
    /\ made' = [made EXCEPT ![Unit] = "skipped"]
    /\ pc' = "refresh"
    /\ UNCHANGED <<graph, run, failFast, latest, pos, status, runs>>

\* Mutant: the rm -f of an earlier invocation's build.skipped is missing.
EnterKeepsSkipped ==
    /\ pc = "loop" /\ pos \in DOMAIN graph.order
    /\ graph.deps[Unit] \cap failed[run] = {}
    /\ pc' = "making"
    /\ UNCHANGED <<graph, run, failFast, markers, pos, status, made, runs>>

\* No prerequisite failed: the unit's make is started.
Enter ==
    /\ pc = "loop" /\ pos \in DOMAIN graph.order
    /\ graph.deps[Unit] \cap failed[run] = {}
    /\ skipped' = [skipped EXCEPT ![run][Unit] = NoUnit]
    /\ pc' = "making"
    /\ UNCHANGED <<graph, run, failFast, failed, latest, pos, status, made, runs>>

\* Mutant: the rm -f of an earlier invocation's build.failed is missing.
SucceedKeepsFailed ==
    /\ pc = "making"
    /\ made' = [made EXCEPT ![Unit] = "ok"]
    /\ pc' = "refresh"
    /\ UNCHANGED <<graph, run, failFast, markers, pos, status, runs>>

Succeed ==
    /\ pc = "making"
    /\ failed' = [failed EXCEPT ![run] = @ \ {Unit}]
    /\ made' = [made EXCEPT ![Unit] = "ok"]
    /\ pc' = "refresh"
    /\ UNCHANGED <<graph, run, failFast, skipped, latest, pos, status, runs>>

\* FAIL_FAST=yes ends the invocation before runs/latest is refreshed.
Fail ==
    /\ pc = "making"
    /\ failed' = [failed EXCEPT ![run] = @ \cup {Unit}]
    /\ made' = [made EXCEPT ![Unit] = "failed"]
    /\ IF failFast THEN Exit("failfast") ELSE pc' = "refresh" /\ UNCHANGED status
    /\ UNCHANGED <<graph, run, failFast, skipped, latest, pos, runs>>

\* Mutant: the rm -rf before the cp -a is missing (the copy then lands inside
\* the directory that is there).
RefreshInside ==
    /\ pc = "refresh"
    /\ latest' = [latest EXCEPT ![Unit] =
                    IF @ # NoRun THEN @
                    ELSE [run |-> run, failed |-> Unit \in failed[run],
                          root |-> skipped[run][Unit]]]
    /\ IF failFast /\ made[Unit] = "skipped"
         THEN Exit("failfast") /\ UNCHANGED pos
         ELSE pc' = "loop" /\ pos' = pos + 1 /\ UNCHANGED status
    /\ UNCHANGED <<graph, run, failFast, failed, skipped, made, runs>>

\* Mutant: only build.log is copied, the markers are not.
RefreshLogOnly ==
    /\ pc = "refresh"
    /\ latest' = [latest EXCEPT ![Unit] = [run |-> run]]
    /\ IF failFast /\ made[Unit] = "skipped"
         THEN Exit("failfast") /\ UNCHANGED pos
         ELSE pc' = "loop" /\ pos' = pos + 1 /\ UNCHANGED status
    /\ UNCHANGED <<graph, run, failFast, failed, skipped, made, runs>>

\* A skipped unit's FAIL_FAST comes after the refresh.
Refresh ==
    /\ pc = "refresh"
    /\ latest' = [latest EXCEPT ![Unit] =
                    [run |-> run, failed |-> Unit \in failed[run], root |-> skipped[run][Unit]]]
    /\ IF failFast /\ made[Unit] = "skipped"
         THEN Exit("failfast") /\ UNCHANGED pos
         ELSE pc' = "loop" /\ pos' = pos + 1 /\ UNCHANGED status
    /\ UNCHANGED <<graph, run, failFast, failed, skipped, made, runs>>

LoopDone ==
    /\ pc = "loop" /\ pos \notin DOMAIN graph.order
    /\ pc' = "check"
    /\ UNCHANGED <<graph, run, failFast, markers, pos, status, made, runs>>

\* _check_build_failures: the markers become the exit status.
Check ==
    /\ pc = "check"
    /\ Exit(IF \E i \in DOMAIN graph.order : graph.order[i] \in failed[run]
              THEN "failed" ELSE "passed")
    /\ UNCHANGED <<graph, run, failFast, markers, pos, made, runs>>

\* The invocation is interrupted; between the rm and the cp of a refresh, it
\* leaves no runs/latest.
Kill ==
    /\ pc # "idle"
    /\ \/ UNCHANGED latest
       \/ pc = "refresh" /\ latest' = [latest EXCEPT ![Unit] = NoRun]
    /\ Exit("killed")
    /\ UNCHANGED <<graph, run, failFast, failed, skipped, pos, made, runs>>

Next == Begin \/ Refuse \/ Required \/ Skip \/ Enter \/ Succeed \/ Fail
            \/ Refresh \/ LoopDone \/ Check \/ Kill

Spec == Init /\ [][Next]_vars

-----------------------------------------------------------------------------
Present == {graph.order[i] : i \in DOMAIN graph.order}
Roots == [u \in Units |-> IF made[u] = "skipped" THEN skipped[run][u] ELSE NoUnit]

P == INSTANCE KeepGoing
        WITH phase <- status, present <- Present, deps <- graph.deps,
             result <- made, root <- Roots

\* The build keeps what a keep-going build promises: whatever markers earlier
\* invocations of this RUN_ID left, a module is attempted iff all it needs was
\* built in this one, is skipped only for one that was not, and the exit
\* status is 0 iff everything was built (_build_modules, 217-252, and
\* _check_build_failures, 179-197).
Promise == P!Spec

\* The root cause reported for a skipped module was attempted and failed in
\* this invocation, and the module needs it, directly or not (build.skipped is
\* carried along: 223-224, 230; what _check_build_failures prints, 191).
RootIsCause ==
    \A u \in Present : made[u] = "skipped" =>
        LET r == skipped[run][u]
        IN r \in Present /\ made[r] = "failed" /\ P!Reaches(graph.deps, u, r)

\* What the final report reads in the markers of a module the loop is done
\* with is what happened to it: failed, skipped or neither (188-195).
ReportIsTrue ==
    \A i \in DOMAIN graph.order :
        LET u == graph.order[i]
        IN i < pos =>
            /\ made[u] # "none"
            /\ u \in failed[run] <=> made[u] \in {"failed", "skipped"}
            /\ skipped[run][u] # NoUnit <=> made[u] = "skipped"

\* A build that reaches its end leaves in every module's runs/latest what this
\* run made of it (250-251, and 231 for a skipped one).
LatestKept ==
    status \in {"passed", "failed"} =>
        \A u \in Present :
            latest[u] = [run |-> run, failed |-> made[u] # "ok",
                         root |-> Roots[u]]
=============================================================================
