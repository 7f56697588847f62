--------------------------- MODULE WorkspaceBuild ---------------------------
(***************************************************************************)
(* `bmake all` in a workspace: mk.workspace.mk's all, _requires_preflight  *)
(* and _build_frameworks, with the markers a framework's own build leaves  *)
(* (FrameworkBuild; mk.skipped.mk for an excluded one).                    *)
(*                                                                         *)
(* As in a framework, one framework's shell command knows of the others by *)
(* the markers of this RUN_ID: build.failed and build.skipped, and two     *)
(* more.  build.excluded says that PLATFORMS=/TOOLCHAINS= exclude the      *)
(* framework here.  build.testsonly says that only test modules failed:    *)
(* the framework failed, but what it ships is there for its dependents.    *)
(***************************************************************************)
EXTENDS Naturals, Sequences

CONSTANTS
    Frameworks,  \* the frameworks of the workspace
    RunIds,      \* values of RUN_ID
    Configs,     \* what the makefiles can say
    MaxRuns,     \* bound: the invocations of a behaviour
    NoRoot,      \* no build.skipped
    NoRun        \* no runs/latest

\* SUBDIR_FRAMEWORKS, each after its PREREQS; and the frameworks that
\* PLATFORMS=/TOOLCHAINS= exclude for this target.
Config == [order : Seq(Frameworks), prereqs : [Frameworks -> SUBSET Frameworks],
           excludes : SUBSET Frameworks]
Sorted(c) ==
    /\ \A i, j \in DOMAIN c.order : c.order[i] = c.order[j] => i = j
    /\ \A i \in DOMAIN c.order : \A p \in c.prereqs[c.order[i]] :
            \E j \in DOMAIN c.order : j < i /\ c.order[j] = p

\* What runs/latest is a copy of.
Snapshot == [run : RunIds, failed : BOOLEAN, root : Frameworks \cup {NoRoot}]

ASSUME WorkspaceBuildAssumption ==
    /\ NoRoot \notin Frameworks /\ NoRun \notin Snapshot
    /\ \A c \in Configs : c \in Config /\ Sorted(c)
    /\ MaxRuns \in Nat

-----------------------------------------------------------------------------
VARIABLES
    config,     \* the makefiles
    run,        \* RUN_ID
    failFast,   \* FAIL_FAST
    failed,     \* failed[r]: the frameworks with a build.failed in run r
    skipped,    \* skipped[r][f]: what f's build.skipped holds in run r
    excluded,   \* excluded[r]: those with a build.excluded
    testsonly,  \* testsonly[r]: those with a build.testsonly
    modFailed,  \* modFailed[r]: those with a build.failed in a *.m of theirs
    tstFailed,  \* tstFailed[r]: those with a build.failed in a *.tst of theirs
    latest,     \* latest[f]: f's runs/latest
    pc,         \* where the invocation is
    pos,        \* the loop's place in the order
    status,     \* how the invocation ended
    made,       \* history: what came of each framework in this invocation
    used,       \* history: the RUN_IDs of the earlier invocations
    runs        \* the invocations so far

own == <<failed, skipped, testsonly>>
nested == <<excluded, modFailed, tstFailed>>
setup == <<config, run, failFast, used, runs>>
vars == <<setup, own, nested, latest, pc, pos, status, made>>

PCs == {"idle", "preflight", "loop", "making", "refresh", "check"}
Statuses == {"none", "building", "passed", "failed", "failfast", "refused", "killed"}

\* "tests": only test modules failed, and the rest was copied up; "cannot":
\* it needs a framework that is not built here.
Made == {"none", "ok", "excluded", "tests", "failed", "skipped", "cannot"}
Bad == {"failed", "skipped", "cannot"}

TypeOK ==
    /\ config \in Configs
    /\ run \in RunIds
    /\ failFast \in BOOLEAN
    /\ failed \in [RunIds -> SUBSET Frameworks]
    /\ skipped \in [RunIds -> [Frameworks -> Frameworks \cup {NoRoot}]]
    /\ excluded \in [RunIds -> SUBSET Frameworks]
    /\ testsonly \in [RunIds -> SUBSET Frameworks]
    /\ modFailed \in [RunIds -> SUBSET Frameworks]
    /\ tstFailed \in [RunIds -> SUBSET Frameworks]
    /\ latest \in [Frameworks -> Snapshot \cup {NoRun}]
    /\ pc \in PCs
    /\ pos \in Nat \ {0}
    /\ status \in Statuses
    /\ made \in [Frameworks -> Made]
    /\ used \in SUBSET RunIds
    /\ runs \in 0..MaxRuns

Nothing == [r \in RunIds |-> {}]

Init ==
    /\ config \in Configs
    /\ run \in RunIds
    /\ failFast \in BOOLEAN
    /\ failed = Nothing
    /\ skipped = [r \in RunIds |-> [f \in Frameworks |-> NoRoot]]
    /\ excluded = Nothing
    /\ testsonly = Nothing
    /\ modFailed = Nothing
    /\ tstFailed = Nothing
    /\ latest = [f \in Frameworks |-> NoRun]
    /\ pc = "idle"
    /\ pos = 1
    /\ status = "none"
    /\ made = [f \in Frameworks |-> "none"]
    /\ used = {}
    /\ runs = 0

-----------------------------------------------------------------------------
F == config.order[pos]
Exit(s) == pc' = "idle" /\ status' = s
Add(marker) == [marker EXCEPT ![run] = @ \cup {F}]
Remove(marker) == [marker EXCEPT ![run] = @ \ {F}]

\* bmake all, with a RUN_ID of its own or one used before.
Begin ==
    /\ pc = "idle" /\ runs < MaxRuns
    /\ config' \in Configs
    /\ run' \in RunIds
    /\ failFast' \in BOOLEAN
    /\ used' = IF status = "none" THEN used ELSE used \cup {run}
    /\ pc' = "preflight"
    /\ pos' = 1
    /\ status' = "building"
    /\ made' = [f \in Frameworks |-> "none"]
    /\ runs' = runs + 1
    /\ UNCHANGED <<own, nested, latest>>

\* _requires_preflight: something is missing, and nothing is built.
Refuse ==
    /\ pc = "preflight"
    /\ Exit("refused")
    /\ UNCHANGED <<setup, own, nested, latest, pos, made>>

Required ==
    /\ pc = "preflight"
    /\ pc' = "loop"
    /\ UNCHANGED <<setup, own, nested, latest, pos, status, made>>

\* Mutant: build.testsonly is not asked for.
WhysForTests == {p \in config.prereqs[F] : p \in failed[run]}

\* $_why: a prerequisite failed, and not for its tests only.  PREREQS= is
\* asked only when an earlier framework has a marker ($_anyfail), which such
\* a prerequisite is.
Whys == {p \in config.prereqs[F] : p \in failed[run] \ testsonly[run]}

\* $_excl: one is excluded here, and this framework is not.
Excls == {p \in config.prereqs[F] : p \in excluded[run] /\ F \notin config.excludes}

InLoop == pc = "loop" /\ pos \in DOMAIN config.order

\* With FAIL_FAST=yes the two that are not built end the loop before their
\* runs/latest is refreshed, as one whose make fails does.
StopOrRefresh ==
    IF failFast THEN Exit("failfast") ELSE pc' = "refresh" /\ UNCHANGED status

CannotBuild ==
    /\ InLoop /\ Whys = {} /\ Excls # {}
    /\ failed' = Add(failed)
    /\ made' = [made EXCEPT ![F] = "cannot"]
    /\ StopOrRefresh
    /\ UNCHANGED <<setup, skipped, testsonly, nested, latest, pos>>

\* Mutants: the root cause is the direct prerequisite; a skipped framework
\* gets no build.failed.
SkipForDirect ==
    /\ InLoop
    /\ \E p \in Whys : skipped' = [skipped EXCEPT ![run][F] = p]
    /\ failed' = Add(failed)
    /\ made' = [made EXCEPT ![F] = "skipped"]
    /\ StopOrRefresh
    /\ UNCHANGED <<setup, testsonly, nested, latest, pos>>
SkipUnmarked ==
    /\ InLoop
    /\ \E p \in Whys :
        skipped' = [skipped EXCEPT ![run][F] =
                        IF skipped[run][p] # NoRoot THEN skipped[run][p] ELSE p]
    /\ made' = [made EXCEPT ![F] = "skipped"]
    /\ StopOrRefresh
    /\ UNCHANGED <<setup, failed, testsonly, nested, latest, pos>>

Skip ==
    /\ InLoop
    /\ \E p \in Whys :
        skipped' = [skipped EXCEPT ![run][F] =
                        IF skipped[run][p] # NoRoot THEN skipped[run][p] ELSE p]
    /\ failed' = Add(failed)
    /\ made' = [made EXCEPT ![F] = "skipped"]
    /\ StopOrRefresh
    /\ UNCHANGED <<setup, testsonly, nested, latest, pos>>

Enter ==
    /\ InLoop /\ Whys = {} /\ Excls = {}
    /\ skipped' = [skipped EXCEPT ![run][F] = NoRoot]
    /\ pc' = "making"
    /\ UNCHANGED <<setup, failed, testsonly, nested, latest, pos, status, made>>

\* The framework's make succeeds: every module was built, and their markers
\* of this RUN_ID are gone.
Succeed ==
    /\ pc = "making" /\ F \notin config.excludes
    /\ modFailed' = Remove(modFailed)
    /\ tstFailed' = Remove(tstFailed)
    /\ failed' = Remove(failed)
    /\ made' = [made EXCEPT ![F] = "ok"]
    /\ pc' = "refresh"
    /\ UNCHANGED <<setup, skipped, testsonly, excluded, latest, pos, status>>

\* The framework is excluded here: mk.skipped.mk says so and succeeds.
Exclude ==
    /\ pc = "making" /\ F \in config.excludes
    /\ excluded' = Add(excluded)
    /\ failed' = Remove(failed)
    /\ made' = [made EXCEPT ![F] = "excluded"]
    /\ pc' = "refresh"
    /\ UNCHANGED <<setup, skipped, testsonly, modFailed, tstFailed, latest, pos, status>>

\* What a failing make leaves in the framework's modules: it failed in its
\* modules, or in its test modules only; or it did not come to building them
\* (a makefile that cannot be read), or failed in its copy-up after it did.
Failures == {"modules", "tests", "early", "late"}
ModuleMarkers(why) ==
    /\ modFailed' = CASE why = "modules" -> Add(modFailed)
                      [] why = "early"   -> modFailed
                      [] OTHER           -> Remove(modFailed)
    /\ tstFailed' \in CASE why = "modules" -> {Add(tstFailed), Remove(tstFailed)}
                        [] why = "tests"   -> {Add(tstFailed)}
                        [] why = "early"   -> {tstFailed}
                        [] why = "late"    -> {Remove(tstFailed)}

\* build.testsonly is written when only *.tst modules have a build.failed and
\* the framework's _copy_up works.
Fail ==
    /\ pc = "making" /\ F \notin config.excludes
    /\ failed' = Add(failed)
    /\ \E why \in Failures, copied \in BOOLEAN :
        LET only == F \in tstFailed'[run] /\ F \notin modFailed'[run] /\ copied
        IN /\ ModuleMarkers(why)
           /\ testsonly' = IF only THEN Add(testsonly) ELSE Remove(testsonly)
           /\ made' = [made EXCEPT ![F] = IF why = "tests" /\ only THEN "tests" ELSE "failed"]
    /\ StopOrRefresh
    /\ UNCHANGED <<setup, skipped, excluded, latest, pos>>

\* Mutant: the rm -rf before the cp -a is missing (the copy then lands inside
\* the directory that is there).
RefreshInside ==
    /\ pc = "refresh"
    /\ latest' = [latest EXCEPT ![F] =
                    IF @ # NoRun THEN @
                    ELSE [run |-> run, failed |-> F \in failed[run], root |-> skipped[run][F]]]
    /\ pc' = "loop"
    /\ pos' = pos + 1
    /\ UNCHANGED <<setup, own, nested, status, made>>

\* Mutant: only build.log is copied, the markers are not.
RefreshLogOnly ==
    /\ pc = "refresh"
    /\ latest' = [latest EXCEPT ![F] = [run |-> run]]
    /\ pc' = "loop"
    /\ pos' = pos + 1
    /\ UNCHANGED <<setup, own, nested, status, made>>

Refresh ==
    /\ pc = "refresh"
    /\ latest' = [latest EXCEPT ![F] =
                    [run |-> run, failed |-> F \in failed[run], root |-> skipped[run][F]]]
    /\ pc' = "loop"
    /\ pos' = pos + 1
    /\ UNCHANGED <<setup, own, nested, status, made>>

LoopDone ==
    /\ pc = "loop" /\ pos \notin DOMAIN config.order
    /\ pc' = "check"
    /\ UNCHANGED <<setup, own, nested, latest, pos, status, made>>

\* Mutant: a framework that failed in its tests only does not count.
CheckForgivesTests ==
    /\ pc = "check"
    /\ Exit(IF \E i \in DOMAIN config.order :
                    LET f == config.order[i]
                    IN skipped[run][f] # NoRoot \/ f \in failed[run] \ testsonly[run]
              THEN "failed" ELSE "passed")
    /\ UNCHANGED <<setup, own, nested, latest, pos, made>>

\* The end of `all`: the markers become the exit status.
Check ==
    /\ pc = "check"
    /\ Exit(IF \E i \in DOMAIN config.order :
                    LET f == config.order[i] IN skipped[run][f] # NoRoot \/ f \in failed[run]
              THEN "failed" ELSE "passed")
    /\ UNCHANGED <<setup, own, nested, latest, pos, made>>

\* Interrupted; a framework being made leaves its modules' markers anyhow.
Kill ==
    /\ pc # "idle"
    /\ \/ UNCHANGED <<modFailed, tstFailed>>
       \/ /\ pc = "making"
          /\ modFailed' \in {Add(modFailed), Remove(modFailed)}
          /\ tstFailed' \in {Add(tstFailed), Remove(tstFailed)}
    /\ \/ UNCHANGED latest
       \/ pc = "refresh" /\ latest' = [latest EXCEPT ![F] = NoRun]
    /\ Exit("killed")
    /\ UNCHANGED <<setup, own, excluded, pos, made>>

Next == Begin \/ Refuse \/ Required \/ CannotBuild \/ Skip \/ Enter \/ Succeed
            \/ Exclude \/ Fail \/ Refresh \/ LoopDone \/ Check \/ Kill

Spec == Init /\ [][Next]_vars

-----------------------------------------------------------------------------
Present == {config.order[i] : i \in DOMAIN config.order}
Ended == status \in {"passed", "failed"}

\* This invocation's RUN_ID was not used before.
Fresh == run \notin used

\* A framework is reached from f along PREREQS=.
Reaches(f, r) ==
    \A S \in SUBSET Frameworks :
        (config.prereqs[f] \subseteq S /\ \A x \in S : config.prereqs[x] \subseteq S) => r \in S

\* With a RUN_ID of its own, a framework is built only if none of its PREREQS=
\* failed, was skipped or could not be built, a failure of tests aside, and
\* only if those it needs are built here ("a framework whose PREREQS= names a
\* framework that failed (or was itself skipped) is not built", 201-203).
PrereqsHold ==
    Fresh => \A f \in Present :
        made[f] \in {"ok", "tests", "failed"} =>
            \A p \in config.prereqs[f] : made[p] \notin Bad \cup {"excluded"}

\* Independent frameworks are attempted: one is skipped only for a PREREQS=
\* that really went wrong in this invocation, never for its tests alone,
\* whatever markers earlier invocations of the RUN_ID left (207-208, 218-220).
SkippedForReason ==
    \A f \in Present : made[f] = "skipped" =>
        \E p \in config.prereqs[f] : made[p] \in Bad

\* With a RUN_ID of its own, the root cause a skipped framework is put down
\* to, and the exclusion another cannot be built for, are real ones of this
\* invocation (203-206, 243-244).
CauseIsReal ==
    Fresh => \A f \in Present :
        /\ made[f] = "skipped" =>
            LET r == skipped[run][f] IN made[r] \in {"failed", "cannot"} /\ Reaches(f, r)
        /\ made[f] = "cannot" =>
            \E p \in config.prereqs[f] : made[p] = "excluded"

\* The workspace's exit status is 0 iff every framework was built or is
\* excluded here, whatever markers were left (139-164).
ExitIsTrue ==
    Ended => (status = "passed" <=> \A f \in Present : made[f] \in {"ok", "excluded"})

\* A build that reaches its end leaves in every framework's runs/latest this
\* run, and whether it failed (190-192, 283-284).
LatestKept ==
    Ended => \A f \in Present :
        /\ latest[f] # NoRun
        /\ latest[f].run = run
        /\ latest[f].failed <=> made[f] \notin {"ok", "excluded"}

\* "a framework whose PREREQS= names a framework that failed (or was itself
\* skipped) is not built" (201-203), also when the RUN_ID was used before.
SkippedIsNotBuilt ==
    \A f \in Present : made[f] \in {"ok", "tests", "failed"} =>
        \A p \in config.prereqs[f] : made[p] # "skipped"
=============================================================================
