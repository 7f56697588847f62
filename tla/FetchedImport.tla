---------------------------- MODULE FetchedImport ----------------------------
(***************************************************************************)
(* A library module with IMPORT=fetch: and FETCH_BUILD=, or with           *)
(* IMPORT=fetch-bin:, in mk.lib.mk: _fetch_import, _fetch_build and        *)
(* _stage_import, the three recipes of its `all`.                          *)
(*                                                                         *)
(* Each recipe leaves a fingerprint of its inputs when it is done, and a   *)
(* later build that finds the same one passes over the recipe.  work/ (the *)
(* extracted source and the prefix it was installed into) is shared by the *)
(* target keys; what is staged is per key.  Any step can fail or be        *)
(* interrupted, and the makefile is edited between builds, back to an      *)
(* earlier version too.                                                    *)
(*                                                                         *)
(* The recipes run without sh -e (but on FreeBSD: mk.framework.mk:323),    *)
(* and their rm, cp, ln, mv and echo are not checked: one that fails does  *)
(* not stop the recipe, which goes on to write its fingerprint.            *)
(***************************************************************************)
EXTENDS Naturals

CONSTANTS
    Versions,   \* what the makefile, distinfo and patches/ can ask for
    Dist,       \* Dist[v]: the basename of v's distfile
    Inputs,     \* Inputs[v]: FETCH_URL= and FETCH_PATCHES= of v
    Headers,    \* Headers[v]: IMPORT_HEADERS= of v
    Keys,       \* target keys
    Kinds,      \* the kinds of import of the behaviours
    MaxBuilds,  \* bound: the builds of a behaviour
    MaxSlips,   \* bound: the steps of it in which a command fails unnoticed
    Nothing     \* no file, no fingerprint

\* A source tree, and what was built from one (or, for fetch-bin:, the tree
\* itself, taken as it is).  "part": some of the files, or others among them;
\* "copied": all of them, not yet patched by every patch; "whole": that too.
Tree == [of : Versions, verified : BOOLEAN, made : {"part", "copied", "whole"}]
Product == [tree : Tree, key : Keys \cup {Nothing}, made : {"part", "whole"}]
Parts == {"headers", "library"}
Steps == {"tree", "prefix"} \cup Keys

ExtractFps == {Inputs[v] : v \in Versions}
BuildFps == [inputs : ExtractFps \cup {Nothing}, key : Keys]
StageFps == {Headers[v] : v \in Versions}

ASSUME FetchedImportAssumption ==
    /\ Kinds \subseteq {"source-build", "binary"}
    /\ MaxBuilds \in Nat /\ MaxSlips \in Nat
    /\ Nothing \notin ExtractFps /\ Nothing \notin BuildFps /\ Nothing \notin StageFps
    /\ Nothing \notin Tree /\ Nothing \notin Product
    /\ Nothing \notin {"right", "wrong"}
    /\ Keys \cap {"tree", "prefix"} = {}

-----------------------------------------------------------------------------
VARIABLES
    kind,        \* _IMPORT_KIND
    want,        \* what is asked for
    key,         \* the key being built
    dist,        \* distfiles/: the content of each
    tree,        \* work/_resolved
    extractFp,   \* work/.extract-fp
    prefix,      \* work/_install, and work/_build
    buildFp,     \* work/.build-fp
    staged,      \* staged[k]: the headers and the library staged for k
    stageFp,     \* stageFp[k]: .stage-fp
    pc,          \* where the build is
    status,      \* how it ended
    builds,      \* the builds so far
    unfinished,  \* history: the steps begun and not finished since
    passed,      \* history: a build passed over an unfinished step
    slipped,     \* history: the steps in which a command failed unnoticed, or
                 \* that worked on what such a step left
    slips        \* how often that happened so far

work == <<tree, extractFp, prefix, buildFp>>
stage == <<staged, stageFp>>
asked == <<kind, want, key, builds>>
history == <<unfinished, passed, slipped, slips>>
vars == <<asked, dist, work, stage, pc, status, history>>

Contents == {"right", "wrong"}  \* as distinfo's SHA256 says
PCs == {"idle", "fetch", "verify", "extract", "patch", "build", "make", "stage", "library"}

TypeOK ==
    /\ kind \in Kinds
    /\ want \in Versions
    /\ key \in Keys
    /\ dist \in [{Dist[v] : v \in Versions} -> Contents \cup {Nothing}]
    /\ tree \in Tree \cup {Nothing}
    /\ extractFp \in ExtractFps \cup {Nothing}
    /\ prefix \in Product \cup {Nothing}
    /\ buildFp \in BuildFps \cup {Nothing}
    /\ staged \in [Keys -> [Parts -> Product \cup {Nothing}]]
    /\ stageFp \in [Keys -> StageFps \cup {Nothing}]
    /\ pc \in PCs
    /\ status \in {"none", "building", "done", "failed", "killed"}
    /\ builds \in 0..MaxBuilds
    /\ unfinished \in SUBSET Steps
    /\ passed \in BOOLEAN
    /\ slipped \in SUBSET Steps
    /\ slips \in 0..MaxSlips

Unstaged == [part \in Parts |-> Nothing]

Init ==
    /\ kind \in Kinds
    /\ want \in Versions
    /\ key \in Keys
    /\ dist = [d \in {Dist[v] : v \in Versions} |-> Nothing]
    /\ tree = Nothing /\ extractFp = Nothing
    /\ prefix = Nothing /\ buildFp = Nothing
    /\ staged = [k \in Keys |-> Unstaged]
    /\ stageFp = [k \in Keys |-> Nothing]
    /\ pc = "idle" /\ status = "none" /\ builds = 0
    /\ unfinished = {} /\ passed = FALSE /\ slipped = {} /\ slips = 0

Exit(s) == pc' = "idle" /\ status' = s
Goto(place) == pc' = place /\ status' = status
Fails(place) == pc = place /\ Exit("failed")

\* A command of step fails and is not noticed.
Slips(step) ==
    /\ slips < MaxSlips /\ slips' = slips + 1
    /\ slipped' = slipped \cup {step}

\* What an rm -rf of x that fails leaves.
Remains(x) == IF x = Nothing THEN {} ELSE {[x EXCEPT !.made = "part"]}

\* A build, for this or another key, after the makefile was edited or not.
Begin ==
    /\ pc = "idle" /\ builds < MaxBuilds
    /\ want' \in Versions
    /\ key' \in Keys
    /\ builds' = builds + 1
    /\ pc' = "fetch" /\ status' = "building"
    /\ UNCHANGED <<kind, dist, work, stage, history>>

-----------------------------------------------------------------------------
(* _fetch_import                                                           *)

\* The fingerprint has the URLs and the names of the patches; nothing of
\* distinfo, nor of what the patches hold.
Extracted == extractFp = Inputs[want] /\ tree # Nothing

PassFetch ==
    /\ pc = "fetch" /\ Extracted
    /\ passed' = (passed \/ "tree" \in unfinished)
    /\ Goto("build")
    /\ UNCHANGED <<asked, dist, work, stage, unfinished, slipped, slips>>

\* Mutant: a distfile that is there is not verified again.
HaveUnverified ==
    /\ pc = "fetch" /\ ~Extracted /\ dist[Dist[want]] # Nothing
    /\ Goto("extract")
    /\ UNCHANGED <<asked, dist, work, stage, history>>

\* The distfile is there, from whatever build put it there.
Have ==
    /\ pc = "fetch" /\ ~Extracted /\ dist[Dist[want]] # Nothing
    /\ Goto("verify")
    /\ UNCHANGED <<asked, dist, work, stage, history>>

\* It is downloaded to a file of its own and renamed (a mv that fails shows
\* when the file is verified); or every URL fails.
Download ==
    /\ pc = "fetch" /\ ~Extracted /\ dist[Dist[want]] = Nothing
    /\ \E c \in Contents \cup {Nothing} : dist' = [dist EXCEPT ![Dist[want]] = c]
    /\ Goto("verify")
    /\ UNCHANGED <<asked, work, stage, history>>

DownloadFails ==
    /\ Fails("fetch") /\ ~Extracted /\ dist[Dist[want]] = Nothing
    /\ UNCHANGED <<asked, dist, work, stage, history>>

Verify ==
    /\ pc = "verify" /\ dist[Dist[want]] = "right"
    /\ Goto("extract")
    /\ UNCHANGED <<asked, dist, work, stage, history>>

\* Mutant: a wrong distfile is emptied, not removed.
VerifyFailsEmpties ==
    /\ Fails("verify")
    /\ \/ /\ dist[Dist[want]] = "wrong"
          /\ dist' = [dist EXCEPT ![Dist[want]] = "empty"]
       \/ UNCHANGED dist
    /\ UNCHANGED <<asked, work, stage, history>>

\* A wrong checksum deletes the distfile; or distinfo has none for it, or
\* there is no tool to compute it.
VerifyFails ==
    /\ Fails("verify")
    /\ \/ /\ dist[Dist[want]] = "wrong"
          /\ dist' = [dist EXCEPT ![Dist[want]] = Nothing]
       \/ UNCHANGED dist
    /\ UNCHANGED <<asked, work, stage, history>>

\* The old tree goes, or some of it stays; the distfile cannot be unpacked, or
\* is empty.
ExtractFails ==
    /\ Fails("extract")
    /\ \/ tree' = Nothing /\ UNCHANGED <<unfinished, slipped, slips>>
       \/ tree' \in Remains(tree) /\ unfinished' = unfinished \cup {"tree"} /\ Slips("tree")
    /\ UNCHANGED <<asked, dist, extractFp, prefix, buildFp, stage, passed>>

NewTree(made) == [of |-> want, verified |-> dist[Dist[want]] = "right", made |-> made]

\* The old tree goes, and the new one is copied to its place.
Extract ==
    /\ pc = "extract"
    /\ tree' = NewTree("copied")
    /\ unfinished' = unfinished \cup {"tree"}
    /\ slipped' = slipped \ {"tree"}
    /\ Goto("patch")
    /\ UNCHANGED <<asked, dist, extractFp, prefix, buildFp, stage, passed, slips>>

\* The rm -rf or the cp -a fails: no tree, some of the new one, or some of
\* the old one, with the new one inside.
ExtractSlips ==
    /\ pc = "extract"
    /\ tree' \in {Nothing, NewTree("part")} \cup Remains(tree)
    /\ unfinished' = unfinished \cup {"tree"}
    /\ Slips("tree")
    /\ Goto("patch")
    /\ UNCHANGED <<asked, dist, extractFp, prefix, buildFp, stage, passed>>

PatchFails ==
    /\ Fails("patch")
    /\ UNCHANGED <<asked, dist, work, stage, history>>

\* Every patch applies, or there is none; the fingerprint is written, or is
\* left empty or as it was, and the build goes on.
Patch ==
    /\ pc = "patch"
    /\ IF tree # Nothing /\ tree.made = "copied"
       THEN tree' = [tree EXCEPT !.made = "whole"]
       ELSE UNCHANGED tree
    /\ unfinished' = unfinished \ {"tree"}
    /\ \/ extractFp' = Inputs[want] /\ UNCHANGED <<slipped, slips>>
       \/ extractFp' \in {Nothing, extractFp} /\ Slips("tree")
    /\ Goto("build")
    /\ UNCHANGED <<asked, dist, prefix, buildFp, stage, passed>>

-----------------------------------------------------------------------------
(* _fetch_build, for the kind source-build                                 *)

\* Mutant: the fingerprint without the compiler and its flags.
BuildInputsNoKey == [inputs |-> extractFp, key |-> CHOOSE k \in Keys : TRUE]

\* What the fingerprint is of: the extraction's, and this key's compiler and
\* flags.
BuildInputs == [inputs |-> extractFp, key |-> key]

PassBuild ==
    /\ pc = "build"
    /\ \/ kind = "binary" /\ UNCHANGED passed
       \/ /\ kind = "source-build" /\ buildFp = BuildInputs
          /\ passed' = (passed \/ "prefix" \in unfinished)
    /\ Goto("stage")
    /\ UNCHANGED <<asked, dist, work, stage, unfinished, slipped, slips>>

\* The old prefix goes before the build begins; or the rm -rf fails, and the
\* build goes over what stays.
Wipe ==
    /\ pc = "build" /\ kind = "source-build" /\ buildFp # BuildInputs
    /\ \/ prefix' = Nothing /\ slipped' = slipped \ {"prefix"} /\ UNCHANGED slips
       \/ prefix' \in Remains(prefix) /\ Slips("prefix")
    /\ unfinished' = unfinished \cup {"prefix"}
    /\ Goto("make")
    /\ UNCHANGED <<asked, dist, tree, extractFp, buildFp, stage, passed>>

\* The build installs the tree's files, beside those that stayed.
Installed(made) ==
    [tree |-> tree, key |-> key, made |-> IF prefix = Nothing THEN made ELSE "part"]

MakeFails ==
    /\ Fails("make")
    /\ \/ UNCHANGED prefix
       \/ tree # Nothing /\ prefix' = Installed("part")
    /\ UNCHANGED <<asked, dist, tree, extractFp, buildFp, stage, history>>

\* The upstream build says that it succeeded, of whatever tree there is; the
\* fingerprint is written, or is left empty or as it was.
Make ==
    /\ pc = "make" /\ tree # Nothing
    /\ prefix' = Installed("whole")
    /\ unfinished' = unfinished \ {"prefix"}
    /\ \/ /\ buildFp' = BuildInputs
          /\ slipped' = IF "tree" \in slipped THEN slipped \cup {"prefix"} ELSE slipped
          /\ UNCHANGED slips
       \/ buildFp' \in {Nothing, buildFp} /\ Slips("prefix")
    /\ Goto("stage")
    /\ UNCHANGED <<asked, dist, tree, extractFp, stage, passed>>

-----------------------------------------------------------------------------
(* _stage_import                                                           *)

\* What is staged from: the prefix, or the tree of a fetch-bin: import.
Source ==
    IF kind = "source-build" THEN prefix
    ELSE IF tree = Nothing THEN Nothing
    ELSE [tree |-> tree, key |-> Nothing,
          made |-> IF tree.made = "whole" THEN "whole" ELSE "part"]

\* Mutant: what was staged is not looked for.
StagedByFp == stageFp[key] = Headers[want]

\* The fingerprint has IMPORT=, IMPORT_HEADERS= and the prefix's path; and
\* every file staged is still there (_STAGE_OUT_CHECK).
Staged ==
    /\ stageFp[key] = Headers[want]
    /\ \A part \in Parts : staged[key][part] # Nothing

PassStage ==
    /\ pc = "stage" /\ Staged
    /\ passed' = (passed \/ key \in unfinished)
    /\ Exit("done")
    /\ UNCHANGED <<asked, dist, work, stage, unfinished, slipped, slips>>

\* No header of that name, or (an empty prefix) no header at all.
StageFails ==
    /\ Fails("stage") /\ ~Staged
    /\ UNCHANGED <<asked, dist, work, stage, history>>

\* What a copy that fails leaves staged: nothing, what was there, or a part.
Spoilt(part) == {Nothing, staged[key][part]} \cup Remains(Source)

\* Every header is copied; or a cp fails, and the recipe goes on.
StageHeaders ==
    /\ pc = "stage" /\ ~Staged /\ Source # Nothing
    /\ \/ /\ staged' = [staged EXCEPT ![key]["headers"] = Source]
          /\ slipped' = slipped \ {key} /\ UNCHANGED slips
       \/ /\ \E x \in Spoilt("headers") : staged' = [staged EXCEPT ![key]["headers"] = x]
          /\ Slips(key)
    /\ unfinished' = unfinished \cup {key}
    /\ Goto("library")
    /\ UNCHANGED <<asked, dist, work, stageFp, passed>>

\* Another header is missing, or there is no library file.
LibraryFails ==
    /\ Fails("library")
    /\ UNCHANGED <<asked, dist, work, stage, history>>

\* The library is copied and the fingerprint written.
StageLibrary ==
    /\ pc = "library" /\ Source # Nothing
    /\ staged' = [staged EXCEPT ![key]["library"] = Source]
    /\ stageFp' = [stageFp EXCEPT ![key] = Headers[want]]
    /\ unfinished' = unfinished \ {key}
    /\ Exit("done")
    /\ UNCHANGED <<asked, dist, work, passed, slipped, slips>>

\* An rm, cp or ln of the library fails, or the fingerprint is left empty or
\* as it was (without .stage-out, as without fingerprint, the next build stages
\* again), and the build is done all the same.
LibrarySlips ==
    /\ pc = "library" /\ Source # Nothing
    /\ \E x \in {Source} \cup Spoilt("library") :
         staged' = [staged EXCEPT ![key]["library"] = x]
    /\ \E fp \in {Headers[want], Nothing, stageFp[key]} :
         stageFp' = [stageFp EXCEPT ![key] = fp]
    /\ unfinished' = unfinished \ {key}
    /\ Slips(key)
    /\ Exit("done")
    /\ UNCHANGED <<asked, dist, work, passed>>

-----------------------------------------------------------------------------
\* The build is interrupted, inside a copy or an upstream build too.
Kill ==
    /\ pc # "idle"
    /\ \/ UNCHANGED <<tree, prefix>>
       \/ pc = "extract" /\ tree' = Nothing /\ UNCHANGED prefix
       \/ /\ pc = "make" /\ tree # Nothing
          /\ \E made \in {"part", "whole"} : prefix' = Installed(made)
          /\ UNCHANGED tree
    /\ Exit("killed")
    /\ UNCHANGED <<asked, dist, extractFp, buildFp, stage, history>>

\* It is interrupted inside the removal of the tree or of the prefix, of which
\* a part stays.
KillRemoving ==
    /\ \/ /\ pc = "extract"
          /\ tree' \in Remains(tree)
          /\ unfinished' = unfinished \cup {"tree"}
          /\ UNCHANGED prefix
       \/ /\ pc = "build" /\ kind = "source-build" /\ buildFp # BuildInputs
          /\ prefix' \in Remains(prefix)
          /\ unfinished' = unfinished \cup {"prefix"}
          /\ UNCHANGED tree
    /\ Exit("killed")
    /\ UNCHANGED <<asked, dist, extractFp, buildFp, stage, passed, slipped, slips>>

\* bmake clean for key k: the module's build/<k> and work/ go; the headers
\* staged into the framework stay.
Clean(k) ==
    /\ pc = "idle"
    /\ tree' = Nothing /\ extractFp' = Nothing
    /\ prefix' = Nothing /\ buildFp' = Nothing
    /\ staged' = [staged EXCEPT ![k]["library"] = Nothing]
    /\ stageFp' = [stageFp EXCEPT ![k] = Nothing]
    /\ unfinished' = unfinished \ {"tree", "prefix", k}
    /\ slipped' = slipped \ {"tree", "prefix", k}
    /\ status' = "none"
    /\ UNCHANGED <<asked, dist, pc, passed, slips>>

\* bmake clean CLEAN_ALL_TARGETS=yes: every key's, and the distfiles.
CleanAll ==
    /\ pc = "idle"
    /\ dist' = [d \in DOMAIN dist |-> Nothing]
    /\ tree' = Nothing /\ extractFp' = Nothing
    /\ prefix' = Nothing /\ buildFp' = Nothing
    /\ staged' = [k \in Keys |-> [staged[k] EXCEPT !["library"] = Nothing]]
    /\ stageFp' = [k \in Keys |-> Nothing]
    /\ unfinished' = {} /\ slipped' = {}
    /\ status' = "none"
    /\ UNCHANGED <<asked, pc, passed, slips>>

\* The framework's build/<k>/include is removed or made anew.
Lose(k) ==
    /\ pc = "idle"
    /\ staged' = [staged EXCEPT ![k]["headers"] = Nothing]
    /\ status' = "none"
    /\ UNCHANGED <<asked, dist, work, stageFp, pc, history>>

Next ==
    \/ Begin
    \/ PassFetch \/ Have \/ Download \/ DownloadFails \/ Verify \/ VerifyFails
    \/ ExtractFails \/ Extract \/ ExtractSlips \/ PatchFails \/ Patch
    \/ PassBuild \/ Wipe \/ MakeFails \/ Make
    \/ PassStage \/ StageFails \/ StageHeaders \/ LibraryFails \/ StageLibrary \/ LibrarySlips
    \/ \E k \in Keys : Clean(k) \/ Lose(k)
    \/ CleanAll \/ Kill \/ KillRemoving

Spec == Init /\ [][Next]_vars

-----------------------------------------------------------------------------
\* Nothing is extracted, built or staged from a distfile whose SHA-256 is not
\* distinfo's, also when it was downloaded by a build that was interrupted
\* ("extraction never proceeds on unverified content, whether the distfile
\* was just downloaded or already sitting in distfiles/",
\* docs/spec/26-fetched-external-sources.md:151-153; 1320-1325).
OnlyVerified ==
    /\ tree # Nothing => tree.verified
    /\ prefix # Nothing => prefix.tree.verified
    /\ \A k \in Keys, part \in Parts : staged[k][part] # Nothing => staged[k][part].tree.verified

\* What a build goes on to stage from is whole, of the URLs and patches it
\* asks for, and built for its key: however the builds change versions and
\* keys, a fingerprint lets no step be passed over that has to be done --
\* unless some build passed over an unfinished one (1255-1258, 1458-1461), or
\* a command of the extraction or of the build failed unnoticed, in this build
\* or in the one that wrote the fingerprint (1327, 1351, 1361, 1464).
SourceIsWanted ==
    pc \in {"stage", "library"} /\ ~passed /\ slipped \cap {"tree", "prefix"} = {} =>
        /\ Source # Nothing
        /\ Source.made = "whole" /\ Source.tree.made = "whole"
        /\ Inputs[Source.tree.of] = Inputs[want]
        /\ kind = "source-build" => Source.key = key

\* The headers and the library staged for a key were staged from the same
\* build, both are there when a build is done, and the fingerprint is that of
\* the headers asked for (1095-1104, 1136-1211) -- unless a cp, rm, ln or echo
\* of the staging failed, which nothing checks (1152, 1195, 1200, 1210-1211).
StagedTogether ==
    status = "done" /\ key \notin slipped =>
        /\ stageFp[key] = Headers[want]
        /\ \A part \in Parts : staged[key][part] # Nothing
        /\ ~passed => staged[key]["headers"] = staged[key]["library"]

\* "guarded by a fingerprint of everything that determines WHAT gets staged"
\* (1047-1049): what is staged when a build is done is what was built.
StagedIsBuilt ==
    status = "done" => staged[key]["library"] = Source

\* "A failed or empty extraction is an error [...] never reported as success,
\* and never fingerprinted, so the next build retries it", of steps 3 to 5,
\* the patches among them (docs/spec/26-fetched-external-sources.md:159-167):
\* no build takes a step an earlier one left unfinished for a finished one.
NothingPassed == ~passed
=============================================================================
