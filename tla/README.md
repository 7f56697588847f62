# Bmake It in TLA+

Bmake It is a build system written as bmake makefiles (`mk/*.mk`, about 6,100
lines) and POSIX shell scripts (`scripts/*.sh`, about 2,000 lines). A
*workspace* holds *frameworks*; a framework holds *modules* (`*.m`: a library
or a program) and *test modules* (`*.tst`). Everything it knows between two
processes is on disk: generated order files, marker files, fingerprints,
caches, manifests. Every shell command is a process of its own, any of them
can fail or be interrupted, and what it left is there when the next one reads
it. That is what the first half of these modules is about.

What its modules are tested with is in the tree as well: ATF 0.23
(`contrib/atf-0.23`, C and C++) with the port of its platform layer to native
Windows (`contrib/atf-bmk/win`). `scripts/atf-build.sh` builds it on demand,
every test module links with it, and the test runner believes the results file
and the exit status that its test programs leave. It forks, connects pipes,
waits, times out and is killed; the second half of the modules is about that.

Paths below are relative to the repository's root; `mk.framework.mk:222` is
line 222 of `mk/mk.framework.mk`.

## 1. Inventory

| Component | State it keeps | Operations | Hard behaviour | What makes it correct | Module |
|---|---|---|---|---|---|
| Module build order: `gen-mod-order.sh`, `bmk-query.sh`, the parse in `mk.framework.mk:79-102` | `.gen-mod-order.mk` | list `*.m`, query each makefile, sort in passes, write aside and rename; error, warning or fallback in the parse; `clean` | several parses at once, edits while one runs, signals, a failing query, cycles, names that collide | only whole topological orders are published or included; never an old one for a build; termination | `ModOrder` |
| Framework build order: `gen-fw-order.sh` | `.gen-fw-order.mk` | the same passes over `PREREQS=` | the same | the same | `ModOrder` (by analogy) |
| Framework build: `mk.framework.mk:129-275` | `build.failed`, `build.skipped`, `runs/latest` per module and RUN_ID | preflight, one command per module and test module, final status | keep-going, FAIL_FAST, interruption, a RUN_ID used again: markers of another invocation | attempted iff its prerequisites were built, true root causes, true status | `FrameworkBuild`, `KeepGoing` |
| Workspace build: `mk.workspace.mk:110-289`, `mk.skipped.mk` | the same and `build.excluded`, `build.testsonly` per framework | preflight, one command per framework, final status | the same, tests-only failures, excluded frameworks | the same | `WorkspaceBuild` |
| Fetched imports and staging: `mk.lib.mk:1087-1212, 1244-1516` | distfiles, `work/_resolved`, the install prefix, what is staged; `.extract-fp`, `.build-fp`, `.stage-fp` | fetch, verify, extract, patch, build, stage; `clean` | each step can fail or be interrupted; versions go back and forth; keys share `work/` | a fingerprint vouches only for what is there; nothing unverified is used | `FetchedImport` |
| Import cache: `mk.lib.mk:488-650` | `.import-resolve-cache.mk` | resolve by pkg-config, keep the answer | a package upgraded, rebuilt or removed | an answer is used only while it is the right one | left for an extension |
| Copy-up: `diff-aware-copy.sh` | destination files, the manifest of their producers | copy, warn on a collision, replace the manifest | interruption between copy and manifest | a warning iff another producer's file is overwritten | left for an extension |
| Inputs hash and rebuild: `mk.common.mk:457-491`, compile and link rules | `.inputs-hash`, objects, archives, programs | compare, delete objects, compile, link | sources added and removed, flags changed, interruption | incremental build = clean build | left for an extension |
| Tests: `mk.framework.mk:311-369`, `mk.test.mk`, `mk.tst.mk`, `cross-test.sh` | `test.failed`, reports | build the prerequisite closure, run, aggregate | `TEST=` filters, a RUN_ID used again, traps | the status tells what was run | left for an extension |
| Constraints: `mk.constraints.mk`, `mk.constraint-axis.mk` | none | match `PLATFORMS=`, `TOOLCHAINS=` | - | a target is excluded iff an axis says so | not modelled |
| Requirements preflight: `mk.requires.mk`, `requires-report.sh` | a list file | look up tools and packages | - | nothing is built when something is missing | outcome only (`Refuse`) |
| ATF build: `atf-build.sh`, `mk.atf.mk` | a lock directory, the installed library | lock, build, install | waiting builds, a killed holder | built once, nobody waits for ever | left for an extension |
| ATF, a test case running: `atf-c/tc.c`, `atf_utils_fork`, `atf_utils_wait` in `utils.c`; `atf-c++/tests.cpp`, `utils.cpp` | the context (expectation, counters), the results file and its offset, exit statuses | check, require, pass, skip, expect, fork, wait, report, exit | a forked process shares context and results file; ends by signals and timeouts; a verdict of many counters | the verdict is the one the body earned; results and exit status agree; a verdict ends the process | `AtfVerdict`, `AtfTestCase` |
| ATF, processes and checks: `atf-c/detail/process.c`, `check.c`, `atf-c++/detail/process.*`, `check.cpp` | descriptor tables, pipes, statuses, the temporary directory with its files | fork with prepared streams, connect, exec, read, wait, destroy; check and its result; compile | each system call fails or is interrupted; pipes fill up; a descriptor the caller lacked is used again | streams as asked, nothing leaked, all output read, directory tidy | `AtfProcess`, `AtfCheck` |
| ATF, a test program: `atf-c/detail/tp_main.c`, `tp.c`, `map.c`, `text.c`, `dynstr.c`, paths of `fs.c`; `atf-c++/tests.cpp` | options, configuration, the test cases and their meta-data | parse the command line, find the source directory, list, run a part | two mains with two parsers; directories by name; what Windows does to the command line first | each does what is asked, or fails with a fault the request has | `AtfWords`, `AtfProgram` |
| ATF, files: `utils.c`, `detail/fs.c`, `user.c`, `atf-c++/detail/fs.*`, `env.c` | the file system as found | create, copy, print, compare, search, look, list, remove, temporary names | short reads, full disks, another process between two looks, line ends, umask | the answer does not depend on the pieces; access is the kernel's | `AtfAccess`, `AtfFiles` |
| Windows port of ATF: `atf-bmk/win/*` | as the above | as the above | as the above | as on POSIX | in `AtfProgram`, `AtfFiles` |
| ATF, errors, lists, sanity checks; its own tests and helpers | - | - | - | - | not modelled |
| Toolchains, MSVC wrappers, delay-load, vcvars, paths, help, docs, install, run | none | compute flags, translate command lines, format | - | - | not modelled |

Interaction: the workspace's recipe starts one `make -C <framework> all
copy-up` after another; the framework's starts one per module. They speak
through exit statuses and the marker files of one RUN_ID, and share nothing
else. Every parse of a framework's makefile regenerates its order first. A test
program is a process the test runner starts with a command line; its main picks
a test case, whose body may fork, run checks (which are processes with a
directory for their output) and look at files.

## 2. Modules

### ModOrder: the order of a framework's modules

`scripts/gen-mod-order.sh`, `bmk_query` and `bmk_is_leftover` of
`scripts/bmk-query.sh`, and the parse that runs the generator
(`mk.framework.mk:79-102`).

| TLA+ | Code |
|---|---|
| `tree`, `Edit` | the module directories and makefiles; a developer or git changes them |
| `cache`, `tmp[p]` | `.gen-mod-order.mk`; `.gen-mod-order.mk.tmp.$$` |
| `mods`, `todo`, `view`, `sorted`, `still`, `progress` | the generator's variables and its `dep_*`, `ids_*` files |
| `Start`, `Query`, `QueryFails` | 41-62 and 64-90; exit 1 of a failing query |
| `Visit`, `NextPass`, `Cycle`, `SortDone` | 112-142: one action per turn of the inner loop |
| `OpenTmp`, `WriteTmp`, `Rename` | 158-176 |
| `Signal`, `Kill` | the traps of 12-18; SIGKILL |
| `Include`, `Refuse`, `Fallback` | `.-include`, `.error` for a build, `.warning` and include for `-V` and `clean` |

A file in the model also carries, as history, the declarations it was computed
from (`view`) and the modules listed; the code's file holds the order and
`MODULE_DEPS` alone. `quiet[p]` is history too. Abstractions: the listing of
`*.m` is one step; each parse happens once in a behaviour; a `-V` query parses
as `clean` does (both take the fallback); `MODULE_CHECK` is left out, as is
looking for `sys.mk` (a failure there ends like `QueryFails`). A directory
emptied or removed during the queries is a directory without a makefile.

### KeepGoing: what a keep-going build promises

The abstract specification: no markers, no files, no RUN_IDs. Units are
attempted after all they need was built, are skipped only for one that failed
or was skipped, are put down to a root cause, and the status 0 says everything
was built. It models no line of code.

### FrameworkBuild: `bmake all` in a framework

`all`, `_check_requires`, `_build_modules`, `_check_build_failures` of
`mk.framework.mk`. One invocation after another, each with a RUN_ID of its own
or one used before (`docs/spec/40-cli-reference.md:215-223` offers that), with
the makefiles edited in between and every invocation open to interruption.

| TLA+ | Code |
|---|---|
| `graph` | `SUBDIR_MODULES` then `SUBDIR_TESTMODS`, and `MODULE_DEPS.<m>` |
| `failed[r]`, `skipped[r][u]` | `<u>/build/<key>/runs/<r>/build.failed`, `build.skipped` |
| `latest[u]` | what `cp -a` put in `runs/latest` |
| `Begin`, `Refuse`, `Required` | `all`; the two ends of `_check_requires` |
| `Skip`, `Enter`, `Succeed`, `Fail`, `Refresh`, `LoopDone` | 219-275, in the order of the shell's commands |
| `Check` | 179-197 |
| `Kill` | an interruption, between any two of these, and inside `Refresh` between `rm -rf` and `cp -a` |

`made` is history: what really came of a unit in this invocation; the code has
no such variable and the properties compare the markers with it. Writing
`build.skipped` and touching `build.failed` (230) is one step. `Graphs` is any
set of orders that satisfy `Sorted`; that the generator's do, when no two
modules answer to one name, is `ModOrder`'s `OrderSound` and `DepsAgree`.
The branch of `Refresh` that ends a FAIL_FAST build after a skip is in the
code and cannot be reached from a sorted order (the failure that causes the
skip ends the build first); the inductive invariant's `FastStop` proves it.

### WorkspaceBuild: `bmake all` in a workspace

`all`, `_requires_preflight`, `_build_frameworks` of `mk.workspace.mk`, and
what `mk.skipped.mk` does for a framework excluded here. The four markers of a
framework are `failed`, `skipped`, `excluded`, `testsonly`; `modFailed` and
`tstFailed` stand for the `build.failed` of its `*.m` and `*.tst`, which
`Fail` reads (268-273). `Failures` are the ways a framework's make ends badly:
in its modules, in test modules only, before it came to them, or after.
`made` and `used` (the RUN_IDs of earlier invocations) are history.

### FetchedImport: a library fetched, built and staged

`_fetch_import`, `_fetch_build`, `_stage_import` of `mk.lib.mk`, the recipes of
`all` in a module with `IMPORT=fetch:` and `FETCH_BUILD=` (`kind` is
`source-build`) or `IMPORT=fetch-bin:` (`binary`).

| TLA+ | Code |
|---|---|
| `want`, `key` | the module's makefile as the build's parse found it; the target key |
| `dist`, `tree`, `prefix` | `distfiles/<basename>`, `work/_resolved`, `work/_install`: shared by the keys |
| `extractFp`, `buildFp`, `stageFp[k]` | `work/.extract-fp`, `work/.build-fp`, `build/<k>/.stage-fp` |
| `staged[k]` | the headers in the framework's `build/<k>/include`, the library in the module's `build/<k>` |
| `PassFetch`, `Have`, `Download`, `Verify`, `Extract`, `Patch`, `...Fails`, `ExtractSlips` | 1255-1362, in the order of the shell's commands |
| `PassBuild`, `Wipe`, `Make`, `MakeFails` | 1429-1516 |
| `PassStage`, `StageHeaders`, `StageLibrary`, `...Fails`, `LibrarySlips` | 1136-1212 |
| `Clean`, `CleanAll` | `clean` (1651-1673), without and with `CLEAN_ALL_TARGETS=yes` |
| `Kill`, `KillRemoving`, `Lose` | an interruption between two commands, inside a copy or the upstream build, or inside a removal; the framework's include directory made anew |

A tree, and what was built from it, is known by the version it is of, by
whether the distfile had been verified when it was extracted, and by how far
its making got: the three things the properties compare. `Inputs[v]`
is what the extraction's fingerprint is of (URLs and names of patches);
versions with one distfile have one checksum in distinfo. A key stands for its
compiler and flags. `unfinished` and `passed` are history: which steps were
begun and not ended, and whether a build then took one for done.

The recipes check what the downloader, the checksum, the unpacking, `patch` and
the upstream build return, and nothing else; they run without `sh -e`
(`mk.framework.mk:323-324`, FreeBSD excepted). An `rm -rf` or `cp -a` of
`work/_resolved` (1327, 1351), the removal of the prefix (1464), a `cp`, `rm` or
`ln` of what is staged (1152, 1195, 1200) and the writing of each fingerprint
can fail, and the recipe goes on, writes its fingerprint and exits 0. The second
outcomes of `Patch`, `Wipe`, `Make`, `StageHeaders`, and `ExtractSlips` and
`LibrarySlips`, are that; `slipped` (history) has the steps it happened in, or
that worked on what such a step left, until they are done anew without it, and
`slips` counts them up to `MaxSlips`. Abstractions:
the headers are one part and the library another, and `.stage-out` names both;
the upstream build is one step that ends well or badly; a download ends whole or not at all (it is renamed into place); `clean`
is one step; one build at a time.

`FrameworkBuild` and `WorkspaceBuild` model one invocation at a time in a tree,
and a make that runs its recipes in order; two invocations with one RUN_ID at
once, and `-j`, are not modelled.

### AtfVerdict: what a test case is judged to be

The abstract specification: what the body said to expect, whether a failure
came since, whether one came at all, and the judgement. No counters, no
results, no processes. It models no function of the library; its outcomes are
the ones ATF's own `test-programs/expect_test.sh` wants of the helpers there.

### AtfTestCase: a test case, from `atf_tc_run` to the end of its process

| TLA+ | Code |
|---|---|
| `ctx[p]` | `struct context Current` (`tc.c`) of the test's process and of the one its body forks: `expect`, `expect_fail_count`, `expect_previous_fail_count`, `fail_count`, `resfilefd` |
| `dest`, `file`, `pos`, `std` | the results file, the offset the two processes share, standard output |
| `out[p]`, `pc[p]` | the line being written and the place in `create_resfile` |
| `Start` | `context_init`, with results to a file or to a standard stream |
| `Truncate`, `Seek`, `Write`, `WriteFails`, `Quit` | `ftruncate`, `lseek`, `writev`, `check_fatal_error`, `exit`: one system call a step |
| `ErrorInExpect`, `FailRequirement` | the two functions that call each other |
| `FailCheck`, `Fail`, `ErrnoTest`, `Pass`, `Skip`, `RequireProg`, `ExpectPass`, `ExpectFail`, `ExpectAbrupt`, `Return`, `Abort` | what a body calls, and returning from it |
| `Fork`, `Redirect`, `ResetResults`, `WaitOk`, `WaitMismatch`, `WaitFails` | `atf_utils_fork`, `_reset_resultsfile`, `_wait` |
| `ExitBody`, `Kill` | `exit` in a body; a signal or the runner's timeout |

Abstractions: a line is its verdict (reasons are left out); the four abrupt
ends differ in their line only; the forked process's output is the two files
`atf_utils_wait` compares and removes; one process is forked at most.
`touched` is history: the forked process has changed the results.

### AtfProcess, AtfCheck: processes, and programs that are checked

`AtfProcess` has the steps of `process.c` (and of the C++ class around it);
`AtfCheck` is a caller: any streams by `atf_process_fork`, a program by
`atf_process_exec_array`, a check with its directory, a compiler.

| TLA+ | Code |
|---|---|
| `fds[p][i]`, `before` | the descriptor tables; the caller's at the start, which may lack 0, 1 or 2 |
| `asked[n]`, `pipes[n]`, `kept[n]` | `atf_process_stream_t`, `stream_prepare_t`, `m_stdout` and `m_stderr` |
| `text`, `got[n][m]` | how much was written where; how much of pipe `m` the parent has read by way of `kept[n]` |
| `Prepare`, `Fork`, `DoParent` | `stream_prepare_init`, `fork_with_streams`, `do_parent` with `parent_connect` |
| `ConnectOk`, `ConnectFails`, `Start`, `Write`, `ProgramEnds` | `child_connect`, `safe_dup`, `exec`, the program |
| `Read`, `ReadAll`, `Wait`, `WaitInterrupted`, `Unwind`, `KillChild`, `Reap`, `ReapInterrupted` | the caller; `atf_process_child_wait`; `child::~child` |
| `dir`, `files`, `Mkdtemp`, `ResultInit`, `ResultFini`, `Unlink`, `Rmdir` | `check.c`: `create_tmpdir`, `atf_check_result_init`, `_fini`, `cleanup_tmpdir` |
| `argv`, `BeginBuild` | `atf_check_build_c_o`, `_cpp`, `_cxx_o` |

`Lowest` is the kernel's rule that a new descriptor is the lowest free one; on
it depends what happens to a caller that lacks one. Output is counted, not
spelled. One child at a time.

### AtfWords, AtfProgram: a test program and its command line

A request (options, names) is written in one of three ways (apart, joined, in
a cluster) and the main sees the writing only. `AtfWords` has the words: a word
is a sequence of the characters the code looks for and of runs it does not tell
apart; maps keep their order as `map.c` does. The steps are `Enter` (what
`atfw-compat.c` does to `argv` before main), then for C `Option`, `Names`,
`FindSrcdir`, `AddTc`, `List`, `Run`, and for C++ the same with `Cxx` before
them, which come in another order, parse `-v` another way and fail in other
ways (an exception leaves main). `Tokens` is the set of those characters and runs,
`StepInto` and `Below` walk a path name by name. A host has the root Cygwin paths
are put under, or none (`host.root`); how `atfw_cygroot` finds it in the
environment is not modelled. There is one drive, `C:`; what comes after
`/cygdrive/` is its letter `c` or a longer name. `getopt` and the kernel's path lookup are
external, modelled from how the mains use them.

### AtfAccess, AtfFiles: what a body does with files

`AtfAccess` has the modes, users, `atf_fs_eaccess` and the kernel's rule it
stands beside. `AtfFiles` has one call from any small directory: `Create`,
`OpenDest`, `Copy`, `CopyMode`, `Cat`, `Compare`, `CompareWindows`, `Grep`
(`utils.c`, `atfw-compat.c`), `FileExists`, `Exists`, `AskAccess`, `Look`,
`SafeAccess`, `ReadDir`, `Stat`, `Unlink`, `Rmdir`, `Temp`, `Template`,
`MakeTemp` (`fs.c`, `fs.cpp`). A read returns any piece up to the buffer,
`SystemFails` is an error of the system's own, `Meddle` is another process of
the test between two looks at a name. The one error that is no failure is that of
`readdir` (`fs.cpp:423-427`), which is taken for the end of the directory: such a
list is short, and `Whole` says no more of it than that what it has is there. A text is a sequence of ordinary
characters, `\r` and `\n`; a regular expression is one that matches a whole line.

## 3. Runs

| Run | Bounds | What it asks |
|---|---|---|
| `modorder` | 3 modules in all combinations of 2 x 4 x 2 directory states, 2 parses, 1 edit; 288,731 states | safety and termination of the generation |
| `modorder_shadow` (violation) | 1 parse, no edit | is the library's module always a prerequisite? No |
| `framework` | 4 units, 4 graphs, 2 RUN_IDs, 3 invocations; 1,385,988 states | the markers against what happened; refinement of `KeepGoing` |
| `workspace` | 3 frameworks, 4 configurations, 2 RUN_IDs, 2 invocations; 289,736 states | the same for a workspace |
| `workspace_reuse` (violation) | a chain of 3, 1 RUN_ID, 2 invocations | is a framework never built on a skipped one? Not if the RUN_ID is used again |
| `fetch` | 3 versions, 2 keys, both kinds, 3 builds, one command failing unnoticed; 3,706,636 states | the fingerprints against what they vouch for |
| `fetch_restage` (violation) | 1 key, 2 builds | is what is staged what was built? No |
| `fetch_revert` (violation) | 1 key, 3 builds | is a failed step never taken for done? It is |
| `atf_testcase` | a test's process and one forked from it, 1 failed check and 1 expected failure each, 1 of the abrupt ends, results in a file or on standard output; 185,232 states | the verdict, what is told of it, waiting, coming to an end; refinement of `AtfVerdict` |
| `atf_check` | 8 descriptors, a caller lacking any of 0, 1, 2, pipes of 1, 2 writes, 2 interrupted waits, every pair of streams; 95,200 states | streams, descriptors, captured output, the temporary directory, the end of reading |
| `atf_program` | 19 options, up to 2 of them, 8 lists of names, 3 ways to write them, 10 programs and places to start from; 280,036 states | what was asked against what was done |
| `atf_files` | 2 names, files of up to 3, texts of up to 2, reads of up to 2, 16 modes, 6 users, 4 umasks; 895,368 states | files and answers, whatever the pieces and failures |

Why the bounds are enough. `modorder`: the three modules' states hold a
program and the library it is named after (names that collide), a reference by
directory name, one by library name, one to a name from outside, a cycle of
two, a leftover and a broken makefile; two parses suffice for every race on
one file (a third would only be another writer), and one edit can fall between
any two steps of both. `framework`: a stale marker needs one invocation to
write it and one to read it, the third shows that the second repaired what it
met; the graphs hold a chain (root causes are carried), a fork (one of two
prerequisites fails), the reversed chain and a removed module (a marker of a
unit that is no longer a prerequisite, or not there). Two RUN_IDs let a run be
left and come back to. `workspace`: the chain with nothing, the middle, and
the first two excluded, and two prerequisites of which one is excluded. `fetch`:
one release, the same with a patch (the distfile is there already) and the next
release with other headers (another distfile, another `.stage-fp`); three
builds are a good one, one that goes wrong and one that goes back to the first;
the second key shares `work/` with the first. One command that fails
unnoticed can fall in any step of any of the three (the two violation runs have
none: what they show needs none).

`atf_testcase`: with one failure counted of either kind every comparison of the
counters goes both ways (none or some; as many as at the last expectation or
more), and an expectation can be met, missed, and met by an earlier one's
failure; the forked process can come between any two system calls of the
report. `atf_check`: a pipe for each stream takes four descriptors beside the
caller's; two writes to a pipe of one block once; the lacking descriptors make
every case of a pipe or a file landing on 0, 1 or 2. `atf_program`: a fault and
a good option, an option twice, one overriding another, are pairs; every name is
of a test case with or without a cleanup, of a part, wrong, or one too many.
`atf_files`: a file of three read by at most two ends within, at and after a
piece, and `\r\n` and a line can be cut anywhere; the modes give each class
reading and writing or not, and executing separately, so that each class can be
the one that decides. The two names are interchangeable and are symmetric.

Deadlock is not checked: parses are finite in number and invocations bounded,
and a test program ends, so every behaviour may stop.

Fairness. `ModOrder`'s `FairSpec` has weak fairness of the steps a parse and
its generator take by themselves: the system schedules a shell and the bmake
that waits for it. Nothing obliges anybody to start a parse, edit a makefile,
send a signal, kill or clean. The two builds state no liveness property: how
long a compiler runs is not theirs to promise. `AtfTestCase` has weak fairness of
`Finish(p)`, what `tc.c` does by itself once a verdict is come to: a process the
system does not stop goes on (a kill ends it too). What a body does, how long,
and whether it returns is the test's. `AtfCheck` has weak fairness of the
caller's reading and of the steps of `do_parent` before it; nothing obliges the
child to write or to end, and `CaptureEnds` is about one that has ended.

### What the violations show

1. `modorder_shadow`: `app.m` (`PROG=app`, `LIBS=app`) beside `libapp.m`
   (`LIB=app`). `local_mod_of app` is `app` itself and `MODULE_DEPS.app.m` is
   empty, so `app.m` is attempted after `libapp.m` failed, which
   `gen-mod-order.sh:144-146` says does not happen. For the same reason a third
   module with `LIBS=app` counts as served once the program `app` is placed.
2. `workspace_reuse`: the skip branch (`mk.workspace.mk:252`) leaves a
   `build.testsonly` of an earlier invocation of the RUN_ID, and line 234 then
   takes the skipped framework for a usable one, against 201-203.
3. `fetch_restage`: the staging's fingerprint (`mk.lib.mk:1137`) has
   `IMPORT=`, headers, label and paths, and a changed `FETCH_URL=`,
   `FETCH_PATCHES=`, compiler or flag changes none of them: the library is
   built anew and the old one stays staged, against 1047-1048.
4. `fetch_revert`: the old `.extract-fp` stays while the source is extracted
   anew, so when a patch of the new version fails and the makefile goes back,
   the tree on which it failed is taken for the old one, against
   `docs/spec/26-fetched-external-sources.md:164-166`. `.build-fp` beside a
   wiped prefix (1464) is the same. `SourceIsWanted` and the last conjunct of
   `StagedTogether` are stated for behaviours in which this has not happened
   (`~passed`).

Beside them, and not a run of its own: the same paragraph of the specification
says that a failed extraction is "never fingerprinted", and a `cp -a` of 1351
that fails half-way (a full disk) is, for nothing looks at its status; so are an
incomplete prefix and an incomplete staging. `SourceIsWanted` excepts a build that
uses such a tree or prefix, and `StagedTogether` such a staging, by `slipped`;
what they say is that there is no other way to a wrong one. `OnlyVerified` has no
exception: whatever fails, nothing comes from an unverified distfile.

The second is also why `PrereqsHold` and `CauseIsReal` of the workspace are stated
for a RUN_ID that was not used before (`Fresh`), while `SkippedForReason`,
`ExitIsTrue` and `LatestKept`, and everything of the framework's build, hold
whatever was left. `LatestKept` speaks of builds that come to their end: a
FAIL_FAST build leaves the recipe (`mk.framework.mk:248`) before `runs/latest` is
refreshed.

### What the properties of ATF leave out

Some are stated for the uses the library is made for, and the condition says
which: `ChildStreams` for streams none of which closes what another is made of
(`Apart`: no `redirect_fd` of 1 or 2, and not of one descriptor twice, which
`safe_dup` closes; a caller that has 0, 1 and 2); of `TmpTidy`, that the directory
can be removed, for checks whose wait was not interrupted (`fork_and_wait` gives up
and the child still writes), and that both files are there, for a program that
succeeded (a child that cannot open its files leaves with a failure and without
them); `EndsAsAsked` and `ConfigIsAsked` for requests that a command line can
express (`Writable`: a name does not begin with `-`, an option without its argument
comes last), which the run's all are, and that C++'s `parse_vflag` (`Readable`)
and the Windows scan, which knows no clusters (`Separate`), read as `getopt` and
the C main do, but for the root of a Windows drive without its slash (`AtRoot`);
`Answers` but for the two places where `atf_fs_eaccess` and the kernel part: an owner whose group may do more than the owner, whom the kernel refuses
(`AsGroup`), and a user whose effective group `getgroups` does not tell of
(`Untold`: POSIX leaves that to the system), who is given the others' rights in
place of the group's, although `fs.c:686-688` calls the function access(2) for the
effective user, because `user.c:46-63` asks for the supplementary groups alone;
`SrcdirHoldsProgram` but for a program, or a `-s`, at the root of a Windows drive (`AtDrive`: the directory
becomes `C:`, which `atfw-compat.c:33` does not take for absolute, so that C++
looks below the working directory); `ResultTellsTheEnd` for
tests whose forked process was waited for or left the results alone (`Alone`):
one that writes them may be in the middle of any line. As an observation:
counters of failures from before `atf_tc_expect_fail` are kept, so a check that
failed first and an expectation that is met later make `expected_failure`
(`tc.c:1058-1071` reads `fail_count` only when it fails a requirement, which an
expectation turns into an expected failure); `AtfVerdict!Returns` says so.

## 4. Proofs

TLAPS proves, for any set of modules, makefiles, parses, graphs and RUN_IDs
and under the assumptions named in the modules (`ModOrderAssumption`,
`FrameworkBuildAssumption`, `WorkspaceBuildAssumption`,
`FetchedImportAssumption`, `AtfTestCaseAssumption`, `AtfProcessAssumption`,
`AtfFilesAssumption`, `AtfProgramAssumption`). They
give the constants their types, say that the values that stand for nothing
(`NoFile`, `NoUnit`, `NoRun`, `Nothing`) are none of the others, that graphs
are sorted, and of a test program that its working directory is absolute, that
`argv[0]` ends in its name, that no two test cases have one name, and that the
characters the code looks for are among those words are made of:

| Theorem | States |
|---|---|
| `ModOrderProofs!TypeCorrect` | `Spec => []TypeOK` |
| `ModOrderProofs!OrderAlwaysSound` | `Spec => []OrderSound` |
| `ModOrderProofs!CyclesAreReal` | `Spec => []CycleIsReal` |
| `ModOrderProofs!DepsAlwaysAgree` | `Spec => []DepsAgree` |
| `ModOrderProofs!NeverLitter` | `Spec => []NoLitter` |
| `ModOrderProofs!AlwaysFreshWhenAlone` | `Spec => []FreshWhenAlone` |
| `FrameworkBuildProofs!TypeCorrect` | `Spec => []TypeOK` |
| `FrameworkBuildProofs!IInvAlways` | `Spec => []IInv` |
| `FrameworkBuildProofs!RootAlwaysCause` | `Spec => []RootIsCause` |
| `FrameworkBuildProofs!ReportAlwaysTrue` | `Spec => []ReportIsTrue` |
| `FrameworkBuildProofs!LatestAlwaysKept` | `Spec => []LatestKept` |
| `FrameworkBuildProofs!KeepsPromise` | `Spec => Promise`, the refinement of `KeepGoing` |
| `WorkspaceBuildProofs!TypeCorrect` | `Spec => []TypeOK` |
| `WorkspaceBuildProofs!PrereqsAlwaysHold` | `Spec => []PrereqsHold` |
| `WorkspaceBuildProofs!SkippedAlwaysForReason` | `Spec => []SkippedForReason` |
| `WorkspaceBuildProofs!CauseAlwaysReal` | `Spec => []CauseIsReal` |
| `WorkspaceBuildProofs!ExitAlwaysTrue` | `Spec => []ExitIsTrue` |
| `WorkspaceBuildProofs!LatestAlwaysKept` | `Spec => []LatestKept` |
| `FetchedImportProofs!IInvAlways` | `Spec => []IInv` |
| `FetchedImportProofs!TypeCorrect` | `Spec => []TypeOK` |
| `FetchedImportProofs!AlwaysVerified` | `Spec => []OnlyVerified` |
| `FetchedImportProofs!SourceAlwaysWanted` | `Spec => []SourceIsWanted` |
| `FetchedImportProofs!AlwaysStagedTogether` | `Spec => []StagedTogether` |
| `AtfTestCaseProofs!TypeCorrect` | `Spec => []TypeOK` |
| `AtfTestCaseProofs!WaitIsHonest` | `Spec => []PassedMeansWaited` |
| `AtfTestCaseProofs!ResultAlwaysTells` | `Spec => []ResultTellsTheEnd` |
| `AtfTestCaseProofs!VerdictIsJudged` | `Spec => Judged`, the refinement of `AtfVerdict` |
| `AtfCheckProofs!TypeCorrect` | `Spec => []TypeOK` |
| `AtfCheckProofs!StreamsAlwaysAsAsked` | `Spec => []ChildStreams` |
| `AtfCheckProofs!ParentAlwaysKeeps` | `Spec => []ParentKeeps` |
| `AtfCheckProofs!CaptureAlwaysWhole` | `Spec => []CaptureWhole` |
| `AtfCheckProofs!AlwaysTidy` | `Spec => []TmpTidy` |
| `AtfFilesProofs!NothingRefused` | what the kernel allows by the mode, `Eaccess` allows, unless the user's effective group is one it is not told of |
| `AtfFilesProofs!GrantedInTwoPlaces` | what `Eaccess` allows, the kernel allows, or it is the group's and given to the owner, or the others' and given to a member of an effective group it is not told of |
| `AtfFilesProofs!CatPiece` | one piece more, printed, is all that was read with its prefixes |
| `AtfFilesProofs!MatchPiece` | the fold of `Matched` over a piece keeps `Tracking` or shows a mismatch |
| `AtfFilesProofs!HoldingIs` | on Windows `Holding` is the files that can be aligned with the text |
| `AtfFilesProofs!FilesInvariant` | `Spec => []IInv` |
| `AtfFilesProofs!FilesTypeOK` | `Spec => []TypeOK` |
| `AtfFilesProofs!FilesWhole` | `Spec => []Whole` |
| `AtfFilesProofs!FilesAnswers` | `Spec => []Answers` |
| `AtfProgramProofs!SplitConcat` | the words of `u \o <<c>> \o v` are those of `u` and those of `v` |
| `AtfProgramProofs!NormalizeTwice` | `Normalize(Normalize(w)) = Normalize(w)` |
| `AtfProgramProofs!CharppRoundTrip` | `FromCharpp(ToCharpp(m)) = m` |
| `AtfProgramProofs!ProgramInv` | `Spec => []IInv` |
| `AtfProgramProofs!ProgramTypeOK` | `Spec => []TypeOK` |
| `AtfProgramProofs!ProgramWholeConfig` | `Spec => []WholeConfig` |
| `AtfProgramProofs!ProgramSrcdir` | `Spec => []SrcdirHoldsProgram` |
| `AtfProgramProofs!ProgramAsked` | `Spec => []Asked` |
| `AtfProgramProofs!ProgramEndsAsAsked` | `Spec => []EndsAsAsked` |
| `AtfProgramProofs!ProgramConfigIsAsked` | `Spec => []ConfigIsAsked` |

*ModOrder.* `OrderSound` is not inductive: it says nothing of a generator on
its way. `IInv` adds, per parse: before the sort nothing is placed
(`QueryInv`); during it the modules are the disjoint union of the placed, the
waiting and those still to visit, the order placed so far is topological, and
if the pass has placed nothing then every module it put off is still not ready
(`PartitionInv`, `SoundSoFar`, `RefusedInv`); after it nothing is left, and the
temporary file about to be renamed is the whole output (`DoneInv`). A step of
one parse leaves the others' part alone (`OthersSame`), so each action is
looked at for its own parse. `CycleIsReal` follows from `RefusedInv` at the end
of a pass with no progress: the modules put off are the witnesses. `DepsAgree`
needs that a file's `MODULE_DEPS` are those of the declarations it carries
(`DepsInv`), which `Rename` establishes and nothing else touches. `NoLitter` is
inductive beside the types. `FreshWhenAlone` comes from what a parse nobody has
interfered with knows of the makefiles it has read so far (`QuietInv`).

*FrameworkBuild.* The markers of this RUN_ID may be any earlier invocation's.
`IInv` says that they are this invocation's for the places the loop is done
with (`Past`), that no unit after them was attempted (`Future`), that the unit
being made has no failed prerequisite and no `build.skipped` (`Making`), that a
FAIL_FAST invocation under way has met no failure (`FastStop`), and that
`runs/latest` of every finished place is this run's (`Latest`). Since the order
is sorted, everything a unit needs is in a finished place, so the markers
`Skip` and `Enter` read are true. `KeepsPromise` maps `status` to the abstract
phase, `made` to the result and the `build.skipped` of the units skipped in this
invocation to the root causes; `Succeed` and `Fail` are `Try`, `Skip` is `Skip`,
`Check` is `End`, and all file handling stutters.

*WorkspaceBuild.* `IInv` is `TypeOK`, the loop's place (`Place`) and `Rest`: the
markers of finished places against what came of them (`Past`), places to come
(`Future`, `Untouched`), the framework being made (`Making`), and `Latest`,
`AllRight`, `ExitIsTrue` for the end. What a marker of an earlier invocation can
say is restricted to what the properties do not use; the prerequisites' part is
conditioned on `Fresh`.

*FetchedImport.* `OnlyVerified` needs to know that the distfile about to be
extracted is right (`Place`). `SourceIsWanted` speaks of the end of a build
and follows from what holds all along: a tree whose extraction is finished is
whole and of what `.extract-fp` says (`TreeSound`), a prefix whose build is
finished is whole and of what `.build-fp` says, key included (`PrefixSound`),
and a build that passed a step by its fingerprint, or did it, has `.extract-fp`
of its own inputs. A step begun and not ended breaks the first two until it is
done again, which is why they are conditioned on `unfinished`, and passing over
it would break the rest. A step in which a command failed unnoticed breaks them
under a fingerprint that looks right: `slipped` has to be kept apart from
`unfinished`, and to pass from the tree to the prefix built from it. `StageSound`
says the same of the two parts staged. What `rm`, `cp` and `ln` leave when they
fail is bounded by three lemmas (`RemainsOfTree`, `RemainsOfPrefix`, `SpoiltIs`): a
part of something there was, which is all that `OnlyVerified` asks.

*AtfTestCase.* A step changes one process, or both when it forks. `Fit` says which
contexts, places, lines and ends of one process go together (a line that ends
the process is a verdict, an abrupt end is announced only from the body), and
`IInv` is the types and `Fit` for both. `Local(p)` is the shape of every step, so
each action is looked at once. `Waited` adds what a test that has waited has
seen. `Results` adds, for a test whose forked process keeps off, that the file
is empty between `ftruncate` and the line and is the line after it. For
`VerdictIsJudged` the counters map to the abstract flags; `ErrorInExpect` and
`FailRequirement` judge nothing again, and all file handling stutters.

*AtfCheck.* `IInv` is `TypeOK`, where each use can be (`Asking`), when the child
lives (`Living`), the caller's table against the one it had and the pipes made
so far (`Table`, which says too that each descriptor kept is the reading end of its own
stream's pipe), who can write to a pipe and what is read of it by way of what
(`Written`), the directory (`Kept`), and the child's table while it is connected stream by stream
(`Settling`). `Lowest` is a CHOOSE; that it is a member of a non-empty set of
descriptors is proved by well-foundedness of inclusion of finite sets
(`LowestIn`, `LowestTwo`).

*AtfFiles.* The theorems hold for files, texts and pieces of any length: what
depends on how a file falls into pieces is where the code is delicate, and what
a run with files of three characters shows least about. `IInv` says, for each
function that reads, what is known in the middle of a file: what was copied is
what was read (`Copying`), what was printed is what was read with its prefixes
(`Catting`), the lines read are whole and none is the text (`Grepping`), the
text up to `rest` is the file up to `pos` (`Comparing`). Beside these it says
which step belongs to which call and with how many names (`Stages`,
`Arguments`), that nothing fails unnoticed and files stay as they were until
the call changes them (`Undisturbed`), what a search of `PATH` and a listing
have seen (`Looking`, which for a listing does not depend on nobody having meddled), and
that a name is made up only under a umask that leaves
the owner everything (`Making`).

On Windows a `\n` of the text may be `\r\n` in the file, and a piece can end
between the two. An *alignment* gives for each character of the text where in
the file it ends; `HoldingIs` shows that the files that hold a text are those
that have a whole alignment. `Tracking` says of a comparison under way that
what was read is aligned with the text so far (but for a `\r` kept back), and
that every whole alignment would be at the same place (`Settled`), so that a
mismatch here is a mismatch of the whole (`NoMore`). `MatchOne` is one
character, with the five cases of `Matched`; `MatchPiece` is a piece.

A fold over a piece and `FlattenSeq` are recursions over data, and the library's
induction rules cannot be used. They are replaced by first-order facts: a
recursive function on the subsets of `1..n` exists (`SubsetRecursion`, by the
least `n` for which it would not, `WFMin`), its values on `1..i` are a chain of
intermediate results (`InitialSubsets`), and what each link of a chain keeps,
its end has (`StepsUpTo`). `Chains` and `Flattens` are the sets of such chains;
that they are not empty is what the proofs about pieces use.

`Answers` for access rests on `NothingRefused` and `GrantedInTwoPlaces`, which
need no invariant: they are about `Eaccess` and `KernelAllows` for every user,
group and set of bits.

*AtfProgram.* The functions on words and paths are folds; the same chains of
intermediate results as in *AtfFiles* (`FoldChain`; here `Putting`,
`Joining`, `Entering`, `Scanning`) give their laws for words of any length:
splitting a concatenation (`SplitConcat`), `normalize` keeps the names of a path
and whether it is absolute (`NormalizeTwice` follows), a map entered entry by
entry holds each key once and a later value replaces an earlier one
(`CharppRoundTrip`). `IInv` is `TypeOK`, `getopt` is in the line, a C program has
a srcdir from the start, test cases come after the search for the program
(`Searched`), which found it (`Found`) and left in the configuration the
directory it looked in (`Located`), and `WholeConfig`: each test case has the
program's configuration, no variable twice. `SrcdirHoldsProgram` follows because
the directory is absolute and the same file is reached from it: a C program
makes it absolute before it looks, a C++ program afterwards, and the names that
the kernel walks through are the same (`MadeAbsolute`, `SourceDirIs`).

`EndsAsAsked` and `ConfigIsAsked` relate what the mains do, who see words only,
to the request those words were written from, and say nothing of a program on
its way. `Asked` does, for each place in the code, in the order the program goes
through them:

- *Starting*: the line is a `Spelling` of the request. `upto[k]` words are those
  of the first `k` options and `mrg[k]` says whether the k-th begins in the word
  of the one before (`-lv`), so one statement covers all three ways of writing
  (`CommandLineSpelling`; along the options, `SpelledChain`). What Windows does
  to the line keeps it one, of the same options with some paths made native
  (`EnteredSpelling`): `Separate` is needed here, since the scan for `-s` and `-r`
  takes an argument such as `-r/x=1` of a cluster `-lv` for an option.
- *Parsing*: `getopt` stands before the k-th option, and `opts` and `config` are
  what the first `k` make of them (`Progress`). It returns the options one by one
  and stops at the names (`GetOptReads`, `GetOptEnds`), and one turn heeds the
  option or ends with one of its faults (`OptionTurn`).
- *Parsed*, *ConfigTold*, *Counted*: after the last option `-s`, `-r` and the
  variables are what was asked for (`ProgressEnds`), then the name and the part.
- The search: the directory found is the one asked for, by whichever way C and
  C++ come to it (`LookAsked`, from `DirIsAsked`: names walked one after the
  other, `.libs` stripped, drives, a `-s` that is relative).
- The end: the test cases are as declared (`AddAsked`, `Testing`), the listing
  is theirs (`ListAsked`), and the part that runs is the one named, with the
  values asked for (`RunAsked`).

That `ConfigIsAsked` needs `Separate` for the variables as well, and not for
srcdir only, was found by the proof: within a cluster the Windows scan can take
the value of a `-v` for a path.

Model-checked only is what is liveness: `ParseEnds`, `VerdictEnds`, `CaptureEnds`.
Liveness under fairness is out of the prover's reach, as is `ENABLED`. No module uses a `RECURSIVE` operator.

## 5. Plan

What is modelled is listed above; what an extension would add, most important
first:

1. `FetchedImport` with two builds at once in one `work/`, and with patches
   edited in place; `fetch:` with `SRCS=`.
2. `ImportCache`: the pkg-config answers and `_stage_import` against a package
   that is upgraded, rebuilt and removed; abstract: "what is staged is what is
   installed".
3. `CopyUp`: two producers, one destination; a warning iff there is a
   collision.
4. `Rebuild`: the inputs hash with the compile and link rules, against a clean
   build; pure operators for constraints.
5. `TestRun`: the test loop, `TEST=`, the status; `cross-test.sh`; the lock of
   `atf-build.sh`.
6. `WorkspaceBuild` shown to implement `KeepGoing` for a fresh RUN_ID; `-j`.

Each with one passing run (bounds: two versions, two files, two producers, one
interruption), a violation run only where the code contradicts its own
documentation, and its type and main safety property proved.

Not modelled. Flags and names (toolchains, paths, MSVC wrappers), formatting
(help, docs, dashboards), installation and running programs keep no state the
properties could be about. Of ATF: the wording of messages and printf-like
formatting, stdio's buffers, `error.c`, `list.c` and `sanity.c` (an error is an
outcome of the operation that returns it), the Windows stand-ins for
`vsnprintf` and DLL loading, the macros' text, and its own tests and helpers,
which were read as the statement of what is wanted.
