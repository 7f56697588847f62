---------------------------- MODULE AtfTestCase -----------------------------
(***************************************************************************)
(* One test case of the bundled ATF running: atf-c/tc.c from atf_tc_run to *)
(* the end of the process, with the process its body may fork              *)
(* (atf_utils_fork, atf_utils_wait in atf-c/utils.c).                      *)
(*                                                                         *)
(* The verdict leaves the process twice, as the exit status and as a line  *)
(* in the results file (or on standard output), which Kyua holds against   *)
(* each other.  The line is written by three system calls, and a forked    *)
(* process has the context and the open results file of its parent.        *)
(***************************************************************************)
EXTENDS Naturals, Sequences

CONSTANTS
    Abrupt,   \* of EXIT, SIGNAL, DEATH, TIMEOUT: expected ends other than returning
    Dests,    \* of "file", "std": where -r sends results
    MaxFails,    \* bound: checks failed while none was expected to
    MaxExpFails  \* bound: checks failed while one was

ASSUME AtfTestCaseAssumption ==
    /\ Abrupt \subseteq {"exit", "signal", "death", "timeout"}
    /\ Dests \subseteq {"file", "std"}
    /\ MaxFails \in Nat /\ MaxExpFails \in Nat

-----------------------------------------------------------------------------
VARIABLES
    dest,    \* where -r sends the results, once they are open
    ctx,     \* ctx[p]: the struct context Current of process p
    pc,      \* pc[p]: what p is at
    out,     \* out[p]: the line p is writing, and whether it exits then
    end,     \* end[p]: how p ended
    file,    \* the results file, line by line
    pos,     \* its offset, which the two processes share
    std,     \* the results written to standard output
    files,   \* the atf_utils_fork_<pid>_{out,err}.txt there are
    reaped,  \* waitpid has returned the forked process
    touched  \* history: the forked process has changed the results file

vars == <<dest, ctx, pc, out, end, file, pos, std, files, reaped, touched>>

\* The process of the test program and the one its body forks.
Test == "test"
Sub == "sub"
Procs == {Test, Sub}

Modes == {"pass", "fail"} \cup Abrupt
Context == [fd : {"none", "file", "std", "null"}, expect : Modes,
            fails : 0..MaxFails, expFails : 0..MaxExpFails, prev : 0..MaxExpFails]

Verdicts == {"passed", "failed", "skipped", "expected_failure"}
Lines == Verdicts \cup Abrupt  \* "death" is the line expected_death
NoLine == "no line"
Ends == {"alive", "success", "failure", "exit", "signal", "abort"}

PCs == {"unborn", "start", "redirect", "body", "error", "require",
        "truncate", "seek", "write", "exit", "ended"}

TypeOK ==
    /\ dest \in Dests \cup {"none"}
    /\ ctx \in [Procs -> Context]
    /\ pc \in [Procs -> PCs]
    /\ out \in [Procs -> [line : Lines \cup {NoLine}, last : BOOLEAN]]
    /\ end \in [Procs -> Ends]
    /\ file \in Seq(Lines \cup {"hole", "garbled"})
    /\ pos \in Nat
    /\ std \in Seq(Lines)
    /\ files \subseteq {"out", "err"}
    /\ reaped \in BOOLEAN
    /\ touched \in BOOLEAN

Silent == [line |-> NoLine, last |-> FALSE]
NoContext == [fd |-> "none", expect |-> "pass", fails |-> 0, expFails |-> 0, prev |-> 0]

Init ==
    /\ dest = "none"
    /\ ctx = [p \in Procs |-> NoContext]
    /\ pc = [p \in Procs |-> IF p = Test THEN "start" ELSE "unborn"]
    /\ out = [p \in Procs |-> Silent]
    /\ end = [p \in Procs |-> "alive"]
    /\ file = <<>> /\ pos = 0
    /\ std = <<>>
    /\ files = {}
    /\ reaped = FALSE
    /\ touched = FALSE

-----------------------------------------------------------------------------
(* Parts of steps *)

Goto(p, l) == pc' = [pc EXCEPT ![p] = l]
results == <<dest, file, pos, std>>
fork == <<files, reaped>>

\* p is no more, and with it what it knew and had open.
Exit(p, how) ==
    /\ Goto(p, "ended")
    /\ end' = [end EXCEPT ![p] = how]
    /\ ctx' = [ctx EXCEPT ![p] = NoContext]
    /\ out' = IF how \in {"success", "failure"} THEN out ELSE [out EXCEPT ![p] = Silent]

\* create_resfile; then, if last, context_close_resfile and exit.
Report(p, l, last) ==
    /\ Goto(p, "truncate")
    /\ out' = [out EXCEPT ![p] = [line |-> l, last |-> last]]

Conclude(p, l) == Report(p, l, TRUE) /\ UNCHANGED <<ctx, end>>

\* error_in_expect and fail_requirement call each other.
Error(p) == Goto(p, "error") /\ UNCHANGED <<ctx, out, end>>
Require(p) == Goto(p, "require") /\ UNCHANGED <<ctx, out, end>>

\* validate_expect: nothing announced is missing.
Valid(c) ==
    \/ c.expect = "pass"
    \/ c.expect = "fail" /\ c.expFails # c.prev

InBody(p) == pc[p] = "body" /\ UNCHANGED <<results, fork, touched>>

-----------------------------------------------------------------------------
(* The results file *)

\* context_init: results go to standard output, standard error (which is as
\* standard output) or to a new file.
Start ==
    /\ pc[Test] = "start"
    /\ \/ \E d \in Dests :
            /\ ctx' = [ctx EXCEPT ![Test].fd = d]
            /\ Goto(Test, "body")
            /\ dest' = d
            /\ UNCHANGED <<out, end>>
       \/ Exit(Test, "abort") /\ UNCHANGED dest
    /\ UNCHANGED <<file, pos, std, fork, touched>>

\* Mutant: the file is not truncated.
TruncateNothing(p) ==
    /\ pc[p] = "truncate"
    /\ Goto(p, "write")
    /\ UNCHANGED <<ctx, out, end, results, fork, touched>>

\* ftruncate, for a file that is not standard output; /dev/null cannot be.
Truncate(p) ==
    /\ pc[p] = "truncate"
    /\ IF ctx[p].fd = "file"
       THEN /\ Goto(p, "seek")
            /\ file' = <<>>
            /\ touched' = (touched \/ p = Sub)
       ELSE Goto(p, "write") /\ UNCHANGED <<file, touched>>
    /\ UNCHANGED <<dest, ctx, out, end, pos, std, fork>>

Seek(p) ==
    /\ pc[p] = "seek"
    /\ Goto(p, "write")
    /\ pos' = 0
    /\ UNCHANGED <<dest, ctx, out, end, file, std, fork, touched>>

\* The file after line l was written at offset k.
Put(f, k, l) ==
    [i \in 1..(IF k < Len(f) THEN Len(f) ELSE k + 1) |->
        IF i <= k THEN IF i <= Len(f) THEN f[i] ELSE "hole"
        ELSE IF k >= Len(f) \/ f[i] = l THEN l ELSE "garbled"]

\* The exit status that goes with a verdict.
ExitOf(l) == IF l = "failed" THEN "failure" ELSE "success"

Written(p) ==
    /\ \/ /\ ctx[p].fd = "file"
          /\ file' = Put(file, pos, out[p].line)
          /\ pos' = pos + 1
          /\ touched' = (touched \/ p = Sub)
          /\ UNCHANGED std
       \/ /\ ctx[p].fd = "std" /\ p = Test
          /\ std' = Append(std, out[p].line)
          /\ UNCHANGED <<file, pos, touched>>
       \* the forked process's standard output is a file of its own
       \/ /\ ctx[p].fd = "null" \/ (ctx[p].fd = "std" /\ p = Sub)
          /\ UNCHANGED <<results, touched>>

\* writev, repeated while it is interrupted.  After the line of an abrupt
\* end that is expected the body goes on.
Write(p) ==
    /\ pc[p] = "write"
    /\ Written(p)
    /\ IF out[p].last THEN Goto(p, "exit") /\ UNCHANGED out
       ELSE Goto(p, "body") /\ out' = [out EXCEPT ![p] = Silent]
    /\ UNCHANGED <<dest, ctx, end, fork>>

\* check_fatal_error: the line could not be written.
WriteFails(p) ==
    /\ pc[p] = "write" /\ ctx[p].fd # "null"
    /\ Exit(p, "abort")
    /\ UNCHANGED <<results, fork, touched>>

\* context_close_resfile and exit.
Quit(p) ==
    /\ pc[p] = "exit"
    /\ Exit(p, ExitOf(out[p].line))
    /\ UNCHANGED <<results, fork, touched>>

-----------------------------------------------------------------------------
(* The verdict *)

\* Mutant: the results file is closed too early.
ErrorInExpectCloses(p) ==
    /\ pc[p] = "error"
    /\ ctx' = [ctx EXCEPT ![p].expect = "pass", ![p].fd = "closed"]
    /\ Goto(p, "require")
    /\ UNCHANGED <<out, end, results, fork, touched>>

\* Mutant: an expected abrupt end stays so, and fail_requirement comes back
\* here.
ErrorInExpectKeeps(p) ==
    /\ pc[p] = "error"
    /\ ctx' = [ctx EXCEPT ![p].expect = IF @ = "fail" THEN "pass" ELSE @]
    /\ Goto(p, "require")
    /\ UNCHANGED <<out, end, results, fork, touched>>

\* error_in_expect: from now on a failure is a failure.
ErrorInExpect(p) ==
    /\ pc[p] = "error"
    /\ ctx' = [ctx EXCEPT ![p].expect = "pass"]
    /\ Goto(p, "require")
    /\ UNCHANGED <<out, end, results, fork, touched>>

FailRequirement(p) ==
    /\ pc[p] = "require"
    /\ \/ ctx[p].expect = "fail" /\ Conclude(p, "expected_failure")
       \/ ctx[p].expect = "pass" /\ Conclude(p, "failed")
       \/ ctx[p].expect \in Abrupt /\ Error(p)
    /\ UNCHANGED <<results, fork, touched>>

\* ATF_CHECK* on something false, atf_tc_fail_nonfatal.
FailCheck(p) ==
    /\ InBody(p)
    /\ \/ /\ ctx[p].expect = "pass" /\ ctx[p].fails < MaxFails
          /\ ctx' = [ctx EXCEPT ![p].fails = @ + 1]
          /\ UNCHANGED <<pc, out, end>>
       \/ /\ ctx[p].expect = "fail" /\ ctx[p].expFails < MaxExpFails
          /\ ctx' = [ctx EXCEPT ![p].expFails = @ + 1]
          /\ UNCHANGED <<pc, out, end>>
       \/ ctx[p].expect \in Abrupt /\ Error(p)

\* ATF_REQUIRE* on something false, atf_tc_fail.
Fail(p) == InBody(p) /\ Require(p)

\* ATF_CHECK_ERRNO and ATF_REQUIRE_ERRNO: the value is false, or errno is
\* another.
ErrnoTest(p) == FailCheck(p) \/ Fail(p)

\* atf_tc_pass, in the body or at the end of atf_tc_run.
PassVerdict(p) ==
    IF ctx[p].expect = "pass" THEN Conclude(p, "passed") ELSE Error(p)

Pass(p) == InBody(p) /\ PassVerdict(p)

Skip(p) == InBody(p) /\ Conclude(p, "skipped")

\* A fatal error: no memory for what a call of the body needs.
Abort(p) == InBody(p) /\ Exit(p, "abort")

\* atf_tc_require_prog of a program that is not there: absolute, looked for in
\* PATH (which may be unset), or relative, which is an error of the test.
RequireProg(p) ==
    /\ InBody(p)
    /\ Conclude(p, "skipped") \/ Require(p) \/ Exit(p, "abort")

ExpectPass(p) ==
    /\ InBody(p)
    /\ IF Valid(ctx[p])
       THEN /\ ctx' = [ctx EXCEPT ![p].expect = "pass"]
            /\ UNCHANGED <<pc, out, end>>
       ELSE Error(p)

\* Mutant: the failures of an earlier expectation count for this one.
ExpectFailKeeps(p) ==
    /\ InBody(p)
    /\ IF Valid(ctx[p])
       THEN /\ ctx' = [ctx EXCEPT ![p].expect = "fail"]
            /\ UNCHANGED <<pc, out, end>>
       ELSE Error(p)

ExpectFail(p) ==
    /\ InBody(p)
    /\ IF Valid(ctx[p])
       THEN /\ ctx' = [ctx EXCEPT ![p].expect = "fail", ![p].prev = ctx[p].expFails]
            /\ UNCHANGED <<pc, out, end>>
       ELSE Error(p)

\* atf_tc_expect_exit, _signal, _death, _timeout: the line is written at once.
ExpectAbrupt(p, m) ==
    /\ InBody(p)
    /\ IF Valid(ctx[p])
       THEN /\ ctx' = [ctx EXCEPT ![p].expect = m]
            /\ Report(p, m, FALSE)
            /\ UNCHANGED end
       ELSE Error(p)

\* The body returns to atf_tc_run.
Return(p) ==
    /\ InBody(p)
    /\ IF ~Valid(ctx[p]) THEN Error(p)
       ELSE IF ctx[p].fails > 0 THEN Require(p)
       ELSE IF ctx[p].expFails > 0 THEN Conclude(p, "expected_failure")
       ELSE PassVerdict(p)

-----------------------------------------------------------------------------
(* The forked process *)

\* atf_utils_fork; if fork fails, so does the test case.
Fork ==
    /\ InBody(Test) /\ pc[Sub] = "unborn"
    /\ \/ /\ pc' = [pc EXCEPT ![Sub] = "redirect"]
          /\ ctx' = [ctx EXCEPT ![Sub] = ctx[Test]]
          /\ UNCHANGED <<out, end>>
       \/ Require(Test)

\* In the child: standard output and error go to files; err(3) if they
\* cannot.
Redirect ==
    /\ pc[Sub] = "redirect"
    /\ \/ /\ Goto(Sub, "body") /\ UNCHANGED <<ctx, out, end>>
          /\ files' = {"out", "err"}
       \/ /\ Exit(Sub, "exit")
          /\ files' \in {{}, {"out"}}
    /\ UNCHANGED <<results, reaped, touched>>

\* atf_utils_reset_resultsfile, which ATF's own tests call in a forked
\* process.
ResetResults ==
    /\ InBody(Sub)
    /\ \/ /\ ctx' = [ctx EXCEPT ![Sub].fd = "null"]
          /\ UNCHANGED <<pc, out, end>>
       \/ Exit(Sub, "abort")

\* Mutant: waitpid's status is taken without waiting.
WaitNoHang ==
    /\ pc[Test] = "body" /\ pc[Sub] # "unborn" /\ ~reaped
    /\ reaped' = TRUE
    /\ files' = {}
    /\ UNCHANGED <<ctx, pc, out, end, results, touched>>

\* atf_utils_wait: the child has exited with the status and the output the
\* test wants.
WaitOk ==
    /\ pc[Test] = "body" /\ pc[Sub] = "ended" /\ ~reaped
    /\ end[Sub] \in {"success", "failure", "exit"} /\ files = {"out", "err"}
    /\ reaped' = TRUE
    /\ files' = {}
    /\ UNCHANGED <<ctx, pc, out, end, results, touched>>

\* It has not, there is no output to look at, or it cannot be removed.
WaitMismatch ==
    /\ pc[Test] = "body" /\ pc[Sub] = "ended" /\ ~reaped
    /\ reaped' = TRUE
    /\ files' \in {files, files \ {"out"}}
    /\ Require(Test)
    /\ UNCHANGED <<results, touched>>

\* waitpid is interrupted, or there is no child any more.
WaitFails == InBody(Test) /\ pc[Sub] # "unborn" /\ Require(Test)

-----------------------------------------------------------------------------
(* From outside *)

\* exit(3) in the body.
ExitBody(p) == InBody(p) /\ Exit(p, "exit")

\* The body's own signal, Kyua's timeout.
Kill(p) ==
    /\ pc[p] \notin {"unborn", "ended"}
    /\ Exit(p, "signal")
    /\ UNCHANGED <<results, fork, touched>>

-----------------------------------------------------------------------------
\* What a body calls, in C or as a member of atf::tests::tc.
Calls(p) ==
    \/ FailCheck(p) \/ Fail(p) \/ ErrnoTest(p) \/ Pass(p) \/ Skip(p) \/ RequireProg(p)
    \/ ExpectPass(p) \/ ExpectFail(p) \/ \E m \in Abrupt : ExpectAbrupt(p, m)

Body(p) == Calls(p) \/ Abort(p) \/ Return(p)

Forking ==
    Fork \/ Redirect \/ ResetResults \/ WaitOk \/ WaitMismatch \/ WaitFails

Finish(p) ==
    \/ ErrorInExpect(p) \/ FailRequirement(p)
    \/ Truncate(p) \/ Seek(p) \/ Write(p) \/ WriteFails(p) \/ Quit(p)

Next ==
    \/ Start \/ Forking
    \/ \E p \in Procs : Body(p) \/ Finish(p) \/ ExitBody(p) \/ Kill(p)

\* A process that is not stopped goes on to what it has to do next; what
\* its body does, and whether it ends, is the test's own.
Spec == Init /\ [][Next]_vars /\ \A p \in Procs : WF_vars(Finish(p))

-----------------------------------------------------------------------------
(* Properties *)

\* The verdict p has come to.
Decided(p) ==
    IF pc[p] = "error" THEN "failed"
    ELSE IF pc[p] = "require"
    THEN IF ctx[p].expect = "fail" THEN "expected_failure" ELSE "failed"
    ELSE IF out[p].last THEN out[p].line
    ELSE IF end[p] \in {"exit", "signal", "abort"} THEN "ended"
    ELSE "none"

\* No process that could still write, or has written, shares the results.
Alone == reaped \/ (~touched /\ pc[Sub] \in {"unborn", "ended"})

\* What who runs the test finds in the results: on standard output, the last.
Told == IF dest = "std" /\ std # <<>> THEN <<std[Len(std)]>>
        ELSE IF dest = "std" THEN <<>> ELSE file

\* When the process of the test has ended and no forked process interfered,
\* results and exit status are of one verdict: if it exited with a verdict,
\* that is the one line told; a line that announces another end is not there
\* (create_resfile, atf_tc_run; Kyua holds the two against each other).
ResultTellsTheEnd ==
    end[Test] \in {"success", "failure"} /\ Alone =>
        \E v \in Verdicts : Told = <<v>> /\ ExitOf(v) = end[Test]

\* A test that passes after it waited for its forked process has seen it exit
\* by itself, and has removed what it printed (atf_utils_wait).
PassedMeansWaited ==
    Decided(Test) = "passed" /\ reaped =>
        end[Sub] \in {"success", "failure", "exit"} /\ files = {}

\* The test case is judged by its counters as AtfVerdict judges it by what
\* happened (atf_tc_run, validate_expect).
Judging == Decided(Test) # "none"
Verdict == INSTANCE AtfVerdict WITH
    mode <- IF Judging THEN "pass" ELSE ctx[Test].expect,
    raised <- ~Judging /\ ctx[Test].expect = "fail" /\ ctx[Test].expFails > ctx[Test].prev,
    known <- ~Judging /\ ctx[Test].expFails > 0,
    bad <- ~Judging /\ ctx[Test].fails > 0,
    verdict <- Decided(Test)
Judged == Verdict!Spec

\* A process that has a verdict ends: error_in_expect and fail_requirement do
\* not call each other for ever.
VerdictEnds == \A p \in Procs : Decided(p) # "none" ~> end[p] # "alive"
=============================================================================
