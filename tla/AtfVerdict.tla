----------------------------- MODULE AtfVerdict -----------------------------
(***************************************************************************)
(* What a test case of the bundled ATF is judged to be, by what its body   *)
(* did: without counters, results files or processes.  The outcomes are    *)
(* the ones test-programs/expect_test.sh wants for the bodies of           *)
(* c_helpers.c and cpp_helpers.cpp.                                        *)
(***************************************************************************)
CONSTANT Abrupt  \* the ways a body can be expected to end other than by returning

VARIABLES
    mode,    \* what the body said to expect
    raised,  \* a failure came since it said so
    known,   \* some failure came while one was expected
    bad,     \* some check failed while none was expected
    verdict  \* what the test case was judged to be

vars == <<mode, raised, known, bad, verdict>>

Modes == {"pass", "fail"} \cup Abrupt

Init ==
    /\ mode = "pass"
    /\ raised = FALSE /\ known = FALSE /\ bad = FALSE
    /\ verdict = "none"

\* What was announced has come, or nothing was.
Honoured == mode = "pass" \/ (mode = "fail" /\ raised)

\* Judged, and what led to it forgotten.
Judge(v) ==
    /\ verdict = "none"
    /\ verdict' = v
    /\ mode' = "pass"
    /\ raised' = FALSE /\ known' = FALSE /\ bad' = FALSE

Announce(m) ==
    /\ verdict = "none" /\ Honoured
    /\ mode' = m
    /\ raised' = FALSE
    /\ UNCHANGED <<known, bad, verdict>>

Disappoint == ~Honoured /\ Judge("failed")

CheckFails ==
    /\ verdict = "none"
    /\ \/ mode = "pass" /\ bad' = TRUE /\ UNCHANGED <<raised, known>>
       \/ mode = "fail" /\ raised' = TRUE /\ known' = TRUE /\ UNCHANGED bad
    /\ UNCHANGED <<mode, verdict>>

\* A failed requirement; a check that fails where an abrupt end was expected.
Fails == Judge(IF mode = "fail" THEN "expected_failure" ELSE "failed")

Skips == Judge("skipped")

SaysPass == Judge(IF mode = "pass" THEN "passed" ELSE "failed")

Returns ==
    /\ Honoured
    /\ Judge(IF bad /\ mode = "pass" THEN "failed"
             ELSE IF bad \/ known THEN "expected_failure"
             ELSE "passed")

\* The process ends some other way, judged or not.
Ends ==
    /\ verdict' = "ended"
    /\ mode' = "pass"
    /\ raised' = FALSE /\ known' = FALSE /\ bad' = FALSE

Next ==
    \/ \E m \in Modes : Announce(m)
    \/ Disappoint \/ CheckFails \/ Fails \/ Skips \/ SaysPass \/ Returns
    \/ Ends

Spec == Init /\ [][Next]_vars
=============================================================================
