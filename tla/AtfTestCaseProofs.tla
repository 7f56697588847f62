------------------------- MODULE AtfTestCaseProofs --------------------------
(***************************************************************************)
(* Proofs about AtfTestCase.  Every step is of one process or of none, so  *)
(* what holds of each process by itself (Fit) is shown of the one that     *)
(* moves, action by action, and carried over to both.                      *)
(***************************************************************************)
EXTENDS AtfTestCase, TLAPS

Out == [line : Lines \cup {NoLine}, last : BOOLEAN]

\* What fits together in a process: its context c, where it is (l), what it
\* writes (o) and how it ended (e).  An expectation never counts from more
\* failures than there were; a line is being written when one is; and only a
\* process with a verdict exits with one.
Fit(c, l, o, e) ==
    /\ c \in Context /\ c.prev <= c.expFails
    /\ l \in PCs /\ o \in Out /\ e \in Ends
    /\ l = "ended" <=> e # "alive"
    /\ l \in {"truncate", "seek", "write"} => o.line \in Lines
    /\ l = "exit" => o.last
    /\ o.last => o.line \in Verdicts
    /\ o.last => l \in {"truncate", "seek", "write", "exit"} \/ e \in {"success", "failure"}
    /\ e \in {"success", "failure"} => o.last

Tables ==
    /\ ctx \in [Procs -> Context] /\ pc \in [Procs -> PCs]
    /\ out \in [Procs -> Out] /\ end \in [Procs -> Ends]

World ==
    /\ dest \in Dests \cup {"none"}
    /\ file \in Seq(Lines \cup {"hole", "garbled"}) /\ pos \in Nat
    /\ std \in Seq(Lines)
    /\ files \subseteq {"out", "err"} /\ reaped \in BOOLEAN /\ touched \in BOOLEAN

IInv ==
    /\ World
    /\ Tables
    /\ \A p \in Procs : Fit(ctx[p], pc[p], out[p], end[p])

\* Process p, and no other, has changed to what fits together.
Local(p) ==
    \E c \in Context, l \in PCs, o \in Out, e \in Ends :
        /\ Fit(c, l, o, e)
        /\ ctx' = [ctx EXCEPT ![p] = c]
        /\ pc' = [pc EXCEPT ![p] = l]
        /\ out' = [out EXCEPT ![p] = o]
        /\ end' = [end EXCEPT ![p] = e]

-----------------------------------------------------------------------------
(* The kinds of step *)

LEMMA LocalFits ==
    ASSUME IInv, NEW p \in Procs, Local(p)
    PROVE  /\ Tables'
           /\ \A q \in Procs : Fit(ctx'[q], pc'[q], out'[q], end'[q])
  <1>1. PICK c \in Context, l \in PCs, o \in Out, e \in Ends :
            /\ Fit(c, l, o, e)
            /\ ctx' = [ctx EXCEPT ![p] = c] /\ pc' = [pc EXCEPT ![p] = l]
            /\ out' = [out EXCEPT ![p] = o] /\ end' = [end EXCEPT ![p] = e]
    BY DEF Local
  <1>3. Tables'
    BY <1>1 DEF IInv, Tables
  <1>4. ASSUME NEW q \in Procs PROVE Fit(ctx'[q], pc'[q], out'[q], end'[q])
    <2>1. CASE q = p
      <3>1. ctx'[q] = c /\ pc'[q] = l
        BY <1>1, <2>1 DEF IInv, Tables
      <3>2. out'[q] = o /\ end'[q] = e
        BY <1>1, <2>1 DEF IInv, Tables
      <3>3. Fit(c, l, o, e)
        BY <1>1
      <3> QED BY <3>1, <3>2, <3>3, Zenon
    <2>2. CASE q # p
      <3>1. ctx'[q] = ctx[q] /\ pc'[q] = pc[q] /\ out'[q] = out[q] /\ end'[q] = end[q]
        BY <1>1, <2>2 DEF IInv, Tables
      <3> QED BY <3>1 DEF IInv
    <2> QED BY <2>1, <2>2
  <1> QED BY <1>3, <1>4

\* A process knows more, and is where it was or at l.
LEMMA Knows ==
    ASSUME IInv, NEW p \in Procs, NEW c \in Context, NEW l \in PCs,
           ctx' = [ctx EXCEPT ![p] = c], pc' = [pc EXCEPT ![p] = l], UNCHANGED <<out, end>>,
           Fit(c, l, out[p], end[p])
    PROVE  Local(p)
  <1>1. out' = [out EXCEPT ![p] = out[p]] /\ end' = [end EXCEPT ![p] = end[p]]
    BY DEF IInv, Tables
  <1>2. out[p] \in Out /\ end[p] \in Ends
    BY DEF IInv, Tables
  <1> QED BY <1>1, <1>2 DEF Local

\* A process goes on, and nothing else of it changes.
LEMMA GoesOn ==
    ASSUME IInv, NEW p \in Procs, NEW l \in PCs, Goto(p, l), UNCHANGED <<ctx, out, end>>,
           Fit(ctx[p], l, out[p], end[p])
    PROVE  Local(p)
  <1>1. ctx[p] \in Context /\ ctx' = [ctx EXCEPT ![p] = ctx[p]]
    BY DEF IInv, Tables
  <1>2. pc' = [pc EXCEPT ![p] = l]
    BY DEF Goto
  <1>3. UNCHANGED <<out, end>>
    OBVIOUS
  <1> QED BY <1>1, <1>2, <1>3, Knows

\* Where a process runs, it has no line and has not ended.
LEMMA Running ==
    ASSUME IInv, NEW p \in Procs,
           pc[p] \in {"unborn", "start", "redirect", "body", "error", "require"}
    PROVE  /\ end[p] = "alive" /\ ~out[p].last
           /\ \A l \in {"unborn", "start", "redirect", "body", "error", "require"}, c \in Context :
                c.prev <= c.expFails => Fit(c, l, out[p], end[p])
  <1>1. Fit(ctx[p], pc[p], out[p], end[p]) BY DEF IInv
  <1>2. end[p] = "alive" /\ ~out[p].last
    BY <1>1 DEF Fit
  <1>3. out[p] \in Out /\ end[p] \in Ends
    BY <1>1 DEF Fit
  <1>4. ASSUME NEW l \in {"unborn", "start", "redirect", "body", "error", "require"},
               NEW c \in Context, c.prev <= c.expFails
        PROVE  Fit(c, l, out[p], end[p])
    <2>1. l \in PCs BY DEF PCs
    <2> QED BY <1>2, <1>3, <1>4, <2>1 DEF Fit
  <1> QED BY <1>2, <1>4

LEMMA Ending ==
    ASSUME IInv, NEW p \in Procs, NEW how \in Ends \ {"alive"}, Exit(p, how),
           how \in {"success", "failure"} => out[p].last
    PROVE  Local(p)
  <1>1. Fit(ctx[p], pc[p], out[p], end[p]) BY DEF IInv
  <1>2. NoContext \in Context /\ NoContext.prev <= NoContext.expFails
    BY AtfTestCaseAssumption DEF NoContext, Context, Modes
  <1>5. /\ ctx' = [ctx EXCEPT ![p] = NoContext] /\ pc' = [pc EXCEPT ![p] = "ended"]
        /\ end' = [end EXCEPT ![p] = how] /\ "ended" \in PCs /\ how \in Ends
    BY DEF Exit, Goto, PCs
  <1>3. CASE how \in {"success", "failure"}
    <2>1. Fit(NoContext, "ended", out[p], how)
      BY <1>1, <1>2, <1>3 DEF Fit, PCs
    <2>2. out' = [out EXCEPT ![p] = out[p]]
      BY <1>3 DEF Exit, IInv, Tables
    <2>3. out[p] \in Out
      BY DEF IInv, Tables
    <2> QED BY <1>2, <1>5, <2>1, <2>2, <2>3, Zenon DEF Local
  <1>4. CASE how \notin {"success", "failure"}
    <2>1. Fit(NoContext, "ended", Silent, how)
      BY <1>2, <1>4 DEF Fit, PCs, Silent, Out, NoLine
    <2>2. out' = [out EXCEPT ![p] = Silent]
      BY <1>4 DEF Exit
    <2>3. Silent \in Out
      BY DEF Silent, Out
    <2> QED BY <1>2, <1>5, <2>1, <2>2, <2>3, Zenon DEF Local
  <1> QED BY <1>3, <1>4

LEMMA Reporting ==
    ASSUME IInv, NEW p \in Procs, end[p] = "alive",
           NEW c \in Context, c.prev <= c.expFails, ctx' = [ctx EXCEPT ![p] = c],
           NEW line \in Lines, NEW last \in BOOLEAN, last => line \in Verdicts,
           Report(p, line, last), UNCHANGED end
    PROVE  Local(p)
  <1>1. Fit(c, "truncate", [line |-> line, last |-> last], end[p])
    BY DEF Fit, PCs, Out, Ends
  <1>2. end' = [end EXCEPT ![p] = end[p]] /\ end[p] \in Ends
    BY DEF IInv, Tables
  <1>3. pc' = [pc EXCEPT ![p] = "truncate"] /\ "truncate" \in PCs
    BY DEF Report, Goto, PCs
  <1>4. /\ out' = [out EXCEPT ![p] = [line |-> line, last |-> last]]
        /\ [line |-> line, last |-> last] \in Out
    BY DEF Report, Out
  <1> QED BY <1>1, <1>2, <1>3, <1>4, Zenon DEF Local

-----------------------------------------------------------------------------
(* Each action *)

LEMMA BodyFits ==
    ASSUME IInv, NEW p \in Procs, pc[p] = "body"
    PROVE  /\ end[p] = "alive" /\ ~out[p].last
           /\ ctx[p] \in Context /\ ctx[p].prev <= ctx[p].expFails
  BY Running DEF IInv, Tables, Fit

LEMMA ErrorLocal ==
    ASSUME IInv, NEW p \in Procs, pc[p] = "body" \/ pc[p] = "require", Error(p) PROVE Local(p)
  <1>1. Fit(ctx[p], "error", out[p], end[p])
    <2>1. ctx[p] \in Context /\ ctx[p].prev <= ctx[p].expFails BY DEF IInv, Fit
    <2> QED BY <2>1, Running
  <1>2. "error" \in PCs BY DEF PCs
  <1> QED BY <1>1, <1>2, GoesOn DEF Error

LEMMA RequireLocal ==
    ASSUME IInv, NEW p \in Procs, pc[p] = "body", Require(p) PROVE Local(p)
  <1>1. Fit(ctx[p], "require", out[p], end[p])
    <2>1. ctx[p] \in Context /\ ctx[p].prev <= ctx[p].expFails BY DEF IInv, Fit
    <2> QED BY <2>1, Running
  <1>2. "require" \in PCs BY DEF PCs
  <1> QED BY <1>1, <1>2, GoesOn DEF Require

LEMMA ConcludeLocal ==
    ASSUME IInv, NEW p \in Procs, pc[p] = "body" \/ pc[p] = "require",
           NEW v \in Verdicts, Conclude(p, v)
    PROVE  Local(p)
  <1>1. end[p] = "alive" BY Running
  <1>2. ctx[p] \in Context /\ ctx[p].prev <= ctx[p].expFails BY DEF IInv, Fit
  <1>3. ctx' = [ctx EXCEPT ![p] = ctx[p]] /\ UNCHANGED end BY DEF Conclude, IInv, Tables
  <1>4. v \in Lines /\ Report(p, v, TRUE) BY DEF Lines, Conclude
  <1> QED BY <1>1, <1>2, <1>3, <1>4, Reporting

LEMMA AbortLocal ==
    ASSUME IInv, NEW p \in Procs, NEW how \in {"exit", "signal", "abort"}, Exit(p, how)
    PROVE  Local(p)
  BY Ending DEF Ends

\* What the body has heard is in its context.
LEMMA HeardLocal ==
    ASSUME IInv, NEW p \in Procs, pc[p] = "body", NEW c \in Context, c.prev <= c.expFails,
           ctx' = [ctx EXCEPT ![p] = c], UNCHANGED <<pc, out, end>>
    PROVE  Local(p)
  <1>1. pc' = [pc EXCEPT ![p] = "body"] /\ "body" \in PCs BY DEF IInv, Tables, PCs
  <1>2. Fit(c, "body", out[p], end[p]) BY Running
  <1> QED BY <1>1, <1>2, Knows

LEMMA FailCheckLocal == ASSUME IInv, NEW p \in Procs, FailCheck(p) PROVE Local(p)
  <1>0. pc[p] = "body" BY DEF FailCheck, InBody
  <1>1. ctx[p] \in Context /\ ctx[p].prev <= ctx[p].expFails BY <1>0, BodyFits
  <1>2. CASE ctx[p].expect \in Abrupt /\ Error(p)
    BY <1>0, <1>2, ErrorLocal
  <1>3. CASE /\ ctx[p].fails < MaxFails
             /\ ctx' = [ctx EXCEPT ![p].fails = @ + 1] /\ UNCHANGED <<pc, out, end>>
    <2> DEFINE c == [ctx[p] EXCEPT !.fails = @ + 1]
    <2>1. c \in Context /\ c.prev <= c.expFails BY <1>1, <1>3, AtfTestCaseAssumption DEF Context
    <2>2. ctx' = [ctx EXCEPT ![p] = c] BY <1>3 DEF IInv, Tables
    <2> QED BY <1>0, <1>3, <2>1, <2>2, HeardLocal
  <1>4. CASE /\ ctx[p].expFails < MaxExpFails
             /\ ctx' = [ctx EXCEPT ![p].expFails = @ + 1] /\ UNCHANGED <<pc, out, end>>
    <2> DEFINE c == [ctx[p] EXCEPT !.expFails = @ + 1]
    <2>1. c \in Context /\ c.prev <= c.expFails BY <1>1, <1>4, AtfTestCaseAssumption DEF Context
    <2>2. ctx' = [ctx EXCEPT ![p] = c] BY <1>4 DEF IInv, Tables
    <2> QED BY <1>0, <1>4, <2>1, <2>2, HeardLocal
  <1> QED BY <1>2, <1>3, <1>4 DEF FailCheck

LEMMA ExpectLocal ==
    ASSUME IInv, NEW p \in Procs, ExpectPass(p) \/ ExpectFail(p) \/ \E m \in Abrupt : ExpectAbrupt(p, m)
    PROVE  Local(p)
  <1>0. pc[p] = "body" BY DEF ExpectPass, ExpectFail, ExpectAbrupt, InBody
  <1>1. ctx[p] \in Context /\ ctx[p].prev <= ctx[p].expFails /\ end[p] = "alive"
    BY <1>0, BodyFits
  <1>2. CASE Error(p)
    BY <1>0, <1>2, ErrorLocal
  <1>3. CASE ctx' = [ctx EXCEPT ![p].expect = "pass"] /\ UNCHANGED <<pc, out, end>>
    <2> DEFINE c == [ctx[p] EXCEPT !.expect = "pass"]
    <2>1. c \in Context /\ c.prev <= c.expFails BY <1>1 DEF Context, Modes
    <2>2. ctx' = [ctx EXCEPT ![p] = c] BY <1>3 DEF IInv, Tables
    <2> QED BY <1>0, <1>3, <2>1, <2>2, HeardLocal
  <1>4. CASE /\ ctx' = [ctx EXCEPT ![p].expect = "fail", ![p].prev = ctx[p].expFails]
             /\ UNCHANGED <<pc, out, end>>
    <2> DEFINE c == [ctx[p] EXCEPT !.expect = "fail", !.prev = ctx[p].expFails]
    <2>1. c \in Context /\ c.prev <= c.expFails
      <3>1. ctx[p].expFails \in 0..MaxExpFails
        BY <1>1 DEF Context
      <3>2. c \in Context
        BY <1>1, <3>1 DEF Context, Modes
      <3>3. c.prev = ctx[p].expFails /\ c.expFails = ctx[p].expFails
        BY <1>1 DEF Context
      <3> QED BY <3>1, <3>2, <3>3, AtfTestCaseAssumption
    <2>2. ctx' = [ctx EXCEPT ![p] = c] BY <1>4 DEF IInv, Tables
    <2> QED BY <1>0, <1>4, <2>1, <2>2, HeardLocal
  <1>5. ASSUME NEW m \in Abrupt, ctx' = [ctx EXCEPT ![p].expect = m], Report(p, m, FALSE),
               UNCHANGED end
        PROVE  Local(p)
    <2> DEFINE c == [ctx[p] EXCEPT !.expect = m]
    <2>1. c \in Context /\ c.prev <= c.expFails BY <1>1 DEF Context, Modes
    <2>2. ctx' = [ctx EXCEPT ![p] = c] BY <1>5 DEF IInv, Tables
    <2>3. m \in Lines BY DEF Lines
    <2> QED BY <1>1, <1>5, <2>1, <2>2, <2>3, Reporting
  <1> QED BY <1>2, <1>3, <1>4, <1>5 DEF ExpectPass, ExpectFail, ExpectAbrupt

LEMMA ReturnLocal == ASSUME IInv, NEW p \in Procs, Return(p) PROVE Local(p)
  <1>0. pc[p] = "body" BY DEF Return, InBody
  <1>1. \/ Error(p) \/ Require(p) \/ \E v \in Verdicts : Conclude(p, v)
    BY DEF Return, PassVerdict, Verdicts
  <1> QED BY <1>0, <1>1, ErrorLocal, RequireLocal, ConcludeLocal

LEMMA BodyLocal == ASSUME IInv, NEW p \in Procs, Body(p) PROVE Local(p)
  <1>1. CASE FailCheck(p) BY <1>1, FailCheckLocal
  <1>2. CASE Fail(p) BY <1>2, RequireLocal DEF Fail, InBody
  <1>3. CASE ErrnoTest(p) BY <1>3, FailCheckLocal, RequireLocal DEF ErrnoTest, Fail, InBody
  <1>4. CASE Pass(p)
    BY <1>4, ErrorLocal, ConcludeLocal DEF Pass, PassVerdict, InBody, Verdicts
  <1>5. CASE Skip(p) BY <1>5, ConcludeLocal DEF Skip, InBody, Verdicts
  <1>6. CASE RequireProg(p)
    BY <1>6, ConcludeLocal, RequireLocal, AbortLocal DEF RequireProg, InBody, Verdicts
  <1>7. CASE ExpectPass(p) \/ ExpectFail(p) \/ \E m \in Abrupt : ExpectAbrupt(p, m)
    BY <1>7, ExpectLocal
  <1>8. CASE Abort(p) BY <1>8, AbortLocal DEF Abort
  <1>9. CASE Return(p) BY <1>9, ReturnLocal
  <1> QED BY <1>1, <1>2, <1>3, <1>4, <1>5, <1>6, <1>7, <1>8, <1>9 DEF Body, Calls

LEMMA SubLocal == ASSUME IInv, Redirect \/ ResetResults PROVE Local(Sub)
  <1> USE DEF Procs
  <1>1. CASE Redirect
    <2>1. CASE Goto(Sub, "body") /\ UNCHANGED <<ctx, out, end>>
      <3>1. ctx[Sub] \in Context /\ ctx[Sub].prev <= ctx[Sub].expFails BY DEF IInv, Fit
      <3>2. Fit(ctx[Sub], "body", out[Sub], end[Sub]) /\ "body" \in PCs
        BY <1>1, <3>1, Running DEF Redirect, PCs
      <3> QED BY <2>1, <3>2, GoesOn
    <2>2. CASE Exit(Sub, "exit") BY <2>2, AbortLocal
    <2> QED BY <1>1, <2>1, <2>2 DEF Redirect
  <1>2. CASE ResetResults
    <2>1. pc[Sub] = "body" BY <1>2 DEF ResetResults, InBody
    <2>2. CASE Exit(Sub, "abort") BY <2>2, AbortLocal
    <2>3. CASE ctx' = [ctx EXCEPT ![Sub].fd = "null"] /\ UNCHANGED <<pc, out, end>>
      <3> DEFINE c == [ctx[Sub] EXCEPT !.fd = "null"]
      <3>1. ctx[Sub] \in Context /\ ctx[Sub].prev <= ctx[Sub].expFails BY <2>1, BodyFits
      <3>2. c \in Context /\ c.prev <= c.expFails BY <3>1 DEF Context
      <3>3. ctx' = [ctx EXCEPT ![Sub] = c] BY <2>3 DEF IInv, Tables
      <3> QED BY <2>1, <2>3, <3>2, <3>3, HeardLocal
    <2> QED BY <1>2, <2>2, <2>3 DEF ResetResults
  <1> QED BY <1>1, <1>2

LEMMA ForkingLocal == ASSUME IInv, Forking PROVE \E p \in Procs : Local(p)
  <1> USE DEF Procs
  <1>1. CASE Fork
    <2>1. pc[Test] = "body" /\ pc[Sub] = "unborn" BY <1>1 DEF Fork, InBody
    <2>2. CASE Require(Test) BY <2>1, <2>2, RequireLocal
    <2>3. CASE /\ pc' = [pc EXCEPT ![Sub] = "redirect"] /\ ctx' = [ctx EXCEPT ![Sub] = ctx[Test]]
               /\ UNCHANGED <<out, end>>
      <3>1. ctx[Test] \in Context /\ ctx[Test].prev <= ctx[Test].expFails
        BY <2>1, BodyFits
      <3>2. Fit(ctx[Test], "redirect", out[Sub], end[Sub]) /\ "redirect" \in PCs
        BY <2>1, <3>1, Running DEF PCs
      <3>3. Local(Sub) BY <2>3, <3>1, <3>2, Knows
      <3> QED BY <3>3
    <2> QED BY <1>1, <2>2, <2>3 DEF Fork
  <1>2. CASE Redirect \/ ResetResults BY <1>2, SubLocal
  <1>4. CASE WaitOk
    <2>1. pc[Test] = "body" /\ ctx' = ctx /\ UNCHANGED <<pc, out, end>> BY <1>4 DEF WaitOk
    <2>2. ctx[Test] \in Context /\ ctx[Test].prev <= ctx[Test].expFails BY <2>1, BodyFits
    <2>3. ctx' = [ctx EXCEPT ![Test] = ctx[Test]] BY <2>1 DEF IInv, Tables
    <2>4. Local(Test) BY <2>1, <2>2, <2>3, HeardLocal
    <2> QED BY <2>4
  <1>5. CASE WaitMismatch \/ WaitFails
    BY <1>5, RequireLocal DEF WaitMismatch, WaitFails, InBody
  <1> QED BY <1>1, <1>2, <1>4, <1>5 DEF Forking

LEMMA StartLocal == ASSUME IInv, Start PROVE Local(Test)
  <1> USE DEF Procs
  <1>1. CASE Exit(Test, "abort") BY <1>1, AbortLocal
  <1>2. ASSUME NEW d \in Dests, ctx' = [ctx EXCEPT ![Test].fd = d], Goto(Test, "body"),
               UNCHANGED <<out, end>>
        PROVE  Local(Test)
    <2> DEFINE c == [ctx[Test] EXCEPT !.fd = d]
    <2>1. ctx[Test] \in Context /\ ctx[Test].prev <= ctx[Test].expFails BY DEF IInv, Fit
    <2>2. c \in Context /\ c.prev <= c.expFails BY <2>1, AtfTestCaseAssumption DEF Context
    <2>3. ctx' = [ctx EXCEPT ![Test] = c] /\ pc' = [pc EXCEPT ![Test] = "body"] /\ "body" \in PCs
      BY <1>2 DEF IInv, Tables, Goto, PCs
    <2>4. pc[Test] = "start" BY DEF Start
    <2>5. Fit(c, "body", out[Test], end[Test]) BY <2>2, <2>4, Running
    <2> QED BY <1>2, <2>2, <2>3, <2>5, Knows
  <1> QED BY <1>1, <1>2 DEF Start

\* A process that writes its line goes from one call to the next.
LEMMA WritingOn ==
    ASSUME IInv, NEW p \in Procs, pc[p] \in {"truncate", "seek", "write"},
           NEW l \in {"truncate", "seek", "write"}, Goto(p, l), UNCHANGED <<ctx, out, end>>
    PROVE  Local(p)
  <1>1. Fit(ctx[p], pc[p], out[p], end[p]) BY DEF IInv
  <1>2. l \in PCs BY DEF PCs
  <1>3. Fit(ctx[p], l, out[p], end[p]) BY <1>1, <1>2 DEF Fit
  <1> QED BY <1>2, <1>3, GoesOn

LEMMA FinishLocal == ASSUME IInv, NEW p \in Procs, Finish(p) PROVE Local(p)
  <1>1. CASE ErrorInExpect(p)
    <2> DEFINE c == [ctx[p] EXCEPT !.expect = "pass"]
    <2>1. ctx[p] \in Context /\ ctx[p].prev <= ctx[p].expFails BY DEF IInv, Fit
    <2>2. c \in Context /\ c.prev <= c.expFails BY <2>1 DEF Context, Modes
    <2>3. ctx' = [ctx EXCEPT ![p] = c] /\ pc' = [pc EXCEPT ![p] = "require"]
            /\ "require" \in PCs /\ UNCHANGED <<out, end>>
      BY <1>1 DEF IInv, Tables, ErrorInExpect, Goto, PCs
    <2>4. Fit(c, "require", out[p], end[p]) BY <1>1, <2>2, Running DEF ErrorInExpect
    <2> QED BY <2>2, <2>3, <2>4, Knows
  <1>2. CASE FailRequirement(p)
    BY <1>2, ConcludeLocal, ErrorLocal DEF FailRequirement, Verdicts
  <1>3. CASE Truncate(p) BY <1>3, WritingOn DEF Truncate
  <1>4. CASE Seek(p) BY <1>4, WritingOn DEF Seek
  <1>5. CASE Write(p)
    <2>1. Fit(ctx[p], "write", out[p], end[p]) BY <1>5 DEF Write, IInv
    <2>2. CASE out[p].last /\ Goto(p, "exit") /\ UNCHANGED out
      <3>1. Fit(ctx[p], "exit", out[p], end[p]) /\ "exit" \in PCs BY <2>1, <2>2 DEF Fit, PCs
      <3>2. UNCHANGED <<ctx, out, end>> BY <1>5, <2>2 DEF Write
      <3> QED BY <2>2, <3>1, <3>2, GoesOn
    <2>3. CASE ~out[p].last /\ Goto(p, "body") /\ out' = [out EXCEPT ![p] = Silent]
      <3>1. /\ ctx[p] \in Context /\ ctx' = [ctx EXCEPT ![p] = ctx[p]]
            /\ end[p] \in Ends /\ end' = [end EXCEPT ![p] = end[p]]
        BY <1>5 DEF Write, IInv, Tables
      <3>2. Silent \in Out /\ "body" \in PCs BY DEF Silent, Out, PCs
      <3>3. Fit(ctx[p], "body", Silent, end[p]) BY <2>1, <2>3, <3>2 DEF Fit, Silent
      <3>4. pc' = [pc EXCEPT ![p] = "body"] BY <2>3 DEF Goto
      <3> QED BY <2>3, <3>1, <3>2, <3>3, <3>4, Zenon DEF Local
    <2> QED BY <1>5, <2>2, <2>3 DEF Write
  <1>6. CASE WriteFails(p) BY <1>6, AbortLocal DEF WriteFails
  <1>7. CASE Quit(p)
    <2>1. out[p].last BY <1>7 DEF Quit, IInv, Fit
    <2>2. ExitOf(out[p].line) \in Ends \ {"alive"} BY DEF ExitOf, Ends
    <2> QED BY <1>7, <2>1, <2>2, Ending DEF Quit
  <1> QED BY <1>1, <1>2, <1>3, <1>4, <1>5, <1>6, <1>7 DEF Finish

-----------------------------------------------------------------------------
(* What the processes share *)

LEMMA PutType ==
    ASSUME NEW S, NEW f \in Seq(S \cup {"hole", "garbled"}), NEW k \in Nat, NEW l \in S
    PROVE  Put(f, k, l) \in Seq(S \cup {"hole", "garbled"})
  <1> DEFINE n == IF k < Len(f) THEN Len(f) ELSE k + 1
  <1>1. n \in Nat OBVIOUS
  <1>2. ASSUME NEW i \in 1..n
        PROVE  (IF i <= k THEN IF i <= Len(f) THEN f[i] ELSE "hole"
                ELSE IF k >= Len(f) \/ f[i] = l THEN l ELSE "garbled") \in S \cup {"hole", "garbled"}
    BY <1>1
  <1> QED BY <1>1, <1>2 DEF Put

LEMMA WorldKept == ASSUME IInv, Next PROVE World'
  <1>1. CASE Start
    <2>1. dest' \in Dests \cup {"none"} BY <1>1 DEF Start, IInv, World
    <2>2. UNCHANGED <<file, pos, std, files, reaped, touched>> BY <1>1 DEF Start, fork
    <2> QED BY <2>1, <2>2 DEF IInv, World
  <1>2. CASE Forking
    BY <1>2 DEF Forking, Fork, Redirect, ResetResults, WaitOk, WaitMismatch, WaitFails, InBody,
                results, fork, IInv, World
  <1>3. ASSUME NEW p \in Procs, Body(p) PROVE World'
    <2>1. InBody(p)
      BY <1>3 DEF Body, Calls, FailCheck, Fail, ErrnoTest, Pass, Skip, Abort, RequireProg,
                  ExpectPass, ExpectFail, ExpectAbrupt, Return
    <2> QED BY <2>1 DEF InBody, results, fork, IInv, World
  <1>4. ASSUME NEW p \in Procs, Finish(p) PROVE World'
    <2>1. CASE ErrorInExpect(p) \/ FailRequirement(p) \/ WriteFails(p) \/ Quit(p)
      BY <2>1 DEF ErrorInExpect, FailRequirement, WriteFails, Quit, results, fork, IInv, World
    <2>2. CASE Truncate(p)
      <3>1. <<>> \in Seq(Lines \cup {"hole", "garbled"}) OBVIOUS
      <3>2. file' = <<>> \/ file' = file BY <2>2 DEF Truncate
      <3>3. file' \in Seq(Lines \cup {"hole", "garbled"}) BY <3>1, <3>2, Zenon DEF IInv, World
      <3>4. touched' \in BOOLEAN BY <2>2, Zenon DEF Truncate, IInv, World
      <3>5. UNCHANGED <<dest, pos, std, files, reaped>> BY <2>2 DEF Truncate, fork
      <3> QED BY <3>3, <3>4, <3>5 DEF IInv, World
    <2>3. CASE Seek(p) BY <2>3 DEF Seek, fork, IInv, World
    <2>4. CASE Write(p)
      <3>1. out[p].line \in Lines BY <2>4 DEF Write, IInv, Fit
      <3>2. Put(file, pos, out[p].line) \in Seq(Lines \cup {"hole", "garbled"})
        BY <3>1, PutType DEF IInv, World
      <3>3. Append(std, out[p].line) \in Seq(Lines) BY <3>1 DEF IInv, World
      <3>4. Written(p) /\ UNCHANGED <<dest, files, reaped>> BY <2>4 DEF Write, fork
      <3>5. /\ file' = Put(file, pos, out[p].line) \/ file' = file
            /\ pos' = pos + 1 \/ pos' = pos
            /\ std' = Append(std, out[p].line) \/ std' = std
        BY <3>4 DEF Written, results
      <3>6. file' \in Seq(Lines \cup {"hole", "garbled"}) BY <3>2, <3>5, Zenon DEF IInv, World
      <3>7. std' \in Seq(Lines) BY <3>3, <3>5, Zenon DEF IInv, World
      <3>8. pos' \in Nat BY <3>5 DEF IInv, World
      <3>9. touched' \in BOOLEAN BY <3>4, Zenon DEF Written, IInv, World
      <3> QED BY <3>4, <3>6, <3>7, <3>8, <3>9 DEF IInv, World
    <2> QED BY <1>4, <2>1, <2>2, <2>3, <2>4 DEF Finish
  <1>5. ASSUME NEW p \in Procs, ExitBody(p) \/ Kill(p) PROVE World'
    BY <1>5 DEF ExitBody, Kill, InBody, results, fork, IInv, World
  <1> QED BY <1>1, <1>2, <1>3, <1>4, <1>5 DEF Next

-----------------------------------------------------------------------------
LEMMA InitIInv == Init => IInv
  <1> SUFFICES ASSUME Init PROVE IInv OBVIOUS
  <1>1. NoContext \in Context /\ NoContext.prev <= NoContext.expFails
    BY AtfTestCaseAssumption DEF NoContext, Context, Modes
  <1>2. Silent \in Out /\ ~Silent.last BY DEF Silent, Out
  <1>3. World
    <2>1. file = <<>> /\ std = <<>> BY DEF Init
    <2>2. file \in Seq(Lines \cup {"hole", "garbled"}) /\ std \in Seq(Lines) BY <2>1
    <2>3. dest = "none" /\ pos = 0 /\ files = {} /\ reaped = FALSE /\ touched = FALSE BY DEF Init
    <2> QED BY <2>2, <2>3 DEF World
  <1>4. Tables BY <1>1, <1>2 DEF Init, Tables, PCs, Ends
  <1>5. ASSUME NEW p \in Procs PROVE Fit(ctx[p], pc[p], out[p], end[p])
    <2>1. ctx[p] = NoContext /\ out[p] = Silent /\ end[p] = "alive" BY DEF Init
    <2>2. pc[p] \in {"start", "unborn"} BY DEF Init
    <2> QED BY <1>1, <1>2, <2>1, <2>2 DEF Fit, PCs, Ends
  <1> QED BY <1>3, <1>4, <1>5 DEF IInv

LEMMA StepLocal ==
    ASSUME IInv, Next PROVE \E p \in Procs : Local(p)
  <1>1. CASE Start BY <1>1, StartLocal DEF Procs
  <1>2. CASE Forking BY <1>2, ForkingLocal
  <1>3. ASSUME NEW p \in Procs, Body(p) \/ Finish(p) \/ ExitBody(p) \/ Kill(p) PROVE Local(p)
    BY <1>3, BodyLocal, FinishLocal, AbortLocal DEF ExitBody, Kill
  <1> QED BY <1>1, <1>2, <1>3 DEF Next

LEMMA NextIInv == IInv /\ [Next]_vars => IInv'
  <1> SUFFICES ASSUME IInv, [Next]_vars PROVE IInv' OBVIOUS
  <1>1. CASE Next
    <2>1. PICK p \in Procs : Local(p) BY <1>1, StepLocal
    <2>2. Tables' /\ \A q \in Procs : Fit(ctx'[q], pc'[q], out'[q], end'[q])
      BY <2>1, LocalFits
    <2>3. World' BY <1>1, WorldKept
    <2> QED BY <2>2, <2>3 DEF IInv
  <1>2. CASE UNCHANGED vars
    BY <1>2 DEF vars, IInv, World, Tables
  <1> QED BY <1>1, <1>2

LEMMA Invariant == Spec => []IInv
  BY InitIInv, NextIInv, PTL DEF Spec

\* The states of a test case are what they are declared to be.
THEOREM TypeCorrect == Spec => []TypeOK
  <1>1. IInv => TypeOK
    BY DEF IInv, World, Tables, Out, TypeOK
  <1> QED BY <1>1, Invariant, PTL

-----------------------------------------------------------------------------
(* What a process is judged to be *)

LEMMA Undecided ==
    ASSUME IInv, NEW p \in Procs
    PROVE  /\ pc[p] \in {"unborn", "start", "redirect", "body"} => Decided(p) = "none"
           /\ pc[p] \in {"truncate", "seek", "write"} /\ ~out[p].last => Decided(p) = "none"
           /\ out[p].last => Decided(p) = out[p].line
           /\ end[p] \in {"exit", "signal", "abort"} => Decided(p) = "ended"
           /\ Decided(p) # "none" =>
                \/ pc[p] \in {"error", "require"} \/ out[p].last
                \/ end[p] \in {"exit", "signal", "abort"}
  <1>1. Fit(ctx[p], pc[p], out[p], end[p]) BY DEF IInv
  <1> QED BY <1>1 DEF Fit, Decided, Ends, Lines, Verdicts, PCs

LEMMA ErrorDecides ==
    ASSUME IInv, IInv', NEW p \in Procs, Error(p) PROVE Decided(p)' = "failed"
  <1>1. pc'[p] = "error" BY DEF Error, Goto, IInv, Tables
  <1>2. ~out'[p].last /\ end'[p] = "alive" BY <1>1 DEF IInv, Fit
  <1> QED BY <1>1, <1>2 DEF Decided

LEMMA RequireDecides ==
    ASSUME IInv, IInv', NEW p \in Procs, Require(p)
    PROVE  Decided(p)' = IF ctx[p].expect = "fail" THEN "expected_failure" ELSE "failed"
  <1>1. pc'[p] = "require" /\ ctx' = ctx BY DEF Require, Goto, IInv, Tables
  <1>2. ~out'[p].last /\ end'[p] = "alive" BY <1>1 DEF IInv, Fit
  <1> QED BY <1>1, <1>2 DEF Decided

LEMMA ConcludeDecides ==
    ASSUME IInv, IInv', NEW p \in Procs, NEW v \in Verdicts, Conclude(p, v) PROVE Decided(p)' = v
  <1>1. pc'[p] = "truncate" /\ out'[p] = [line |-> v, last |-> TRUE]
    BY DEF Conclude, Report, Goto, IInv, Tables
  <1>2. end'[p] = "alive" BY <1>1 DEF IInv, Fit
  <1> QED BY <1>1, <1>2 DEF Decided

LEMMA ExitDecides ==
    ASSUME IInv, NEW p \in Procs, NEW how \in {"exit", "signal", "abort"}, Exit(p, how)
    PROVE  Decided(p)' = "ended"
  <1>1. pc'[p] = "ended" /\ out'[p] = Silent /\ end'[p] = how
    BY DEF Exit, Goto, IInv, Tables
  <1> QED BY <1>1 DEF Decided, Silent

\* A step of p leaves every other process as it is.
LEMMA Others ==
    ASSUME IInv, NEW p \in Procs, NEW q \in Procs, q # p, Local(p)
    PROVE  /\ ctx'[q] = ctx[q] /\ pc'[q] = pc[q] /\ out'[q] = out[q] /\ end'[q] = end[q]
           /\ Decided(q)' = Decided(q)
  <1>1. ctx'[q] = ctx[q] /\ pc'[q] = pc[q] /\ out'[q] = out[q] /\ end'[q] = end[q]
    BY DEF Local, IInv, Tables
  <1> QED BY <1>1 DEF Decided

\* What a process that has a verdict does next keeps it, or ends it.
LEMMA FinishDecided ==
    ASSUME IInv, IInv', NEW p \in Procs, Decided(p) # "none", Finish(p)
    PROVE  Decided(p)' = Decided(p) \/ Decided(p)' = "ended"
  <1>0. Fit(ctx[p], pc[p], out[p], end[p]) BY DEF IInv
  <1>1. CASE ErrorInExpect(p)
    <2>1. pc[p] = "error" /\ pc'[p] = "require" /\ ctx'[p].expect = "pass"
      BY <1>0, <1>1 DEF ErrorInExpect, Goto, IInv, Tables, Fit, Context
    <2>2. Fit(ctx'[p], pc'[p], out'[p], end'[p]) BY DEF IInv
    <2>3. ~out[p].last /\ end[p] = "alive" BY <1>0, <2>1 DEF Fit
    <2>4. ~out'[p].last /\ end'[p] = "alive" BY <2>1, <2>2 DEF Fit
    <2> QED BY <2>1, <2>3, <2>4 DEF Decided
  <1>2. CASE FailRequirement(p)
    <2>1. pc[p] = "require" /\ ~out[p].last /\ end[p] = "alive"
      BY <1>0, <1>2 DEF FailRequirement, Fit
    <2>2. CASE ctx[p].expect = "fail" /\ Conclude(p, "expected_failure")
      BY <2>1, <2>2, ConcludeDecides DEF Decided, Verdicts
    <2>3. CASE ctx[p].expect = "pass" /\ Conclude(p, "failed")
      BY <2>1, <2>3, ConcludeDecides DEF Decided, Verdicts
    <2>4. CASE ctx[p].expect \in Abrupt /\ Error(p)
      <3>1. ctx[p].expect # "fail" BY <2>4, AtfTestCaseAssumption
      <3> QED BY <2>1, <2>4, <3>1, ErrorDecides DEF Decided
    <2> QED BY <1>2, <2>2, <2>3, <2>4 DEF FailRequirement
  <1>3. CASE Truncate(p) \/ Seek(p) \/ Write(p) \/ Quit(p)
    <2>1. pc[p] \in {"truncate", "seek", "write", "exit"} BY <1>3 DEF Truncate, Seek, Write, Quit
    <2>2. out[p].last /\ Decided(p) = out[p].line BY <1>0, <2>1, Undecided DEF Fit
    <2>3. CASE Truncate(p) \/ Seek(p) \/ Write(p)
      <3>1. out' = out /\ pc'[p] \in {"seek", "write", "exit"}
        BY <2>2, <2>3 DEF Truncate, Seek, Write, Goto, IInv, Tables
      <3>2. end' = end BY <2>3 DEF Truncate, Seek, Write
      <3>3. end[p] = "alive" BY <1>0, <2>1 DEF Fit
      <3> QED BY <2>2, <3>1, <3>2, <3>3 DEF Decided
    <2>4. CASE Quit(p)
      <3>1. out' = out /\ pc'[p] = "ended" /\ end'[p] = ExitOf(out[p].line)
        BY <2>4 DEF Quit, Exit, ExitOf, Goto, IInv, Tables
      <3> QED BY <2>2, <3>1 DEF Decided, ExitOf
    <2> QED BY <1>3, <2>3, <2>4
  <1>4. CASE WriteFails(p) BY <1>4, ExitDecides DEF WriteFails
  <1> QED BY <1>1, <1>2, <1>3, <1>4 DEF Finish

LEMMA NotInBody ==
    ASSUME IInv, NEW p \in Procs, Decided(p) # "none"
    PROVE  pc[p] \notin {"unborn", "start", "redirect", "body"}
  BY Undecided

\* A verdict is not taken back: the test case may only end without it.
LEMMA DecidedStays ==
    ASSUME IInv, IInv', Next, Decided(Test) # "none"
    PROVE  Decided(Test)' = Decided(Test) \/ Decided(Test)' = "ended"
  <1> USE DEF Procs
  <1>1. Test # Sub BY DEF Test, Sub
  <1>2. pc[Test] \notin {"start", "body"} BY NotInBody
  <1>3. ~Start BY <1>2 DEF Start
  <1>4. CASE Forking
    <2>1. Redirect \/ ResetResults BY <1>2, <1>4 DEF Forking, Fork, WaitOk, WaitMismatch, WaitFails, InBody
    <2>2. Local(Sub)
      BY <2>1, SubLocal
    <2> QED BY <1>1, <2>2, Others
  <1>5. ASSUME Body(Test) \/ ExitBody(Test) PROVE FALSE
    BY <1>2, <1>5 DEF Body, Calls, FailCheck, Fail, ErrnoTest, Pass, Skip, Abort, RequireProg,
                  ExpectPass, ExpectFail, ExpectAbrupt, Return, ExitBody, InBody
  <1>6. CASE Finish(Test) BY <1>6, FinishDecided
  <1>7. CASE Kill(Test) BY <1>7, ExitDecides DEF Kill
  <1>8. CASE Body(Sub) \/ Finish(Sub) \/ ExitBody(Sub) \/ Kill(Sub)
    <2>1. Local(Sub) BY <1>8, BodyLocal, FinishLocal, AbortLocal DEF ExitBody, Kill
    <2> QED BY <1>1, <2>1, Others
  <1> QED BY <1>3, <1>4, <1>5, <1>6, <1>7, <1>8 DEF Next

-----------------------------------------------------------------------------
(* The process a test has waited for *)

\* While the test can still pass, what it has waited for is over, ended by
\* itself, and has left nothing behind.
Waited ==
    reaped =>
        /\ pc[Sub] = "ended"
        /\ Decided(Test) \in {"none", "passed"} =>
              end[Sub] \in {"success", "failure", "exit"} /\ files = {}

\* A forked process that has ended and was waited for is left alone.
LEMMA LeftAlone ==
    ASSUME IInv, Next, reaped, pc[Sub] = "ended"
    PROVE  pc'[Sub] = "ended" /\ end'[Sub] = end[Sub] /\ files' = files /\ reaped'
  <1> USE DEF Procs
  <1>1. Test # Sub BY DEF Test, Sub
  <1>2. CASE Start
    <2>1. Local(Test) BY <1>2, StartLocal
    <2>2. UNCHANGED <<files, reaped>> BY <1>2 DEF Start, fork
    <2> QED BY <1>1, <2>1, <2>2, Others
  <1>3. CASE Forking
    <2>1. WaitFails BY <1>3 DEF Forking, Fork, Redirect, ResetResults, WaitOk, WaitMismatch, InBody
    <2>2. Local(Test) BY <2>1, RequireLocal DEF WaitFails, InBody
    <2>3. UNCHANGED <<files, reaped>> BY <2>1 DEF WaitFails, InBody, fork
    <2> QED BY <1>1, <2>2, <2>3, Others
  <1>4. CASE Body(Test) \/ Finish(Test) \/ ExitBody(Test) \/ Kill(Test)
    <2>1. Local(Test) BY <1>4, BodyLocal, FinishLocal, AbortLocal DEF ExitBody, Kill
    <2>2. UNCHANGED <<files, reaped>>
      <3>1. CASE Body(Test) \/ ExitBody(Test)
        BY <3>1 DEF Body, Calls, FailCheck, Fail, ErrnoTest, Pass, Skip, Abort, RequireProg, InBody,
                    ExpectPass, ExpectFail, ExpectAbrupt, Return, ExitBody, fork
      <3>2. CASE Finish(Test) \/ Kill(Test)
        BY <3>2 DEF Finish, ErrorInExpect, FailRequirement, Truncate, Seek, Write, WriteFails, Quit,
                    Kill, fork
      <3> QED BY <1>4, <3>1, <3>2
    <2> QED BY <1>1, <2>1, <2>2, Others
  <1>5. ASSUME Body(Sub) \/ Finish(Sub) \/ ExitBody(Sub) \/ Kill(Sub) PROVE FALSE
    BY <1>5 DEF Body, Calls, FailCheck, Fail, ErrnoTest, Pass, Skip, Abort, RequireProg, InBody,
                ExpectPass, ExpectFail, ExpectAbrupt, Return, ExitBody, Kill, Finish, ErrorInExpect,
                FailRequirement, Truncate, Seek, Write, WriteFails, Quit
  <1> QED BY <1>2, <1>3, <1>4, <1>5 DEF Next

LEMMA NextWaited == IInv /\ IInv' /\ Waited /\ [Next]_vars => Waited'
  <1> SUFFICES ASSUME IInv, IInv', Waited, [Next]_vars, reaped' PROVE Waited'
    BY DEF Waited
  <1>1. CASE Next /\ reaped
    <2>1. pc'[Sub] = "ended" /\ end'[Sub] = end[Sub] /\ files' = files
      BY <1>1, LeftAlone DEF Waited
    <2>2. Decided(Test)' \in {"none", "passed"} => Decided(Test) \in {"none", "passed"}
      BY <1>1, DecidedStays
    <2> QED BY <1>1, <2>1, <2>2 DEF Waited
  <1>2. CASE Next /\ ~reaped
    <2>1. WaitOk \/ WaitMismatch
      <3>1. ASSUME NEW p \in Procs, Body(p) \/ Finish(p) \/ ExitBody(p) \/ Kill(p)
            PROVE  reaped' = reaped
        <4>1. CASE Body(p) \/ ExitBody(p)
          BY <4>1 DEF Body, Calls, FailCheck, Fail, ErrnoTest, Pass, Skip, Abort, RequireProg, InBody,
                      ExpectPass, ExpectFail, ExpectAbrupt, Return, ExitBody, fork
        <4>2. CASE Finish(p) \/ Kill(p)
          BY <4>2 DEF Finish, ErrorInExpect, FailRequirement, Truncate, Seek, Write, WriteFails,
                      Quit, Kill, fork
        <4> QED BY <3>1, <4>1, <4>2
      <3>2. Start \/ Fork \/ Redirect \/ ResetResults \/ WaitFails => reaped' = reaped
        BY DEF Start, Fork, Redirect, ResetResults, WaitFails, InBody, fork
      <3> QED BY <1>2, <3>1, <3>2 DEF Next, Forking
    <2>2. CASE WaitOk BY <2>2 DEF WaitOk, Waited
    <2>3. CASE WaitMismatch
      <3>1. Decided(Test)' \in {"expected_failure", "failed"}
        BY <2>3, RequireDecides DEF WaitMismatch, Procs
      <3>2. pc[Test] = "body" /\ pc[Sub] = "ended" BY <2>3 DEF WaitMismatch
      <3>3. pc'[Sub] = "ended"
        BY <2>3, <3>2 DEF WaitMismatch, Require, Goto, Test, Sub, IInv, Tables, Procs
      <3> QED BY <3>1, <3>3 DEF Waited
    <2> QED BY <2>1, <2>2, <2>3
  <1>3. CASE UNCHANGED vars BY <1>3 DEF vars, Waited, Decided
  <1> QED BY <1>1, <1>2, <1>3

\* A test that waited for the process its body forked passes only if that
\* process ended by exiting, and leaves none of its output files
\* (atf_utils_wait), whatever else the two processes do.
THEOREM WaitIsHonest == Spec => []PassedMeansWaited
  <1>1. Init => Waited BY DEF Init, Waited
  <1>2. Waited => PassedMeansWaited BY DEF Waited, PassedMeansWaited
  <1> QED BY <1>1, <1>2, NextWaited, Invariant, PTL DEF Spec

-----------------------------------------------------------------------------
(* AtfTestCase implements AtfVerdict *)

LEMMA JudgeSo ==
    ASSUME Decided(Test) = "none", NEW v, v # "none", Decided(Test)' = v
    PROVE  Verdict!Judge(v)
  BY DEF Judging, Verdict!Judge

LEMMA EndsSo == ASSUME Decided(Test)' = "ended" PROVE Verdict!Ends
  BY DEF Judging, Verdict!Ends

\* Nothing of it changes when neither the verdict nor the context does.
LEMMA Unheard ==
    ASSUME Decided(Test)' = Decided(Test), Decided(Test) = "none" => ctx'[Test] = ctx[Test]
    PROVE  UNCHANGED Verdict!vars
  BY DEF Judging, Verdict!vars

LEMMA ValidHonoured ==
    ASSUME IInv, pc[Test] = "body" PROVE Valid(ctx[Test]) <=> Verdict!Honoured
  <1>1. Decided(Test) = "none" BY Undecided DEF Procs
  <1>2. ctx[Test] \in Context /\ ctx[Test].prev <= ctx[Test].expFails BY BodyFits DEF Procs
  <1>3. ctx[Test].prev \in Nat /\ ctx[Test].expFails \in Nat
    BY <1>2, AtfTestCaseAssumption DEF Context
  <1> QED BY <1>1, <1>2, <1>3 DEF Valid, Verdict!Honoured, Judging

LEMMA FailsSo ==
    ASSUME IInv, IInv', pc[Test] = "body",
           Require(Test) \/ (ctx[Test].expect \in Abrupt /\ Error(Test))
    PROVE  Verdict!Fails
  <1> USE DEF Procs
  <1>1. Decided(Test) = "none" BY Undecided
  <1>2. Decided(Test)' = IF ctx[Test].expect = "fail" THEN "expected_failure" ELSE "failed"
    BY RequireDecides, ErrorDecides, AtfTestCaseAssumption
  <1> QED BY <1>1, <1>2, JudgeSo DEF Verdict!Fails, Judging

LEMMA DisappointSo ==
    ASSUME IInv, IInv', pc[Test] = "body", ~Valid(ctx[Test]), Error(Test) PROVE Verdict!Disappoint
  BY ValidHonoured, ErrorDecides, JudgeSo, Undecided DEF Verdict!Disappoint, Procs

LEMMA SaysPassSo ==
    ASSUME IInv, IInv', pc[Test] = "body", PassVerdict(Test) PROVE Verdict!SaysPass
  <1> USE DEF Procs
  <1>1. Decided(Test) = "none" BY Undecided
  <1>2. Decided(Test)' = IF ctx[Test].expect = "pass" THEN "passed" ELSE "failed"
    BY ConcludeDecides, ErrorDecides DEF PassVerdict, Verdicts
  <1> QED BY <1>1, <1>2, JudgeSo DEF Verdict!SaysPass, Judging

LEMMA ReturnsSo ==
    ASSUME IInv, IInv', Return(Test) PROVE Verdict!Returns \/ Verdict!Disappoint
  <1> USE DEF Procs
  <1>0. pc[Test] = "body" BY DEF Return, InBody
  <1>1. Decided(Test) = "none" BY <1>0, Undecided
  <1>2. CASE ~Valid(ctx[Test]) BY <1>0, <1>2, DisappointSo DEF Return
  <1>3. CASE Valid(ctx[Test])
    <2>1. Verdict!Honoured BY <1>0, <1>3, ValidHonoured
    <2>2. ctx[Test] \in Context /\ ctx[Test].prev <= ctx[Test].expFails BY <1>0, BodyFits
    <2>3. /\ ctx[Test].fails \in Nat /\ ctx[Test].expFails \in Nat /\ ctx[Test].prev \in Nat
          /\ ctx[Test].expect \in {"pass", "fail"}
      BY <1>3, <2>2, AtfTestCaseAssumption DEF Context, Valid
    <2>4. CASE ctx[Test].fails > 0
      <3>1. Require(Test) BY <1>3, <2>4 DEF Return
      <3>2. Decided(Test)' = IF ctx[Test].expect = "fail" THEN "expected_failure" ELSE "failed"
        BY <3>1, RequireDecides
      <3> QED BY <1>1, <2>1, <2>3, <2>4, <3>2, JudgeSo DEF Verdict!Returns, Judging
    <2>5. CASE ~(ctx[Test].fails > 0) /\ ctx[Test].expFails > 0
      <3>1. Decided(Test)' = "expected_failure"
        BY <1>3, <2>5, ConcludeDecides DEF Return, Verdicts
      <3> QED BY <1>1, <2>1, <2>3, <2>5, <3>1, JudgeSo DEF Verdict!Returns, Judging
    <2>6. CASE ~(ctx[Test].fails > 0) /\ ~(ctx[Test].expFails > 0)
      <3>1. ctx[Test].expect = "pass" BY <1>3, <2>2, <2>3, <2>6 DEF Valid
      <3>2. Decided(Test)' = "passed"
        BY <1>3, <2>6, <3>1, ConcludeDecides DEF Return, PassVerdict, Verdicts
      <3> QED BY <1>1, <2>1, <2>6, <3>2, JudgeSo DEF Verdict!Returns, Judging
    <2> QED BY <2>4, <2>5, <2>6
  <1> QED BY <1>2, <1>3

\* The body has heard of something, and is still the body.
LEMMA HeardSo ==
    ASSUME IInv, IInv', pc[Test] = "body",
           pc'[Test] = "body" \/ (pc'[Test] = "truncate" /\ ~out'[Test].last)
    PROVE  Decided(Test) = "none" /\ Decided(Test)' = "none"
  <1>1. Decided(Test) = "none" BY Undecided DEF Procs
  <1>2. Fit(ctx'[Test], pc'[Test], out'[Test], end'[Test]) BY DEF IInv, Procs
  <1>3. ~out'[Test].last /\ end'[Test] = "alive" BY <1>2 DEF Fit
  <1> QED BY <1>1, <1>3 DEF Decided

LEMMA FailCheckSo ==
    ASSUME IInv, IInv', FailCheck(Test) PROVE Verdict!CheckFails \/ Verdict!Fails
  <1> USE DEF Procs
  <1>0. pc[Test] = "body" BY DEF FailCheck, InBody
  <1>1. ctx[Test] \in Context /\ ctx[Test].prev <= ctx[Test].expFails BY <1>0, BodyFits
  <1>2. CASE ctx[Test].expect \in Abrupt /\ Error(Test) BY <1>0, <1>2, FailsSo
  <1>3. CASE ctx[Test].expect = "pass" /\ ctx' = [ctx EXCEPT ![Test].fails = @ + 1] /\ pc' = pc
    <2>1. Decided(Test) = "none" /\ Decided(Test)' = "none" BY <1>0, <1>3, HeardSo
    <2>2. ctx'[Test] = [ctx[Test] EXCEPT !.fails = @ + 1] BY <1>3 DEF IInv, Tables
    <2>3. ctx[Test].fails \in Nat BY <1>1, AtfTestCaseAssumption DEF Context
    <2>4. /\ ctx'[Test].expect = "pass" /\ ctx'[Test].fails > 0
          /\ ctx'[Test].expFails = ctx[Test].expFails
      BY <1>1, <1>3, <2>2, <2>3 DEF Context
    <2> QED BY <1>3, <2>1, <2>4 DEF Verdict!CheckFails, Judging
  <1>4. CASE ctx[Test].expect = "fail" /\ ctx' = [ctx EXCEPT ![Test].expFails = @ + 1] /\ pc' = pc
    <2>1. Decided(Test) = "none" /\ Decided(Test)' = "none" BY <1>0, <1>4, HeardSo
    <2>2. ctx'[Test] = [ctx[Test] EXCEPT !.expFails = @ + 1] BY <1>4 DEF IInv, Tables
    <2>3. ctx[Test].expFails \in Nat /\ ctx[Test].prev \in Nat
      BY <1>1, AtfTestCaseAssumption DEF Context
    <2>4. /\ ctx'[Test].expect = "fail" /\ ctx'[Test].fails = ctx[Test].fails
          /\ ctx'[Test].expFails > 0 /\ ctx'[Test].expFails > ctx'[Test].prev
      BY <1>1, <1>4, <2>2, <2>3 DEF Context
    <2> QED BY <1>4, <2>1, <2>4 DEF Verdict!CheckFails, Judging
  <1> QED BY <1>2, <1>3, <1>4 DEF FailCheck

LEMMA ExpectSo ==
    ASSUME IInv, IInv', ExpectPass(Test) \/ ExpectFail(Test) \/ \E m \in Abrupt : ExpectAbrupt(Test, m)
    PROVE  Verdict!Next
  <1> USE DEF Procs
  <1>0. pc[Test] = "body" BY DEF ExpectPass, ExpectFail, ExpectAbrupt, InBody
  <1>1. ctx[Test] \in Context /\ ctx[Test].prev <= ctx[Test].expFails BY <1>0, BodyFits
  <1>2. ctx[Test].expFails \in Nat BY <1>1, AtfTestCaseAssumption DEF Context
  <1>3. CASE ~Valid(ctx[Test])
    BY <1>0, <1>3, DisappointSo DEF ExpectPass, ExpectFail, ExpectAbrupt, Verdict!Next
  <1>4. ASSUME Valid(ctx[Test]), NEW m \in Verdict!Modes,
               Decided(Test) = "none", Decided(Test)' = "none",
               ctx'[Test].expect = m, ctx'[Test].fails = ctx[Test].fails,
               ctx'[Test].expFails = ctx[Test].expFails,
               m = "fail" => ctx'[Test].prev = ctx[Test].expFails
        PROVE  Verdict!Next
    <2>1. Verdict!Honoured BY <1>0, <1>4, ValidHonoured
    <2>2. Verdict!Announce(m) BY <1>2, <1>4, <2>1 DEF Verdict!Announce, Judging
    <2> QED BY <2>2 DEF Verdict!Next
  <1>5. CASE Valid(ctx[Test]) /\ ExpectPass(Test)
    <2>1. ctx' = [ctx EXCEPT ![Test].expect = "pass"] /\ pc' = pc BY <1>5 DEF ExpectPass
    <2>2. ctx'[Test] = [ctx[Test] EXCEPT !.expect = "pass"] BY <2>1 DEF IInv, Tables
    <2>3. Decided(Test) = "none" /\ Decided(Test)' = "none" BY <1>0, <2>1, HeardSo
    <2> QED BY <1>1, <1>4, <1>5, <2>2, <2>3 DEF Context, Verdict!Modes
  <1>6. CASE Valid(ctx[Test]) /\ ExpectFail(Test)
    <2>1. ctx' = [ctx EXCEPT ![Test].expect = "fail", ![Test].prev = ctx[Test].expFails] /\ pc' = pc
      BY <1>6 DEF ExpectFail
    <2>2. ctx'[Test] = [ctx[Test] EXCEPT !.expect = "fail", !.prev = ctx[Test].expFails]
      BY <2>1 DEF IInv, Tables
    <2>3. Decided(Test) = "none" /\ Decided(Test)' = "none" BY <1>0, <2>1, HeardSo
    <2> QED BY <1>1, <1>4, <1>6, <2>2, <2>3 DEF Context, Verdict!Modes
  <1>7. ASSUME Valid(ctx[Test]), NEW m \in Abrupt, ExpectAbrupt(Test, m) PROVE Verdict!Next
    <2>1. ctx' = [ctx EXCEPT ![Test].expect = m] /\ Report(Test, m, FALSE) BY <1>7 DEF ExpectAbrupt
    <2>2. ctx'[Test] = [ctx[Test] EXCEPT !.expect = m] BY <2>1 DEF IInv, Tables
    <2>3. pc'[Test] = "truncate" /\ ~out'[Test].last BY <2>1 DEF Report, Goto, IInv, Tables
    <2>4. Decided(Test) = "none" /\ Decided(Test)' = "none" BY <1>0, <2>3, HeardSo
    <2>5. m # "fail" BY <1>7, AtfTestCaseAssumption
    <2> QED BY <1>1, <1>4, <1>7, <2>2, <2>4, <2>5 DEF Context, Verdict!Modes
  <1> QED BY <1>3, <1>5, <1>6, <1>7

LEMMA BodySo == ASSUME IInv, IInv', Body(Test) PROVE Verdict!Next
  <1> USE DEF Procs, Verdict!Next
  <1>1. CASE FailCheck(Test) BY <1>1, FailCheckSo
  <1>2. CASE Fail(Test) BY <1>2, FailsSo DEF Fail, InBody
  <1>3. CASE ErrnoTest(Test) BY <1>3, FailCheckSo, FailsSo DEF ErrnoTest, Fail, InBody
  <1>4. CASE Pass(Test) BY <1>4, SaysPassSo DEF Pass, InBody
  <1>5. ASSUME pc[Test] = "body", Conclude(Test, "skipped") PROVE Verdict!Skips
    BY <1>5, Undecided, ConcludeDecides, JudgeSo DEF Verdicts, Verdict!Skips
  <1>6. CASE Skip(Test) BY <1>5, <1>6 DEF Skip, InBody
  <1>7. CASE RequireProg(Test)
    BY <1>5, <1>7, FailsSo, ExitDecides, EndsSo DEF RequireProg, InBody
  <1>8. CASE ExpectPass(Test) \/ ExpectFail(Test) \/ \E m \in Abrupt : ExpectAbrupt(Test, m)
    BY <1>8, ExpectSo
  <1>9. CASE Abort(Test) BY <1>9, ExitDecides, EndsSo DEF Abort
  <1>10. CASE Return(Test) BY <1>10, ReturnsSo
  <1> QED BY <1>1, <1>2, <1>3, <1>4, <1>6, <1>7, <1>8, <1>9, <1>10 DEF Body, Calls

\* Until it is judged, the test's writing of a line is not heard of.
LEMMA FinishSo ==
    ASSUME IInv, IInv', Finish(Test) PROVE [Verdict!Next]_Verdict!vars
  <1> USE DEF Procs
  <1>1. CASE Decided(Test) # "none"
    BY <1>1, FinishDecided, EndsSo, Unheard DEF Verdict!Next
  <1>2. CASE Decided(Test) = "none"
    <2>0. Fit(ctx[Test], pc[Test], out[Test], end[Test]) BY DEF IInv
    <2>1. ~(pc[Test] \in {"error", "require", "exit"})
      BY <1>2, <2>0, Undecided DEF Fit, Decided, Lines, Verdicts
    <2>2. CASE WriteFails(Test) BY <2>2, ExitDecides, EndsSo DEF WriteFails, Verdict!Next
    <2>3. CASE Truncate(Test) \/ Seek(Test) \/ Write(Test)
      <3>1. pc[Test] \in {"truncate", "seek", "write"} /\ ctx' = ctx /\ end' = end
        BY <2>3 DEF Truncate, Seek, Write
      <3>2. ~out[Test].last /\ end[Test] = "alive"
        BY <1>2, <2>0, <3>1, Undecided DEF Fit, Lines, Verdicts
      <3>3. pc'[Test] \in {"seek", "write", "body"} /\ ~out'[Test].last
        BY <2>3, <3>2 DEF Truncate, Seek, Write, Goto, Silent, IInv, Tables
      <3>4. Decided(Test)' = "none" BY <3>1, <3>2, <3>3 DEF Decided
      <3> QED BY <1>2, <3>1, <3>4, Unheard
    <2> QED BY <2>1, <2>2, <2>3 DEF Finish, ErrorInExpect, FailRequirement, Quit
  <1> QED BY <1>1, <1>2

LEMMA ForkingSo ==
    ASSUME IInv, IInv', Forking PROVE [Verdict!Next]_Verdict!vars
  <1> USE DEF Procs
  <1>1. Test # Sub BY DEF Test, Sub
  <1>2. CASE Redirect \/ ResetResults
    <2>1. Local(Sub) BY <1>2, SubLocal
    <2> QED BY <1>1, <2>1, Others, Unheard
  <1>3. CASE Require(Test) /\ pc[Test] = "body"
    BY <1>3, FailsSo DEF Verdict!Next
  <1>4. CASE WaitOk
    <2>1. ctx' = ctx /\ Decided(Test)' = Decided(Test) BY <1>4 DEF WaitOk, Decided
    <2> QED BY <2>1, Unheard
  <1>5. CASE /\ pc' = [pc EXCEPT ![Sub] = "redirect"] /\ ctx' = [ctx EXCEPT ![Sub] = ctx[Test]]
             /\ UNCHANGED <<out, end>>
    <2>1. ctx'[Test] = ctx[Test] /\ pc'[Test] = pc[Test] BY <1>1, <1>5 DEF IInv, Tables
    <2>2. Decided(Test)' = Decided(Test) BY <1>5, <2>1 DEF Decided
    <2> QED BY <2>1, <2>2, Unheard
  <1> QED BY <1>2, <1>3, <1>4, <1>5 DEF Forking, Fork, WaitMismatch, WaitFails, InBody

LEMMA StartSo ==
    ASSUME IInv, IInv', Start PROVE [Verdict!Next]_Verdict!vars
  <1> USE DEF Procs
  <1>0. pc[Test] = "start" BY DEF Start
  <1>1. Decided(Test) = "none" BY <1>0, Undecided
  <1>2. CASE Exit(Test, "abort") BY <1>2, ExitDecides, EndsSo DEF Verdict!Next
  <1>3. ASSUME NEW d \in Dests, ctx' = [ctx EXCEPT ![Test].fd = d], Goto(Test, "body")
        PROVE  UNCHANGED Verdict!vars
    <2>1. pc'[Test] = "body" BY <1>3 DEF Goto, IInv, Tables
    <2>2. Fit(ctx'[Test], pc'[Test], out'[Test], end'[Test]) BY DEF IInv
    <2>3. Decided(Test)' = "none" BY <2>1, <2>2 DEF Fit, Decided
    <2>4. ctx'[Test] = [ctx[Test] EXCEPT !.fd = d] BY <1>3 DEF IInv, Tables
    <2>5. /\ ctx'[Test].expect = ctx[Test].expect /\ ctx'[Test].fails = ctx[Test].fails
          /\ ctx'[Test].expFails = ctx[Test].expFails /\ ctx'[Test].prev = ctx[Test].prev
      <3>1. ctx[Test] \in Context BY DEF IInv, Tables
      <3> QED BY <2>4, <3>1 DEF Context
    <2> QED BY <1>1, <2>3, <2>5 DEF Judging, Verdict!vars
  <1> QED BY <1>2, <1>3 DEF Start

LEMMA StepSo ==
    ASSUME IInv, IInv', [Next]_vars PROVE [Verdict!Next]_Verdict!vars
  <1> USE DEF Procs
  <1>1. Test # Sub BY DEF Test, Sub
  <1>2. CASE Start BY <1>2, StartSo
  <1>3. CASE Forking BY <1>3, ForkingSo
  <1>4. CASE Body(Test) BY <1>4, BodySo
  <1>5. CASE Finish(Test) BY <1>5, FinishSo
  <1>6. CASE ExitBody(Test) \/ Kill(Test)
    BY <1>6, ExitDecides, EndsSo DEF ExitBody, Kill, Verdict!Next
  <1>7. CASE Body(Sub) \/ Finish(Sub) \/ ExitBody(Sub) \/ Kill(Sub)
    <2>1. Local(Sub) BY <1>7, BodyLocal, FinishLocal, AbortLocal DEF ExitBody, Kill
    <2> QED BY <1>1, <2>1, Others, Unheard
  <1>8. CASE UNCHANGED vars
    BY <1>8, Unheard DEF vars, Decided
  <1> QED BY <1>2, <1>3, <1>4, <1>5, <1>6, <1>7, <1>8 DEF Next

\* The counters, the forks and the results file come to the verdict that the
\* events of the body call for: AtfTestCase implements AtfVerdict
\* (atf_tc_run, validate_expect, error_in_expect, fail_requirement).
THEOREM VerdictIsJudged == Spec => Judged
  <1>1. Init => Verdict!Init
    <2> SUFFICES ASSUME Init PROVE Verdict!Init OBVIOUS
    <2>1. Decided(Test) = "none" BY InitIInv, Undecided DEF Init, Procs
    <2>2. ctx[Test] = NoContext BY DEF Init, Procs
    <2> QED BY <2>1, <2>2 DEF Verdict!Init, Judging, NoContext
  <1>2. IInv /\ IInv' /\ [Next]_vars => [Verdict!Next]_Verdict!vars BY StepSo
  <1> QED BY <1>1, <1>2, Invariant, PTL DEF Spec, Judged, Verdict!Spec

-----------------------------------------------------------------------------
(* What the results say *)

Exited == {"success", "failure"}

\* Of the results of a test whose forked process does not, or can no longer,
\* write to them: they are empty before the line is written, and the line
\* after that.  A forked process on its way through create_resfile has
\* touched them.
Results ==
    /\ pc[Test] \notin {"start", "ended"} => dest \in Dests /\ ctx[Test].fd = dest
    /\ pc[Sub] = "seek" => touched
    /\ end[Test] \in Exited => dest \in Dests /\ end[Test] = ExitOf(out[Test].line)
    /\ dest = "std" /\ (pc[Test] = "exit" \/ end[Test] \in Exited) =>
            std # <<>> /\ std[Len(std)] = out[Test].line
    /\ dest = "file" /\ (reaped \/ ~touched) =>
            /\ pc[Test] = "seek" => file = <<>>
            /\ pc[Test] = "write" => file = <<>> /\ pos = 0
            /\ pc[Test] = "exit" \/ end[Test] \in Exited => file = <<out[Test].line>>

\* A step of p on its way to a line, or to an end without one.
Toward(p) ==
    /\ UNCHANGED <<dest, file, pos, std, reaped, touched>>
    /\ \/ /\ pc[p] \in {"body", "error", "require"}
          /\ pc'[p] \in {"body", "error", "require", "truncate"}
          /\ end'[p] = end[p] /\ ctx'[p].fd = ctx[p].fd
       \/ pc'[p] = "ended" /\ end'[p] \in {"exit", "signal", "abort"}

LEMMA PutFirst == ASSUME NEW line PROVE Put(<<>>, 0, line) = <<line>>
  BY DEF Put

LEMMA TowardLine ==
    ASSUME IInv, NEW p \in Procs, pc[p] \in {"body", "require"},
           UNCHANGED <<dest, file, pos, std, reaped, touched>>,
           Error(p) \/ Require(p) \/ (\E v \in Verdicts : Conclude(p, v))
    PROVE  Toward(p)
  <1>1. ctx' = ctx /\ end' = end
    BY DEF Error, Require, Conclude
  <1>2. pc'[p] \in {"error", "require", "truncate"}
    BY DEF Error, Require, Conclude, Report, Goto, IInv, Tables
  <1> QED BY <1>1, <1>2 DEF Toward

LEMMA TowardEnd ==
    ASSUME IInv, NEW p \in Procs, NEW how \in {"exit", "signal", "abort"}, Exit(p, how),
           UNCHANGED <<dest, file, pos, std, reaped, touched>>
    PROVE  Toward(p)
  BY DEF Toward, Exit, Goto, IInv, Tables

LEMMA TowardHeard ==
    ASSUME IInv, NEW p \in Procs, pc[p] = "body",
           UNCHANGED <<dest, file, pos, std, reaped, touched>>,
           NEW c \in Context, c.fd = ctx[p].fd, ctx' = [ctx EXCEPT ![p] = c], UNCHANGED end,
           UNCHANGED pc \/ Goto(p, "truncate")
    PROVE  Toward(p)
  BY DEF Toward, Goto, IInv, Tables

LEMMA BodyToward ==
    ASSUME IInv, NEW p \in Procs, Body(p) \/ ExitBody(p)
    PROVE  Toward(p)
  <1>0. pc[p] = "body" /\ UNCHANGED <<dest, file, pos, std, reaped, touched>>
    BY DEF Body, Calls, FailCheck, Fail, ErrnoTest, Pass, Skip, Abort, RequireProg, InBody,
           ExpectPass, ExpectFail, ExpectAbrupt, Return, ExitBody, results, fork
  <1>1. ctx[p] \in Context
    BY DEF IInv, Tables
  <1>2. CASE Error(p) \/ Require(p) \/ (\E v \in Verdicts : Conclude(p, v))
    BY <1>0, <1>2, TowardLine
  <1>3. CASE \E how \in {"exit", "signal", "abort"} : Exit(p, how)
    BY <1>0, <1>3, TowardEnd
  <1>4. CASE /\ UNCHANGED <<pc, out, end>>
             /\ \/ ctx[p].fails < MaxFails /\ ctx' = [ctx EXCEPT ![p].fails = @ + 1]
                \/ ctx[p].expFails < MaxExpFails /\ ctx' = [ctx EXCEPT ![p].expFails = @ + 1]
                \/ ctx' = [ctx EXCEPT ![p].expect = "pass"]
                \/ ctx' = [ctx EXCEPT ![p].expect = "fail", ![p].prev = ctx[p].expFails]
    <2>1. ctx'[p].fd = ctx[p].fd /\ pc'[p] = "body" /\ end'[p] = end[p]
      BY <1>0, <1>1, <1>4 DEF IInv, Tables, Context
    <2> QED BY <1>0, <2>1 DEF Toward
  <1>5. ASSUME NEW m \in Abrupt, ctx' = [ctx EXCEPT ![p].expect = m], Report(p, m, FALSE),
               UNCHANGED end
        PROVE  Toward(p)
    <2>1. ctx'[p].fd = ctx[p].fd /\ end'[p] = end[p]
      BY <1>1, <1>5 DEF IInv, Tables, Context
    <2>2. pc'[p] = "truncate"
      BY <1>5 DEF Report, Goto, IInv, Tables
    <2> QED BY <1>0, <2>1, <2>2 DEF Toward
  <1>6. CASE FailCheck(p)
    BY <1>2, <1>4, <1>6 DEF FailCheck
  <1>7. CASE ExpectPass(p) \/ ExpectFail(p) \/ \E m \in Abrupt : ExpectAbrupt(p, m)
    BY <1>2, <1>4, <1>5, <1>7 DEF ExpectPass, ExpectFail, ExpectAbrupt
  <1>8. CASE Fail(p) \/ Pass(p) \/ Skip(p) \/ Return(p)
    BY <1>2, <1>8 DEF Fail, Pass, PassVerdict, Skip, Return, Verdicts
  <1>9. CASE RequireProg(p) \/ Abort(p) \/ ExitBody(p)
    BY <1>2, <1>3, <1>9 DEF RequireProg, Abort, ExitBody, Verdicts
  <1> QED BY <1>6, <1>7, <1>8, <1>9 DEF Body, Calls, ErrnoTest

LEMMA FinishToward ==
    ASSUME IInv, NEW p \in Procs,
           ErrorInExpect(p) \/ FailRequirement(p) \/ WriteFails(p) \/ Kill(p)
    PROVE  Toward(p)
  <1>0. UNCHANGED <<dest, file, pos, std, reaped, touched>>
    BY DEF ErrorInExpect, FailRequirement, WriteFails, Kill, results, fork
  <1>1. CASE ErrorInExpect(p)
    <2>1. pc[p] = "error" /\ pc'[p] = "require" /\ end' = end
      BY <1>1 DEF ErrorInExpect, Goto, IInv, Tables
    <2>2. ctx'[p].fd = ctx[p].fd
      BY <1>1 DEF ErrorInExpect, IInv, Tables, Context
    <2> QED BY <1>0, <2>1, <2>2 DEF Toward
  <1>2. CASE FailRequirement(p)
    BY <1>0, <1>2, TowardLine DEF FailRequirement, Verdicts
  <1>3. CASE WriteFails(p) \/ Kill(p)
    BY <1>0, <1>3, TowardEnd DEF WriteFails, Kill
  <1> QED BY <1>1, <1>2, <1>3

\* What the forked process does to the results shows.
LEMMA SubShows ==
    ASSUME IInv, Results,
           Body(Sub) \/ Finish(Sub) \/ ExitBody(Sub) \/ Kill(Sub) \/ Redirect \/ ResetResults
    PROVE  /\ UNCHANGED <<dest, std, reaped>>
           /\ touched => touched'
           /\ ~touched' => UNCHANGED <<file, pos>>
           /\ pc'[Sub] = "seek" => touched'
  <1> USE DEF Procs
  <1>0. Test # Sub /\ touched \in BOOLEAN
    BY DEF Test, Sub, IInv, World
  <1>1. CASE Toward(Sub)
    BY <1>1 DEF Toward, Results
  <1>2. CASE Redirect \/ ResetResults
    BY <1>2 DEF Redirect, ResetResults, InBody, results, fork, Goto, Exit, IInv, Tables
  <1>3. CASE Truncate(Sub)
    BY <1>0, <1>3 DEF Truncate, Goto, fork, IInv, Tables
  <1>4. CASE Seek(Sub)
    BY <1>4 DEF Seek, Goto, fork, Results, IInv, Tables
  <1>5. CASE Write(Sub)
    <2>1. pc'[Sub] # "seek"
      BY <1>5 DEF Write, Goto, IInv, Tables
    <2>2. UNCHANGED <<dest, reaped>>
      BY <1>5 DEF Write, fork
    <2>3. Written(Sub)
      BY <1>5 DEF Write
    <2>4. UNCHANGED std /\ (touched => touched') /\ (~touched' => UNCHANGED <<file, pos>>)
      <3>1. CASE touched' = (touched \/ Sub = Sub) /\ UNCHANGED std
        BY <1>0, <3>1
      <3>2. CASE UNCHANGED <<results, touched>>
        BY <3>2 DEF results
      <3> QED BY <1>0, <2>3, <3>1, <3>2 DEF Written
    <2> QED BY <2>1, <2>2, <2>4
  <1>6. CASE Quit(Sub)
    BY <1>6 DEF Quit, Exit, Goto, results, fork, IInv, Tables
  <1> QED BY <1>1, <1>2, <1>3, <1>4, <1>5, <1>6, BodyToward, FinishToward DEF Finish

LEMMA SubResults ==
    ASSUME IInv, Waited, Results,
           Body(Sub) \/ Finish(Sub) \/ ExitBody(Sub) \/ Kill(Sub) \/ Redirect \/ ResetResults
    PROVE  Results'
  <1> USE DEF Procs
  <1>1. Test # Sub BY DEF Test, Sub
  <1>2. Local(Sub)
    BY BodyLocal, FinishLocal, AbortLocal, SubLocal DEF ExitBody, Kill
  <1>3. /\ ctx'[Test] = ctx[Test] /\ pc'[Test] = pc[Test]
        /\ out'[Test] = out[Test] /\ end'[Test] = end[Test]
    BY <1>1, <1>2, Others
  <1>4. ~reaped
    <2> SUFFICES ASSUME pc[Sub] = "ended" PROVE FALSE
      BY DEF Waited
    <2> QED BY DEF Body, Calls, FailCheck, Fail, ErrnoTest, Pass, Skip, Abort, RequireProg, InBody,
                   ExpectPass, ExpectFail, ExpectAbrupt, Return, ExitBody, Kill, Finish,
                   ErrorInExpect, FailRequirement, Truncate, Seek, Write, WriteFails, Quit,
                   Redirect, ResetResults
  <1>5. /\ UNCHANGED <<dest, std, reaped>> /\ (touched => touched')
        /\ ~touched' => UNCHANGED <<file, pos>> /\ (pc'[Sub] = "seek" => touched')
    BY SubShows
  <1> QED BY <1>3, <1>4, <1>5 DEF Results

LEMMA TestToward ==
    ASSUME IInv, Results, Toward(Test), pc'[Sub] = pc[Sub], pc[Test] # "start" \/ pc'[Test] = "ended"
    PROVE  Results'
  <1>1. CASE pc'[Test] = "ended" /\ end'[Test] \in {"exit", "signal", "abort"}
    BY <1>1 DEF Toward, Results, Exited
  <1>2. CASE /\ pc[Test] \in {"body", "error", "require"}
             /\ pc'[Test] \in {"body", "error", "require", "truncate"}
             /\ end'[Test] = end[Test] /\ ctx'[Test].fd = ctx[Test].fd
    <2>1. end[Test] = "alive"
      BY <1>2, Running DEF Procs
    <2> QED BY <1>2, <2>1 DEF Toward, Results, Exited
  <1> QED BY <1>1, <1>2 DEF Toward

LEMMA TestFinish ==
    ASSUME IInv, Results, Truncate(Test) \/ Seek(Test) \/ Write(Test) \/ Quit(Test)
    PROVE  Results'
  <1> USE DEF Procs
  <1>0. /\ Test # Sub /\ Fit(ctx[Test], pc[Test], out[Test], end[Test])
        /\ dest \in Dests /\ ctx[Test].fd = dest /\ Dests \subseteq {"file", "std"}
    BY AtfTestCaseAssumption DEF Test, Sub, IInv, Results, Truncate, Seek, Write, Quit
  <1>a. end[Test] = "alive"
    BY <1>0 DEF Fit, Truncate, Seek, Write, Quit
  <1>1. CASE Truncate(Test)
    <2>1. /\ pc[Test] = "truncate" /\ pc'[Sub] = pc[Sub]
          /\ UNCHANGED <<dest, ctx, out, end, pos, std, reaped>>
      BY <1>0, <1>1 DEF Truncate, Goto, fork, IInv, Tables
    <2>2. CASE dest = "file"
      <3>1. pc'[Test] = "seek" /\ file' = <<>> /\ (touched' <=> touched)
        BY <1>0, <1>1, <2>2 DEF Truncate, Goto, IInv, Tables, World
      <3> QED BY <1>a, <2>1, <2>2, <3>1 DEF Results, Exited
    <2>3. CASE dest = "std"
      <3>1. pc'[Test] = "write" /\ UNCHANGED <<file, touched>>
        BY <1>0, <1>1, <2>3 DEF Truncate, Goto, IInv, Tables
      <3> QED BY <1>a, <2>1, <2>3, <3>1 DEF Results, Exited
    <2> QED BY <1>0, <2>2, <2>3
  <1>2. CASE Seek(Test)
    <2>1. /\ pc[Test] = "seek" /\ pc'[Test] = "write" /\ pc'[Sub] = pc[Sub] /\ pos' = 0
          /\ UNCHANGED <<dest, ctx, out, end, file, std, reaped, touched>>
      BY <1>0, <1>2 DEF Seek, Goto, fork, IInv, Tables
    <2> QED BY <1>a, <2>1 DEF Results, Exited
  <1>3. CASE Write(Test)
    <2>0. /\ pc[Test] = "write" /\ pc'[Test] \in {"exit", "body"} /\ pc'[Sub] = pc[Sub]
          /\ pc'[Test] = "exit" => out' = out
          /\ UNCHANGED <<dest, ctx, end, reaped>>
      BY <1>0, <1>3 DEF Write, Goto, fork, IInv, Tables
    <2>1. Written(Test)
      BY <1>3 DEF Write
    <2>2. CASE dest = "file"
      <3>1. /\ file' = Put(file, pos, out[Test].line) /\ UNCHANGED std
            /\ touched' <=> touched
        BY <1>0, <2>1, <2>2 DEF Written, IInv, World
      <3>2. reaped \/ ~touched => file' = <<out[Test].line>>
        BY <2>0, <2>2, <3>1, PutFirst DEF Results
      <3> QED BY <1>0, <1>a, <2>0, <2>2, <3>1, <3>2 DEF Results, Exited
    <2>3. CASE dest = "std"
      <3>1. std' = Append(std, out[Test].line) /\ UNCHANGED <<file, pos, touched>>
        BY <1>0, <2>1, <2>3 DEF Written, results
      <3>2. std \in Seq(Lines) /\ out[Test].line \in Lines
        BY <1>0, <2>0 DEF Fit, IInv, World
      <3>3. std' # <<>> /\ std'[Len(std')] = out[Test].line
        BY <3>1, <3>2
      <3> QED BY <1>0, <1>a, <2>0, <2>3, <3>1, <3>3 DEF Results, Exited
    <2> QED BY <1>0, <2>2, <2>3
  <1>4. CASE Quit(Test)
    <2>1. /\ pc[Test] = "exit" /\ pc'[Test] = "ended" /\ pc'[Sub] = pc[Sub]
          /\ end'[Test] = ExitOf(out[Test].line)
          /\ UNCHANGED <<dest, file, pos, std, reaped, touched>>
      BY <1>0, <1>4 DEF Quit, Exit, Goto, results, fork, IInv, Tables
    <2>2. out' = out
      BY <1>4 DEF Quit, Exit, ExitOf
    <2> QED BY <1>0, <2>1, <2>2 DEF Results
  <1> QED BY <1>1, <1>2, <1>3, <1>4

LEMMA NextResults == IInv /\ Waited /\ Results /\ [Next]_vars => Results'
  <1> SUFFICES ASSUME IInv, Waited, Results, [Next]_vars PROVE Results'
    OBVIOUS
  <1> USE DEF Procs
  <1>0. Test # Sub BY DEF Test, Sub
  <1>1. CASE Start
    <2>1. pc'[Sub] = pc[Sub] /\ UNCHANGED <<file, pos, std, reaped, touched>>
      BY <1>0, <1>1 DEF Start, Exit, Goto, fork, IInv, Tables
    <2>2. CASE Exit(Test, "abort") /\ UNCHANGED dest
      BY <2>1, <2>2, TowardEnd, TestToward DEF Toward, Exit, Goto, IInv, Tables
    <2>3. ASSUME NEW d \in Dests, ctx' = [ctx EXCEPT ![Test].fd = d], Goto(Test, "body"),
                 dest' = d, UNCHANGED <<out, end>>
          PROVE  Results'
      <3>1. pc[Test] = "start" /\ end[Test] = "alive"
        BY <1>1, Running DEF Start
      <3>2. pc'[Test] = "body" /\ ctx'[Test].fd = d
        BY <2>3 DEF Goto, IInv, Tables, Context
      <3> QED BY <2>1, <2>3, <3>1, <3>2 DEF Results, Exited
    <2> QED BY <1>1, <2>2, <2>3 DEF Start
  <1>2. CASE Body(Test) \/ ExitBody(Test) \/ ErrorInExpect(Test) \/ FailRequirement(Test)
             \/ WriteFails(Test) \/ Kill(Test)
    <2>1. Toward(Test)
      BY <1>2, BodyToward, FinishToward
    <2>2. pc'[Sub] = pc[Sub]
      BY <1>0, <1>2, BodyLocal, FinishLocal, AbortLocal, Others DEF ExitBody, Kill, Finish
    <2>3. pc[Test] # "start" \/ pc'[Test] = "ended"
      BY <2>1 DEF Toward
    <2> QED BY <2>1, <2>2, <2>3, TestToward
  <1>3. CASE Truncate(Test) \/ Seek(Test) \/ Write(Test) \/ Quit(Test)
    BY <1>3, TestFinish
  <1>4. CASE \/ Body(Sub) \/ Finish(Sub) \/ ExitBody(Sub) \/ Kill(Sub)
             \/ Redirect \/ ResetResults
    BY <1>4, SubResults
  <1>5. CASE Fork \/ WaitFails \/ WaitMismatch \/ WaitOk
    <2>1. /\ pc[Test] = "body" /\ UNCHANGED <<dest, file, pos, std, touched>>
          /\ end' = end /\ ctx'[Test] = ctx[Test]
      BY <1>0, <1>5 DEF Fork, WaitFails, WaitMismatch, WaitOk, InBody, Require, results, IInv, Tables
    <2>2. pc'[Sub] # "seek" \/ pc'[Sub] = pc[Sub]
      BY <1>0, <1>5 DEF Fork, WaitFails, WaitMismatch, WaitOk, InBody, Require, Goto, IInv, Tables
    <2>3. pc'[Test] \in {"body", "require"}
      BY <1>0, <1>5 DEF Fork, WaitFails, WaitMismatch, WaitOk, InBody, Require, Goto, IInv, Tables
    <2>4. end[Test] = "alive"
      BY <2>1, Running
    <2> QED BY <2>1, <2>2, <2>3, <2>4 DEF Results, Exited
  <1>6. CASE UNCHANGED vars
    BY <1>6 DEF vars, Results
  <1> QED BY <1>1, <1>2, <1>3, <1>4, <1>5, <1>6 DEF Next, Forking, Finish

\* When the process of a test has exited with a verdict, the results are the
\* one line of that verdict, whatever a forked process that was waited for,
\* or wrote nothing, did (create_resfile, atf_tc_run).
THEOREM ResultAlwaysTells == Spec => []ResultTellsTheEnd
  <1>1. Init => Waited /\ Results
    BY DEF Init, Waited, Results, Exited, Procs, Test, Sub
  <1>2. IInv /\ Waited /\ Results => ResultTellsTheEnd
    <2> SUFFICES ASSUME IInv, Results, end[Test] \in Exited, Alone
                 PROVE  \E v \in Verdicts : Told = <<v>> /\ ExitOf(v) = end[Test]
      BY DEF ResultTellsTheEnd, Exited
    <2>1. out[Test].line \in Verdicts
      BY DEF IInv, Fit, Procs, Exited
    <2>2. dest \in {"file", "std"} /\ end[Test] = ExitOf(out[Test].line)
      BY AtfTestCaseAssumption DEF Results
    <2>3. Told = <<out[Test].line>>
      BY <2>2 DEF Results, Told, Alone
    <2> QED BY <2>1, <2>2, <2>3
  <1> QED BY <1>1, <1>2, NextWaited, NextResults, Invariant, NextIInv, PTL DEF Spec
=============================================================================
