------------------------------ MODULE AtfCheck ------------------------------
(***************************************************************************)
(* A caller of AtfProcess and what atf-c/check.c puts around it: a         *)
(* temporary directory for the output of the program that is checked, kept *)
(* with the result and removed with it (atf_check_exec_array,              *)
(* atf_check_result_fini; atf-c++/check.cpp), and the compiler runs of     *)
(* atf_check_build_*.  The caller's other uses of AtfProcess are here too. *)
(***************************************************************************)
EXTENDS AtfProcess, Sequences

VARIABLES
    argv,  \* the command line of a compiler
    dir,   \* check.XXXXXX in $TMPDIR
    files  \* the numbers of the streams with a file in it

vars == <<use, asked, before, fds, pipes, kept, text, got, pc, end, status, intr,
          argv, dir, files>>

\* What a command line is made of: words of the environment or of how ATF was
\* configured, the caller's options, and names.
Words == {"CC", "CPP", "CXX", "CPPFLAGS", "CFLAGS", "CXXFLAGS", "optargs",
          "-o", "-c", "object", "source"}

TypeOK ==
    /\ TypeOKProcess
    /\ argv \in Seq(Words)
    /\ dir \in {"none", "there", "gone"}
    /\ files \in SUBSET N

Init ==
    /\ InitProcess
    /\ argv = <<>>
    /\ dir = "none"
    /\ files = {}

tmp == <<argv, dir, files>>
Rest == <<use, asked, before, fds, pipes, kept, text, got, end, status, intr>>

-----------------------------------------------------------------------------
\* What can be asked for stream n, of the caller's descriptors in redirect_fd
\* and connect.
Offers(n) ==
    {Inherit, Path, [kind |-> "capture", fd |-> 0], [kind |-> "connect", fd |-> 3 - n]}
        \cup [kind : {"redirect_fd"}, fd : {3 - n, UserFd}]

\* atf_process_fork: any streams.
BeginFork ==
    /\ pc[Parent] = "idle"
    /\ use' = "fork"
    /\ \E a \in Offers(1), b \in Offers(2) : asked' = [n \in N |-> IF n = 1 THEN a ELSE b]
    /\ Goto(Parent, "prepare1")
    /\ UNCHANGED <<before, fds, pipes, kept, text, got, end, status, intr, tmp>>

\* atf_process_exec_array, atf_process_exec_list: not to be captured.
BeginExec ==
    /\ pc[Parent] = "idle"
    /\ use' = "exec"
    /\ \E a \in Offers(1), b \in Offers(2) :
        /\ a.kind # "capture" /\ b.kind # "capture"
        /\ asked' = [n \in N |-> IF n = 1 THEN a ELSE b]
    /\ Goto(Parent, "prepare1")
    /\ UNCHANGED <<before, fds, pipes, kept, text, got, end, status, intr, tmp>>

\* append_src_out.
SrcOut == <<"-o", "object", "-c", "source">>

\* atf_build_c_o, atf_build_cpp, atf_build_cxx_o: what the caller adds comes
\* after what is configured.
BuildCO == <<"CC", "CPPFLAGS", "CFLAGS", "optargs">> \o SrcOut
BuildCpp == <<"CPP", "CPPFLAGS", "optargs", "-o", "object", "source">>
BuildCxxO == <<"CXX", "CPPFLAGS", "CXXFLAGS", "optargs">> \o SrcOut

\* atf_check_build_*: the command is put together, if there is memory for it,
\* and the compiler's output is the test's.
BeginBuild ==
    /\ pc[Parent] = "idle"
    /\ use' = "build"
    /\ asked' = [n \in N |-> Inherit]
    /\ \/ argv' \in {BuildCO, BuildCpp, BuildCxxO} /\ Goto(Parent, "prepare1")
       \/ Goto(Parent, "error") /\ UNCHANGED argv
    /\ UNCHANGED <<before, fds, pipes, kept, text, got, end, status, intr, dir, files>>

\* atf_check_exec_array, which starts with create_tmpdir.
BeginCheck ==
    /\ pc[Parent] = "idle"
    /\ use' = "check"
    /\ asked' = [n \in N |-> Path]
    /\ Goto(Parent, "mkdtemp")
    /\ UNCHANGED <<before, fds, pipes, kept, text, got, end, status, intr, tmp>>

Mkdtemp ==
    /\ pc[Parent] = "mkdtemp"
    /\ \/ dir' = "there" /\ Goto(Parent, "init")
       \/ Goto(Parent, "error") /\ UNCHANGED dir
    /\ UNCHANGED <<Rest, argv, files>>

\* Mutant: the directory is left when there is no memory for the result.
ResultInitLeaves ==
    /\ pc[Parent] = "init"
    /\ \/ Goto(Parent, "prepare1")
       \/ Goto(Parent, "error")
    /\ UNCHANGED <<Rest, tmp>>

\* atf_check_result_init; without memory the directory is removed.
ResultInit ==
    /\ pc[Parent] = "init"
    /\ \/ Goto(Parent, "prepare1") /\ UNCHANGED dir
       \/ Goto(Parent, "error") /\ dir' = "gone"
    /\ UNCHANGED <<Rest, argv, files>>

\* The child creates the file it is to write to.
ChildConnects(n) ==
    \/ /\ ConnectOk(n)
       /\ IF use = "check" THEN dir = "there" /\ files' = files \cup {n}
          ELSE UNCHANGED files
       /\ UNCHANGED <<argv, dir>>
    \/ ConnectFails(n) /\ files' \in {files, files \cup {n}} /\ UNCHANGED <<argv, dir>>
        /\ (files' # files => use = "check" /\ dir = "there")

ChildSteps ==
    \/ \E n \in N : ChildConnects(n)
    \/ (Start \/ (\E n \in N : Write(n)) \/ ProgramEnds) /\ UNCHANGED tmp

-----------------------------------------------------------------------------
\* The caller is through with the result: atf_check_result_fini.
ResultFini ==
    /\ pc[Parent] = "done" /\ use = "check"
    /\ Goto(Parent, "unlink1")
    /\ UNCHANGED <<Rest, tmp>>

\* cleanup_tmpdir: the files may not be there.
Unlink(n) ==
    /\ pc[Parent] = IF n = 1 THEN "unlink1" ELSE "unlink2"
    /\ files' = files \ {n}
    /\ Goto(Parent, IF n = 1 THEN "unlink2" ELSE "rmdir")
    /\ UNCHANGED <<Rest, argv, dir>>

\* The directory must be empty.
Rmdir ==
    /\ pc[Parent] = "rmdir"
    /\ \/ /\ files = {} /\ dir' = "gone"
          /\ Goto(Parent, IF status = "none" THEN "error" ELSE "finished")
       \/ files # {} /\ Goto(Parent, "abort") /\ UNCHANGED dir
    /\ UNCHANGED <<Rest, argv, files>>

-----------------------------------------------------------------------------
CallerSteps ==
    \/ BeginFork \/ BeginExec \/ BeginBuild \/ BeginCheck
    \/ Mkdtemp \/ ResultInit \/ ResultFini \/ (\E n \in N : Unlink(n)) \/ Rmdir

Next == CallerSteps \/ (ParentSteps /\ UNCHANGED tmp) \/ ChildSteps

\* The caller reads what there is and goes on when it can.
Spec ==
    /\ Init /\ [][Next]_vars
    /\ \A n \in N : WF_vars(Read(n) /\ UNCHANGED tmp)
    /\ WF_vars((ReadAll \/ DoParent) /\ UNCHANGED tmp)

-----------------------------------------------------------------------------
(* Properties *)

\* Nothing asked for closes what another stream is made of: no redirect_fd
\* of descriptor 1 or 2, nor of one descriptor twice (safe_dup closes it), and
\* no pipe or file on a standard descriptor the caller lacked.
Apart ==
    /\ \A n \in N : asked[n].kind = "redirect_fd" => asked[n].fd = UserFd
    /\ ~ \A n \in N : asked[n].kind = "redirect_fd"
    /\ before = Without({})

Wanted(n) ==
    LET own(m) ==
            CASE asked[m].kind = "capture" -> Object("write", m)
              [] asked[m].kind = "inherit" -> Object("std", m)
              [] asked[m].kind = "redirect_fd" -> Object("user", 0)
              [] asked[m].kind = "redirect_path" -> Object("path", m)
              [] OTHER -> Object("std", 3 - m)
    IN IF n = 2 /\ asked[n].kind = "connect" THEN own(1) ELSE own(n)

\* The program starts with the standard output and error that were asked for
\* and holds no other end of a pipe: its reader's end is not kept open by the
\* child itself (child_connect, safe_dup).
ChildStreams ==
    pc[Child] = "running" /\ Apart =>
        /\ \A n \in N : fds[Child][n] = Wanted(n)
        /\ \A i \in Fds \ N : fds[Child][i].what \notin {"read", "write"}

\* When a call is over, however it went, the caller has the descriptors open
\* that it had before, whichever those were (err_errpipe, err_outpipe,
\* atf_process_child_fini).
ParentKeeps ==
    pc[Parent] \in {"done", "error", "unlink1", "unlink2", "rmdir", "finished"} =>
        fds[Parent] = before

\* A caller that read the descriptors it was given to their ends has got, for
\* each stream, all that was written to the pipe of that stream and nothing of
\* the other's (parent_connect, child_connect).
CaptureWhole ==
    pc[Parent] = "done" /\ use = "fork" =>
        \A n, m \in N : got[n][m] = IF m = n THEN text["write"][n] ELSE 0

\* As long as the result of a check is kept the directory is there, with both
\* files if the program succeeded (a child that cannot open them fails); after
\* the result, and after every error, it is gone and its files before it.
\* The assertion that it can be removed holds unless a wait was interrupted
\* (atf_check_exec_array, cleanup_tmpdir).
TmpTidy ==
    /\ pc[Parent] = "done" /\ use = "check" => dir = "there" /\ (status = "ok" => files = N)
    /\ pc[Parent] = "finished" => dir = "gone"
    /\ pc[Parent] \in {"error", "finished"} => dir # "there" /\ files = {}
    /\ pc[Parent] = "abort" => intr > 0

\* When the child has ended, a caller that reads what it captured comes to
\* the end of it (parent_connect closes the end it does not use).
CaptureEnds == pc[Parent] = "reading" /\ end # "none" ~> pc[Parent] # "reading"
=============================================================================
