----------------------------- MODULE AtfProcess -----------------------------
(***************************************************************************)
(* How the bundled ATF runs another process: atf-c/detail/process.c and    *)
(* its C++ face (atf-c++/detail/process.hpp, process.cpp).                 *)
(*                                                                         *)
(* The standard output and error of the new process are prepared before    *)
(* the fork, connected on both sides after it, and closed after the wait;  *)
(* pipe, fork, open, dup2 and waitpid can each fail or be interrupted.     *)
(* A descriptor table maps numbers to what is open there.  Streams are     *)
(* numbered as the descriptors they become: 1 and 2.                       *)
(*                                                                         *)
(* This module has the steps; AtfCheck puts them together with what        *)
(* atf-c/check.c does around them.                                         *)
(***************************************************************************)
EXTENDS Integers, FiniteSets

CONSTANTS
    UserFd,    \* a descriptor the caller has open besides 0, 1 and 2
    MayLack,   \* of 0, 1 and 2: those the caller may have closed
    MaxFd,     \* bound: descriptors of a process
    PipeSize,  \* bound: what a pipe holds
    MaxText,   \* bound: what is written to one place
    MaxIntr    \* bound: how often a wait is interrupted

ASSUME AtfProcessAssumption ==
    /\ UserFd \in 3..MaxFd /\ MaxFd \in Nat
    /\ MayLack \subseteq 0..2
    /\ PipeSize \in Nat \ {0}
    /\ MaxText \in Nat
    /\ MaxIntr \in Nat

-----------------------------------------------------------------------------
VARIABLES
    use,     \* what the caller is doing: see Uses
    asked,   \* asked[n]: the stream asked for
    before,  \* the caller's descriptors when it began
    fds,     \* fds[p][i]: what descriptor i of process p is
    pipes,   \* pipes[n]: the descriptors of the pipe made for stream n
    kept,    \* kept[n]: m_stdout, m_stderr of atf_process_child_t
    text,    \* text[n][o]: how much was written to o, of kind n: see Place
    got,     \* got[n][m]: how much of pipe m the parent has read by way of kept[n]
    pc,      \* pc[p]: what p is at
    end,     \* how the child ended
    status,  \* what the parent knows of it
    intr     \* how often a wait was interrupted

pvars == <<use, asked, before, fds, pipes, kept, text, got, pc, end, status, intr>>

Parent == "parent"
Child == "child"
Procs == {Parent, Child}

\* atf_process_fork by itself (the C++ fork), atf_process_exec_array,
\* atf_check_exec_array, atf_check_build_*.
Uses == {"none", "fork", "exec", "check", "build"}

N == {1, 2}
Kinds == {"capture", "connect", "inherit", "redirect_fd", "redirect_path"}
Streams == [kind : Kinds, fd : 0..MaxFd]
Inherit == [kind |-> "inherit", fd |-> 0]
Path == [kind |-> "redirect_path", fd |-> 0]

\* What a descriptor can be: closed, standard input, the caller's standard
\* output or error, the caller's own file, the file of a redirect_path (once:
\* with O_CLOEXEC still on it), an end of a pipe; of says for which stream.
Object(what, of) == [what |-> what, of |-> of]
Objects == [what : {"closed", "in", "std", "user", "path", "once", "read", "write"}, of : 0..2]
Closed == Object("closed", 0)

Fds == 0..MaxFd
Ends == {"none", "ok", "bad", "signal"}
PCs == {"idle", "mkdtemp", "init", "prepare1", "prepare2", "fork", "connect", "reading",
        "wait", "unwind", "reap", "unlink1", "unlink2", "rmdir", "done", "finished", "error",
        "abort",
        "unborn", "child1", "child2", "start", "running", "ended"}

TypeOKProcess ==
    /\ use \in Uses
    /\ asked \in [N -> Streams]
    /\ before \in [Fds -> Objects]
    /\ fds \in [Procs -> [Fds -> Objects]]
    /\ pipes \in [N -> [made : BOOLEAN, r : Fds, w : Fds]]
    /\ kept \in [N -> Fds \cup {-1}]
    /\ text \in [{"std", "user", "path", "write"} -> [0..2 -> 0..MaxText]]
    /\ got \in [N -> [N -> 0..MaxText]]
    /\ pc \in [Procs -> PCs]
    /\ end \in Ends /\ status \in Ends
    /\ intr \in 0..MaxIntr

NoPipe == [made |-> FALSE, r |-> 0, w |-> 0]

\* A caller with its own file open and the descriptors in S closed.
Without(S) ==
    [i \in Fds |->
        IF i \in S THEN Closed
        ELSE CASE i = 0 -> Object("in", 0)
               [] i \in N -> Object("std", i)
               [] i = UserFd -> Object("user", 0)
               [] OTHER -> Closed]

InitProcess ==
    /\ use = "none"
    /\ asked = [n \in N |-> Inherit]
    /\ before \in {Without(S) : S \in SUBSET MayLack}
    /\ fds = [p \in Procs |-> IF p = Parent THEN before ELSE [i \in Fds |-> Closed]]
    /\ pipes = [n \in N |-> NoPipe]
    /\ kept = [n \in N |-> -1]
    /\ text = [w \in {"std", "user", "path", "write"} |-> [n \in 0..2 |-> 0]]
    /\ got = [n \in N |-> [m \in N |-> 0]]
    /\ pc = [p \in Procs |-> IF p = Parent THEN "idle" ELSE "unborn"]
    /\ end = "none" /\ status = "none"
    /\ intr = 0

-----------------------------------------------------------------------------
(* Parts of steps *)

Goto(p, l) == pc' = [pc EXCEPT ![p] = l]

Free(table) == {i \in Fds : table[i] = Closed}
Lowest(S) == CHOOSE i \in S : \A j \in S : i <= j

Close(table, S) == [i \in Fds |-> IF i \in S THEN Closed ELSE table[i]]
Dup2(table, old, new) == [table EXCEPT ![new] = table[old]]

\* safe_dup, when dup2 succeeds.
SafeDup(table, old, new) ==
    IF old = new THEN table ELSE Close(Dup2(table, old, new), {old})

\* stream_prepare_fini, for the streams in S.
PipeFds(S) == UNION {{pipes[n].r, pipes[n].w} : n \in {m \in S : pipes[m].made}}
FiniPipes(S) == fds' = [fds EXCEPT ![Parent] = Close(@, PipeFds(S))]

\* Where fork_with_streams returns to with an error: atf_check_exec_array
\* clears up what it has made.
Failed(p) == Goto(p, IF use = "check" THEN "unlink1" ELSE "error")

Steady == <<use, asked, before>>
Traffic == <<text, got>>
Fate == <<end, status, intr>>

-----------------------------------------------------------------------------
(* fork_with_streams *)

\* Mutant: the streams prepared before are left as they are.
PrepareLeaks(n) ==
    /\ pc[Parent] = IF n = 1 THEN "prepare1" ELSE "prepare2"
    /\ LET next == Goto(Parent, IF n = 1 THEN "prepare2" ELSE "fork")
           free == Free(fds[Parent])
           r == Lowest(free)
           w == Lowest(free \ {r})
       IN \/ asked[n].kind # "capture" /\ next /\ UNCHANGED <<fds, pipes>>
          \/ /\ asked[n].kind = "capture" /\ Cardinality(free) >= 2
             /\ fds' = [fds EXCEPT ![Parent][r] = Object("read", n),
                                   ![Parent][w] = Object("write", n)]
             /\ pipes' = [pipes EXCEPT ![n] = [made |-> TRUE, r |-> r, w |-> w]]
             /\ next
          \/ /\ asked[n].kind = "capture"
             /\ Failed(Parent)
             /\ UNCHANGED <<fds, pipes>>
    /\ UNCHANGED <<Steady, kept, Traffic, Fate>>

\* stream_prepare_init: a pipe for a captured stream, which gets the lowest
\* free descriptors.  If that fails, what was prepared before is closed.
Prepare(n) ==
    /\ pc[Parent] = IF n = 1 THEN "prepare1" ELSE "prepare2"
    /\ LET next == Goto(Parent, IF n = 1 THEN "prepare2" ELSE "fork")
           free == Free(fds[Parent])
           r == Lowest(free)
           w == Lowest(free \ {r})
       IN \/ asked[n].kind # "capture" /\ next /\ UNCHANGED <<fds, pipes>>
          \/ /\ asked[n].kind = "capture" /\ Cardinality(free) >= 2
             /\ fds' = [fds EXCEPT ![Parent][r] = Object("read", n),
                                   ![Parent][w] = Object("write", n)]
             /\ pipes' = [pipes EXCEPT ![n] = [made |-> TRUE, r |-> r, w |-> w]]
             /\ next
          \/ /\ asked[n].kind = "capture"
             /\ FiniPipes(1..(n - 1))
             /\ Failed(Parent)
             /\ UNCHANGED pipes
    /\ UNCHANGED <<Steady, kept, Traffic, Fate>>

Fork ==
    /\ pc[Parent] = "fork"
    /\ \/ /\ pc' = [pc EXCEPT ![Parent] = "connect", ![Child] = "child1"]
          /\ fds' = [fds EXCEPT ![Child] = fds[Parent]]
       \/ FiniPipes(N) /\ Failed(Parent)
    /\ UNCHANGED <<Steady, pipes, kept, Traffic, Fate>>

\* Mutant: the parent keeps the end of the pipe the child writes to.
DoParentKeeps ==
    /\ pc[Parent] = "connect"
    /\ kept' = [n \in N |-> IF asked[n].kind = "capture" THEN pipes[n].r ELSE -1]
    /\ Goto(Parent, IF use = "fork" THEN "reading" ELSE "wait")
    /\ UNCHANGED <<Steady, fds, pipes, Traffic, Fate>>

\* Mutant: each stream is kept where the other belongs.
DoParentCrosses ==
    /\ pc[Parent] = "connect"
    /\ fds' = [fds EXCEPT ![Parent] =
                Close(@, {pipes[n].w : n \in {m \in N : asked[m].kind = "capture"}})]
    /\ kept' = [n \in N |-> IF asked[3 - n].kind = "capture" THEN pipes[3 - n].r ELSE -1]
    /\ Goto(Parent, IF use = "fork" THEN "reading" ELSE "wait")
    /\ UNCHANGED <<Steady, pipes, Traffic, Fate>>

\* do_parent, parent_connect.
DoParent ==
    /\ pc[Parent] = "connect"
    /\ fds' = [fds EXCEPT ![Parent] =
                Close(@, {pipes[n].w : n \in {m \in N : asked[m].kind = "capture"}})]
    /\ kept' = [n \in N |-> IF asked[n].kind = "capture" THEN pipes[n].r ELSE -1]
    /\ Goto(Parent, IF use = "fork" THEN "reading" ELSE "wait")
    /\ UNCHANGED <<Steady, pipes, Traffic, Fate>>

-----------------------------------------------------------------------------
(* The child *)

\* The child has ended and its descriptors are closed.
Ended(how) ==
    /\ Goto(Child, "ended")
    /\ end' = how
    /\ fds' = [fds EXCEPT ![Child] = [i \in Fds |-> Closed]]

\* The tables dup2(old, n) leads to, with old closed after it: none if old is
\* not open.
Moved(table, old, n) == {SafeDup(table, old, n) : i \in {old} \ Free(table)}

\* open with O_CLOEXEC and safe_dup: the flag goes with dup2.
Opened(table, n) ==
    IF Free(table) = {} THEN {}
    ELSE {[table EXCEPT ![n] = Object(IF Lowest(Free(table)) = n THEN "once" ELSE "path", n)]}

\* Mutant: the child keeps the end of the pipe the parent reads from.
ConnectedKeepsRead(n, table) ==
    CASE asked[n].kind = "capture" -> Moved(table, pipes[n].w, n)
      [] asked[n].kind = "connect" ->
            {Dup2(table, i, n) : i \in {asked[n].fd} \ Free(table)}
      [] asked[n].kind = "inherit" -> {table}
      [] asked[n].kind = "redirect_fd" -> Moved(table, asked[n].fd, n)
      [] asked[n].kind = "redirect_path" -> Opened(table, n)

\* The child's table after child_connect; none, if dup2 or open must fail.
Connected(n, table) ==
    CASE asked[n].kind = "capture" -> Moved(Close(table, {pipes[n].r}), pipes[n].w, n)
      [] asked[n].kind = "connect" ->
            {Dup2(table, i, n) : i \in {asked[n].fd} \ Free(table)}
      [] asked[n].kind = "inherit" -> {table}
      [] asked[n].kind = "redirect_fd" -> Moved(table, asked[n].fd, n)
      [] asked[n].kind = "redirect_path" -> Opened(table, n)

\* child_connect succeeds; or not, and the child exits.
ConnectOk(n) ==
    /\ pc[Child] = IF n = 1 THEN "child1" ELSE "child2"
    /\ \E table \in Connected(n, fds[Child]) : fds' = [fds EXCEPT ![Child] = table]
    /\ Goto(Child, IF n = 1 THEN "child2" ELSE "start")
    /\ UNCHANGED <<Steady, pipes, kept, Traffic, Fate>>

ConnectFails(n) ==
    /\ pc[Child] = IF n = 1 THEN "child1" ELSE "child2"
    /\ asked[n].kind # "inherit"
    /\ Ended("bad")
    /\ UNCHANGED <<Steady, pipes, kept, Traffic, status, intr>>

\* What is left of a descriptor when a program is executed, or a function
\* called.
Started(o) ==
    IF o.what # "once" THEN o
    ELSE IF use = "fork" THEN Object("path", o.of) ELSE Closed

\* do_exec and exec_child, or the function given to fork; the child exits if
\* the program cannot be executed.
Start ==
    /\ pc[Child] = "start"
    /\ \/ /\ Goto(Child, "running")
          /\ fds' = [fds EXCEPT ![Child] = [i \in Fds |-> Started(@[i])]]
          /\ UNCHANGED end
       \/ use # "fork" /\ Ended("bad")
    /\ UNCHANGED <<Steady, pipes, kept, Traffic, status, intr>>

\* Someone can read from pipe n.
HasReader(n) == \E p \in Procs, i \in Fds : fds[p][i] = Object("read", n)
HasWriter(n) == \E p \in Procs, i \in Fds : fds[p][i] = Object("write", n)
Held(n) == text["write"][n] - (got[1][n] + got[2][n])

\* The program writes to descriptor n; with a full pipe it waits, without a
\* reader it gets SIGPIPE.
Write(n) ==
    /\ pc[Child] = "running"
    /\ LET o == fds[Child][n]
       IN /\ o.what \in {"std", "user", "path", "write"}
          /\ \/ /\ text[o.what][o.of] < MaxText
                /\ o.what = "write" => HasReader(o.of) /\ Held(o.of) < PipeSize
                /\ text' = [text EXCEPT ![o.what][o.of] = @ + 1]
                /\ UNCHANGED <<fds, pc, end>>
             \/ /\ o.what = "write" /\ ~HasReader(o.of)
                /\ Ended("signal")
                /\ UNCHANGED text
    /\ UNCHANGED <<Steady, pipes, kept, got, status, intr>>

ProgramEnds ==
    /\ pc[Child] = "running"
    /\ \E how \in {"ok", "bad", "signal"} : Ended(how)
    /\ UNCHANGED <<Steady, pipes, kept, Traffic, status, intr>>

-----------------------------------------------------------------------------
(* The parent reads and waits *)

\* What the descriptor is that the caller has for stream n.
Source(n) == fds[Parent][kept[n]]

\* Mutant: the parent takes more than there is.
ReadBlind(n) ==
    /\ pc[Parent] = "reading"
    /\ kept[n] # -1
    /\ got' = [got EXCEPT ![n][n] = @ + 1]
    /\ UNCHANGED <<Steady, fds, pipes, kept, text, pc, Fate>>

\* What the user of fork does with a stream it captured: it reads what there is
\* of whatever pipe it was given an end of.
Read(n) ==
    /\ pc[Parent] = "reading" /\ kept[n] # -1
    /\ Source(n).what = "read" /\ Held(Source(n).of) > 0
    /\ got' = [got EXCEPT ![n][Source(n).of] = @ + 1]
    /\ UNCHANGED <<Steady, fds, pipes, kept, text, pc, Fate>>

\* Each descriptor it has is read to its end, where the pipe is empty and
\* nobody can write to it, or cannot be read.
ReadAll ==
    /\ pc[Parent] = "reading"
    /\ \A n \in N : kept[n] # -1 /\ Source(n).what = "read" =>
            Held(Source(n).of) = 0 /\ ~HasWriter(Source(n).of)
    /\ Goto(Parent, "wait")
    /\ UNCHANGED <<Steady, fds, pipes, kept, Traffic, Fate>>

\* atf_process_child_wait: waitpid returns the status, atf_process_child_fini
\* closes what was captured.
Reaped(l) ==
    /\ pc[Child] = "ended" /\ status = "none"
    /\ status' = end
    /\ fds' = [fds EXCEPT ![Parent] = Close(@, {kept[n] : n \in N})]
    /\ Goto(Parent, l)
    /\ UNCHANGED <<Steady, pipes, kept, Traffic, end, intr>>

Wait == pc[Parent] = "wait" /\ Reaped("done")

\* waitpid is interrupted.  atf_process_exec_array waits again; fork_and_wait
\* of check.c gives up; the C++ child throws and is destroyed.
WaitInterrupted ==
    /\ pc[Parent] = "wait" /\ intr < MaxIntr
    /\ intr' = intr + 1
    /\ \/ use = "exec" /\ UNCHANGED pc
       \/ use \in {"check", "build"} /\ Failed(Parent)
       \/ use = "fork" /\ Goto(Parent, "unwind")
    /\ UNCHANGED <<Steady, fds, pipes, kept, Traffic, end, status>>

\* An exception leaves the scope of a C++ child nobody waited for.
Unwind ==
    /\ pc[Parent] = "reading"
    /\ Goto(Parent, "unwind")
    /\ UNCHANGED <<Steady, fds, pipes, kept, Traffic, Fate>>

\* child::~child sends SIGTERM, which ends a child that has not ended and
\* does not ignore it.
KillChild ==
    /\ pc[Parent] = "unwind"
    /\ \/ /\ pc[Child] # "ended"
          /\ pc' = [pc EXCEPT ![Parent] = "reap", ![Child] = "ended"]
          /\ end' = "signal"
          /\ fds' = [fds EXCEPT ![Child] = [i \in Fds |-> Closed]]
       \/ /\ pc[Child] \in {"ended", "running"}
          /\ Goto(Parent, "reap")
          /\ UNCHANGED <<end, fds>>
    /\ UNCHANGED <<Steady, pipes, kept, Traffic, status, intr>>

\* ... and waits for it; there must be no error.
Reap == pc[Parent] = "reap" /\ Reaped("error")

ReapInterrupted ==
    /\ pc[Parent] = "reap" /\ intr < MaxIntr
    /\ intr' = intr + 1
    /\ Goto(Parent, "abort")
    /\ UNCHANGED <<Steady, fds, pipes, kept, Traffic, end, status>>

-----------------------------------------------------------------------------
ParentSteps ==
    \/ \E n \in N : Prepare(n) \/ Read(n)
    \/ Fork \/ DoParent \/ ReadAll
    \/ Wait \/ WaitInterrupted
    \/ Unwind \/ KillChild \/ Reap \/ ReapInterrupted
=============================================================================
