--------------------------- MODULE AtfCheckProofs ---------------------------
(***************************************************************************)
(* Proofs about AtfProcess as AtfCheck puts it together.                   *)
(***************************************************************************)
EXTENDS AtfCheck, FiniteSetTheorems, WellFoundedInduction, TLAPS

Captured(n) == asked[n].kind = "capture"

Early == {"idle", "mkdtemp", "init", "prepare1"}
Preparing == Early \cup {"prepare2", "fork", "connect"}
Attached == {"reading", "wait", "unwind", "reap"}
Clearing == {"unlink1", "unlink2", "rmdir"}
Over == {"done", "finished", "error"} \cup Clearing
ChildPCs == {"unborn", "child1", "child2", "start", "running", "ended"}

\* What is asked for in each use, and where each use can be.
Asking ==
    /\ \A n \in N : asked[n] \in Offers(n)
    /\ use # "fork" => \A n \in N : ~Captured(n)
    /\ use = "check" => \A n \in N : asked[n] = Path
    /\ pc[Parent] = "idle" <=> use = "none"
    /\ pc[Parent] \in {"mkdtemp", "init"} \cup Clearing => use = "check"
    /\ pc[Parent] \in {"reading", "unwind", "reap"} => use = "fork"

\* The child is there between the fork and its end, which its status tells.
Living ==
    /\ pc[Parent] \in Preparing \cup Attached \cup Over \cup {"abort"}
    /\ pc[Child] \in ChildPCs
    /\ pc[Parent] \in Early \cup {"prepare2", "fork"} => pc[Child] = "unborn"
    /\ pc[Parent] \in {"connect"} \cup Attached => pc[Child] # "unborn"
    /\ pc[Child] = "ended" <=> end # "none"
    /\ status # "none" => end = status
    /\ pc[Parent] \in {"done", "finished"} => status # "none"

\* The caller's descriptors are what they were, but for the pipes made so far;
\* when it runs, for those it reads from.
Table ==
    /\ \E S \in SUBSET MayLack : before = Without(S)
    /\ \A n \in N : pipes[n].made => before[pipes[n].r] = Closed /\ before[pipes[n].w] = Closed
    /\ pc[Parent] \in Early => \A n \in N : ~pipes[n].made
    /\ pc[Parent] = "prepare2" => ~pipes[2].made /\ (pipes[1].made <=> Captured(1))
    /\ pc[Parent] \in {"fork", "connect"} \cup Attached \/ pc[Child] # "unborn" =>
            \A n \in N : pipes[n].made <=> Captured(n)
    /\ pc[Parent] \in Preparing => \A i \in Fds \ PipeFds(N) : fds[Parent][i] = before[i]
    /\ pc[Parent] \in Preparing => \A n \in N : pipes[n].made =>
            /\ fds[Parent][pipes[n].r] = Object("read", n)
            /\ fds[Parent][pipes[n].w] = Object("write", n)
    /\ pc[Parent] \in Preparing => \A n \in N : kept[n] = -1
    /\ pc[Parent] \in Attached => \A n \in N :
            kept[n] = IF Captured(n) THEN pipes[n].r ELSE -1
    /\ pc[Parent] \in Attached => \A n \in N : Captured(n) => Source(n) = Object("read", n)
    /\ \A n \in N : kept[n] # -1 => Captured(n)
    /\ pc[Parent] \in Attached =>
            \A i \in Fds \ {kept[n] : n \in N} : fds[Parent][i] = before[i]
    /\ pc[Parent] \in Over => fds[Parent] = before

\* Only what is captured has a pipe to write to, what is read of it comes by way
\* of its own descriptor, and all of it has been read when the caller waits.
Written ==
    /\ \A p \in Procs, i \in Fds :
            fds[p][i].what = "write" => fds[p][i].of \in N /\ Captured(fds[p][i].of)
    /\ \A n, m \in N : n # m => got[n][m] = 0
    /\ \A n \in N : ~Captured(n) => text["write"][n] = 0 /\ got[n][n] = 0
    /\ pc[Parent] \in {"wait", "done"} /\ use = "fork" =>
            /\ \A n \in N : got[n][n] = text["write"][n]
            /\ \A p \in Procs, i \in Fds : fds[p][i].what # "write"

\* The directory and the files of a check that is under way.
Kept ==
    /\ use # "check" => dir = "none" /\ files = {}
    /\ pc[Parent] = "mkdtemp" => dir = "none"
    /\ pc[Child] = "unborn" => files = {}
    /\ /\ use = "check"
       /\ pc[Parent] \in (Preparing \ {"idle", "mkdtemp"}) \cup Attached \cup {"done"} \cup Clearing
       => dir = "there"
    /\ pc[Parent] = "error" => dir # "there" /\ files = {}
    /\ pc[Parent] = "finished" => dir = "gone" /\ files = {}
    /\ pc[Parent] \in Clearing /\ intr = 0 => pc[Child] \in {"unborn", "ended"}
    /\ pc[Parent] = "unlink2" /\ intr = 0 => 1 \notin files
    /\ pc[Parent] = "rmdir" /\ intr = 0 => files = {}
    /\ use = "check" /\ pc[Parent] \in {"connect", "wait", "done"} =>
            /\ pc[Child] = "child2" => 1 \in files
            /\ pc[Child] \in {"start", "running"} \/ end = "ok" => files = N
    /\ pc[Parent] = "abort" => intr > 0

\* Stream n of the child is still the caller's, with what it is to become.
Pending(n, table) ==
    /\ table[n] = Object("std", n)
    /\ Captured(n) => table[pipes[n].r] = Object("read", n) /\ table[pipes[n].w] = Object("write", n)
    /\ asked[n].kind = "redirect_fd" => table[UserFd] = Object("user", 0)

\* The only ends of pipes but for the standard streams are those for S.
NoStray(table, S) ==
    \A i \in Fds \ N : table[i].what \in {"read", "write"} =>
        \E m \in S : Captured(m) /\ i \in {pipes[m].r, pipes[m].w}

Settling ==
    Apart =>
        /\ pc[Child] = "child1" =>
            Pending(1, fds[Child]) /\ Pending(2, fds[Child]) /\ NoStray(fds[Child], {1, 2})
        /\ pc[Child] = "child2" =>
            fds[Child][1] = Wanted(1) /\ Pending(2, fds[Child]) /\ NoStray(fds[Child], {2})
        /\ pc[Child] \in {"start", "running"} =>
            (\A n \in N : fds[Child][n] = Wanted(n)) /\ NoStray(fds[Child], {})

IInv == TypeOK /\ Asking /\ Living /\ Table /\ Written /\ Kept /\ Settling

-----------------------------------------------------------------------------
(* Descriptors *)

LEMMA LowestIn ==
    ASSUME NEW S, S \subseteq Fds, S # {}
    PROVE  Lowest(S) \in S
  <1> DEFINE T == {0..i : i \in S}
  <1>1. S \subseteq Nat
    BY AtfProcessAssumption DEF Fds
  <1>2. T \subseteq FiniteSubsetsOf(Nat)
    <2>1. \A i \in S : IsFiniteSet(0..i)
      BY <1>1, FS_Interval
    <2> QED BY <1>1, <2>1 DEF FiniteSubsetsOf
  <1>a. T # {} OBVIOUS
  <1>3. \E x \in T : \A y \in T : ~ (<<y, x>> \in StrictSubsetOrdering(Nat))
    BY <1>2, <1>a, WFMin, FS_StrictSubsetOrderingWellFounded, Zenon
  <1>4. \E x \in T : \A y \in T : ~ (y \subseteq x /\ y # x)
    BY <1>2, <1>3 DEF StrictSubsetOrdering, FiniteSubsetsOf
  <1>b. PICK x \in T : \A y \in T : ~ (y \subseteq x /\ y # x)
    BY <1>4
  <1>c. PICK i \in S : x = 0..i
    OBVIOUS
  <1>5. \A j \in S : ~ (0..j \subseteq 0..i /\ 0..j # 0..i)
    <2>1. \A j \in S : 0..j \in T
      OBVIOUS
    <2> QED BY <2>1, <1>b, <1>c, Zenon
  <1>6. ASSUME NEW j \in S, j < i PROVE FALSE
    BY <1>1, <1>5, <1>6
  <1>7. \A j \in S : i <= j
    BY <1>1, <1>6
  <1> QED BY <1>7 DEF Lowest

\* There are two, and the second is not the first.
LEMMA LowestTwo ==
    ASSUME NEW S, S \subseteq Fds, Cardinality(S) >= 2
    PROVE  /\ Lowest(S) \in S
           /\ Lowest(S \ {Lowest(S)}) \in S \ {Lowest(S)}
  <1>1. IsFiniteSet(S)
    <2>1. IsFiniteSet(0..MaxFd)
      BY AtfProcessAssumption, FS_Interval
    <2> QED BY <2>1, FS_Subset DEF Fds
  <1>2. S # {}
    BY FS_EmptySet
  <1>3. Lowest(S) \in S
    BY <1>2, LowestIn
  <1>4. Cardinality(S \ {Lowest(S)}) = Cardinality(S) - 1
    BY <1>1, <1>3, FS_RemoveElement
  <1>5. S \ {Lowest(S)} # {}
    <2>1. Cardinality(S) - 1 # 0
      BY <1>1, FS_CardinalityType
    <2>2. Cardinality({}) = 0
      BY FS_EmptySet
    <2> QED BY <1>4, <2>1, <2>2
  <1> QED BY <1>3, <1>5, LowestIn

Tables == [Fds -> Objects]

LEMMA Things ==
    /\ Closed \in Objects
    /\ \A n \in N, what \in {"std", "path", "once", "read", "write"} : Object(what, n) \in Objects
    /\ \A table \in Tables : \A S : Close(table, S) \in Tables
    /\ \A table \in Tables, i, j \in Fds : Dup2(table, i, j) \in Tables
    /\ \A table \in Tables, i, j \in Fds : SafeDup(table, i, j) \in Tables
  <1>1. Closed \in Objects
    BY DEF Closed, Objects, Object
  <1>2. \A n \in N, what \in {"std", "path", "once", "read", "write"} : Object(what, n) \in Objects
    BY DEF Objects, Object, N
  <1>3. \A table \in Tables : \A S : Close(table, S) \in Tables
    BY <1>1 DEF Close, Tables
  <1>4. \A table \in Tables, i, j \in Fds : Dup2(table, i, j) \in Tables
    BY DEF Dup2, Tables
  <1>5. \A table \in Tables, i, j \in Fds : SafeDup(table, i, j) \in Tables
    BY <1>3, <1>4 DEF SafeDup
  <1> QED BY <1>1, <1>2, <1>3, <1>4, <1>5

\* What Prepare can do.
LEMMA Prepared ==
    ASSUME TypeOK, NEW n \in N, Prepare(n)
    PROVE  /\ pc[Parent] = IF n = 1 THEN "prepare1" ELSE "prepare2"
           /\ pc'[Child] = pc[Child]
           /\ fds'[Child] = fds[Child] /\ fds' \in [Procs -> Tables]
           /\ \/ /\ ~Captured(n) /\ UNCHANGED <<fds, pipes>>
                 /\ pc'[Parent] = IF n = 1 THEN "prepare2" ELSE "fork"
              \/ /\ Captured(n)
                 /\ pc'[Parent] = IF n = 1 THEN "prepare2" ELSE "fork"
                 /\ \E r, w \in Fds :
                    /\ r # w /\ fds[Parent][r] = Closed /\ fds[Parent][w] = Closed
                    /\ fds'[Parent][r] = Object("read", n) /\ fds'[Parent][w] = Object("write", n)
                    /\ \A i \in Fds \ {r, w} : fds'[Parent][i] = fds[Parent][i]
                    /\ pipes' = [pipes EXCEPT ![n] = [made |-> TRUE, r |-> r, w |-> w]]
              \/ /\ Captured(n) /\ UNCHANGED pipes
                 /\ fds'[Parent] = Close(fds[Parent], PipeFds(1..(n - 1)))
                 /\ pc'[Parent] = IF use = "check" THEN "unlink1" ELSE "error"
  <1> DEFINE free == Free(fds[Parent])
             r == Lowest(free)
             w == Lowest(free \ {r})
  <1>0. /\ pc \in [Procs -> PCs] /\ fds \in [Procs -> Tables]
        /\ Parent \in Procs /\ Child \in Procs /\ Parent # Child
    BY DEF TypeOK, TypeOKProcess, Tables, Procs, Parent, Child
  <1>1. CASE asked[n].kind # "capture"
    <2>1. UNCHANGED <<fds, pipes>> /\ Goto(Parent, IF n = 1 THEN "prepare2" ELSE "fork")
      BY <1>1 DEF Prepare
    <2> QED BY <2>1, <1>0, <1>1 DEF Captured, Goto, Prepare
  <1>2. CASE /\ asked[n].kind = "capture" /\ Cardinality(free) >= 2
             /\ fds' = [fds EXCEPT ![Parent][r] = Object("read", n),
                                   ![Parent][w] = Object("write", n)]
             /\ pipes' = [pipes EXCEPT ![n] = [made |-> TRUE, r |-> r, w |-> w]]
             /\ Goto(Parent, IF n = 1 THEN "prepare2" ELSE "fork")
    <2>0. free \subseteq Fds
      BY DEF Free
    <2>1. r \in free /\ w \in free \ {r}
      BY <1>2, <2>0, LowestTwo
    <2>2. r \in Fds /\ w \in Fds /\ r # w /\ fds[Parent][r] = Closed /\ fds[Parent][w] = Closed
      BY <2>1 DEF Free
    <2>3. Object("read", n) \in Objects /\ Object("write", n) \in Objects
      BY Things
    <2> HIDE DEF r, w, free
    <2>4. /\ fds' = [fds EXCEPT ![Parent] = [fds[Parent] EXCEPT ![r] = Object("read", n),
                                                               ![w] = Object("write", n)]]
      BY <1>2, <1>0, <2>2 DEF Tables
    <2>5. /\ fds'[Parent][r] = Object("read", n) /\ fds'[Parent][w] = Object("write", n)
          /\ \A i \in Fds \ {r, w} : fds'[Parent][i] = fds[Parent][i]
          /\ fds'[Child] = fds[Child] /\ fds' \in [Procs -> Tables]
      BY <2>4, <1>0, <2>2, <2>3 DEF Tables
    <2> QED BY <1>2, <2>2, <2>5, <1>0 DEF Captured, Goto, Prepare
  <1>3. CASE asked[n].kind = "capture" /\ FiniPipes(1..(n - 1)) /\ Failed(Parent) /\ UNCHANGED pipes
    <2>1. fds' = [fds EXCEPT ![Parent] = Close(fds[Parent], PipeFds(1..(n - 1)))]
      BY <1>3 DEF FiniPipes
    <2> QED BY <2>1, <1>0, <1>3, Things DEF Captured, Failed, Goto, Prepare
  <1> QED BY <1>1, <1>2, <1>3 DEF Prepare

\* What is in a table after child_connect was there before, or is a new file.
LEMMA ConnectedFrom ==
    ASSUME TypeOK, NEW n \in N, NEW table \in Tables, NEW t \in Connected(n, table)
    PROVE  /\ t \in Tables
           /\ \A i \in Fds : \/ t[i].what \in {"closed", "path", "once"}
                             \/ \E j \in Fds : t[i] = table[j]
  <1>0. asked[n] \in Streams /\ pipes[n].r \in Fds /\ pipes[n].w \in Fds
    BY DEF TypeOK, TypeOKProcess
  <1>1. asked[n].fd \in Fds /\ n \in Fds
    BY <1>0, AtfProcessAssumption DEF Streams, Fds, N
  <1>a. \A u \in Tables, old \in Fds :
            /\ SafeDup(u, old, n) \in Tables
            /\ \A i \in Fds : \/ SafeDup(u, old, n)[i].what = "closed"
                              \/ \E j \in Fds : SafeDup(u, old, n)[i] = u[j]
    <2> SUFFICES ASSUME NEW u \in Tables, NEW old \in Fds
                 PROVE  \A i \in Fds : \/ SafeDup(u, old, n)[i].what = "closed"
                                       \/ \E j \in Fds : SafeDup(u, old, n)[i] = u[j]
      BY <1>1, Things
    <2> QED BY <1>1 DEF SafeDup, Dup2, Close, Closed, Object, Tables
  <1>2. CASE asked[n].kind = "capture"
    <2>0. Close(table, {pipes[n].r}) \in Tables
      BY Things
    <2>1. t = SafeDup(Close(table, {pipes[n].r}), pipes[n].w, n)
      BY <1>2 DEF Connected, Moved
    <2>2. \A i \in Fds : \/ Close(table, {pipes[n].r})[i].what = "closed"
                         \/ Close(table, {pipes[n].r})[i] = table[i]
      BY DEF Close, Closed, Object
    <2>3. \A i \in Fds : \/ t[i].what = "closed"
                         \/ \E j \in Fds : t[i] = Close(table, {pipes[n].r})[j]
      BY <1>0, <1>a, <2>0, <2>1, Zenon
    <2>4. t \in Tables
      BY <1>0, <1>a, <2>0, <2>1, Zenon
    <2> QED BY <2>2, <2>3, <2>4
  <1>3. CASE asked[n].kind = "connect"
    <2>1. t = Dup2(table, asked[n].fd, n)
      BY <1>3 DEF Connected
    <2> QED BY <1>1, <2>1, Things DEF Dup2, Tables
  <1>4. CASE asked[n].kind = "inherit"
    BY <1>4 DEF Connected
  <1>5. CASE asked[n].kind = "redirect_fd"
    <2>1. t = SafeDup(table, asked[n].fd, n)
      BY <1>5 DEF Connected, Moved
    <2> QED BY <1>1, <1>a, <2>1
  <1>6. CASE asked[n].kind = "redirect_path"
    <2>1. \E what \in {"once", "path"} : t = [table EXCEPT ![n] = Object(what, n)]
      BY <1>6 DEF Connected, Opened
    <2>2. PICK what \in {"once", "path"} : t = [table EXCEPT ![n] = Object(what, n)]
      BY <2>1
    <2>3. Object(what, n) \in Objects /\ Object(what, n).what = what
      BY Things DEF Object
    <2>4. t \in Tables
      BY <1>1, <2>2, <2>3 DEF Tables
    <2>5. t[n] = Object(what, n) /\ \A i \in Fds \ {n} : t[i] = table[i]
      BY <1>1, <2>2 DEF Tables
    <2> QED BY <2>3, <2>4, <2>5
  <1>7. asked[n].kind \in {"capture", "connect", "inherit", "redirect_fd", "redirect_path"}
    BY <1>0 DEF Streams, Kinds
  <1> QED BY <1>2, <1>3, <1>4, <1>5, <1>6, <1>7

\* The child's table is t, and no other has changed.
LEMMA ChildTable ==
    ASSUME TypeOK, NEW t \in Tables, fds' = [fds EXCEPT ![Child] = t]
    PROVE  fds' \in [Procs -> Tables] /\ fds'[Child] = t /\ fds'[Parent] = fds[Parent]
  BY DEF TypeOK, TypeOKProcess, Tables, Procs, Parent, Child

LEMMA EndedTable ==
    ASSUME TypeOK, NEW how, Ended(how)
    PROVE  /\ fds' \in [Procs -> Tables] /\ fds'[Child] = [i \in Fds |-> Closed]
           /\ fds'[Parent] = fds[Parent]
           /\ pc'[Child] = "ended" /\ pc'[Parent] = pc[Parent] /\ pc' \in [Procs -> PCs]
           /\ end' = how
  <1>1. [i \in Fds |-> Closed] \in Tables
    BY Things DEF Tables
  <1>2. fds' = [fds EXCEPT ![Child] = [i \in Fds |-> Closed]]
    BY DEF Ended
  <1>3. pc' = [pc EXCEPT ![Child] = "ended"]
    BY DEF Ended, Goto
  <1>4. end' = how
    BY DEF Ended
  <1>5. pc'[Child] = "ended" /\ pc'[Parent] = pc[Parent] /\ pc' \in [Procs -> PCs]
    BY <1>3 DEF TypeOK, TypeOKProcess, Procs, Parent, Child, PCs
  <1> QED BY <1>1, <1>2, <1>4, <1>5, ChildTable

\* A step of the control alone.
LEMMA Going ==
    ASSUME TypeOK, NEW p \in Procs, NEW l \in PCs, Goto(p, l)
    PROVE  /\ pc' \in [Procs -> PCs] /\ pc'[p] = l
           /\ \A q \in Procs \ {p} : pc'[q] = pc[q]
  BY DEF Goto, TypeOK, TypeOKProcess

LEMMA ParentTable ==
    ASSUME TypeOK, NEW S, fds' = [fds EXCEPT ![Parent] = Close(@, S)]
    PROVE  /\ fds' \in [Procs -> Tables]
           /\ fds'[Parent] = Close(fds[Parent], S) /\ fds'[Child] = fds[Child]
  BY Things DEF TypeOK, TypeOKProcess, Tables, Procs, Parent, Child

-----------------------------------------------------------------------------
(* Types *)

LEMMA OffersTyped == \A n \in N : Offers(n) \subseteq Streams
  BY AtfProcessAssumption DEF Offers, Streams, Kinds, Inherit, Path, N

LEMMA CommandsTyped == {BuildCO, BuildCpp, BuildCxxO} \subseteq Seq(Words)
  <1>1. SrcOut \in Seq(Words) BY DEF SrcOut, Words
  <1>2. <<"CC", "CPPFLAGS", "CFLAGS", "optargs">> \in Seq(Words) BY DEF Words
  <1>3. <<"CXX", "CPPFLAGS", "CXXFLAGS", "optargs">> \in Seq(Words) BY DEF Words
  <1>4. BuildCpp \in Seq(Words) BY DEF BuildCpp, Words
  <1>5. BuildCO \in Seq(Words) BY <1>1, <1>2 DEF BuildCO
  <1>6. BuildCxxO \in Seq(Words) BY <1>1, <1>3 DEF BuildCxxO
  <1> QED BY <1>4, <1>5, <1>6

LEMMA TypesInit == Init => TypeOK
  <1> SUFFICES ASSUME Init PROVE TypeOK
    OBVIOUS
  <1>1. \A S \in SUBSET MayLack : Without(S) \in [Fds -> Objects]
    <2>1. \A o \in {"user"} : Object(o, 0) \in Objects
      BY DEF Object, Objects
    <2>2. Object("in", 0) \in Objects BY DEF Object, Objects
    <2> QED BY <2>1, <2>2, Things DEF Without
  <1>2. before \in [Fds -> Objects]
    BY <1>1 DEF Init, InitProcess
  <1>3. fds \in [Procs -> [Fds -> Objects]]
    BY <1>2, Things DEF Init, InitProcess
  <1>4. NoPipe \in [made : BOOLEAN, r : Fds, w : Fds]
    BY AtfProcessAssumption DEF NoPipe, Fds
  <1>5. Inherit \in Streams
    BY AtfProcessAssumption DEF Inherit, Streams, Kinds
  <1>6. text \in [{"std", "user", "path", "write"} -> [0..2 -> 0..MaxText]] /\ got \in [N -> [N -> 0..MaxText]]
    BY AtfProcessAssumption DEF Init, InitProcess
  <1>7. pc \in [Procs -> PCs] /\ intr \in 0..MaxIntr
    BY AtfProcessAssumption DEF Init, InitProcess, PCs
  <1>8. TypeOKProcess
    BY <1>2, <1>3, <1>4, <1>5, <1>6, <1>7 DEF TypeOKProcess, Init, InitProcess, Uses, Ends
  <1> QED BY <1>8 DEF TypeOK, Init

\* What changes in a step that is not the beginning of a call.
Shape ==
    /\ UNCHANGED <<use, asked, before>>
    /\ fds' \in [Procs -> Tables]
    /\ pipes' \in [N -> [made : BOOLEAN, r : Fds, w : Fds]]
    /\ kept' \in [N -> Fds \cup {-1}]
    /\ text' \in [{"std", "user", "path", "write"} -> [0..2 -> 0..MaxText]]
    /\ got' \in [N -> [N -> 0..MaxText]]
    /\ pc' \in [Procs -> PCs]
    /\ end' \in Ends /\ status' \in Ends /\ intr' \in 0..MaxIntr

LEMMA ShapeTyped ==
    ASSUME TypeOK, Shape, UNCHANGED argv, dir' \in {"none", "there", "gone"}, files' \in SUBSET N
    PROVE  TypeOK'
  BY DEF TypeOK, TypeOKProcess, Shape, Tables

LEMMA ParentShape ==
    ASSUME TypeOK, ParentSteps
    PROVE  Shape
  <1> USE DEF Procs
  <1>0. /\ pc \in [Procs -> PCs] /\ fds \in [Procs -> Tables]
    BY DEF TypeOK, TypeOKProcess, Tables
  <1>1. ASSUME NEW n \in N, Prepare(n) PROVE Shape
    <2>1. UNCHANGED <<use, asked, before, kept, text, got, end, status, intr>>
      BY <1>1 DEF Prepare, Steady, Traffic, Fate
    <2>2. fds' \in [Procs -> Tables] /\ pipes' \in [N -> [made : BOOLEAN, r : Fds, w : Fds]]
      <3>1. fds' \in [Procs -> Tables]
        BY <1>1, Prepared
      <3>2. pipes \in [N -> [made : BOOLEAN, r : Fds, w : Fds]]
        BY DEF TypeOK, TypeOKProcess
      <3>3. \/ UNCHANGED pipes
            \/ \E r, w \in Fds : pipes' = [pipes EXCEPT ![n] = [made |-> TRUE, r |-> r, w |-> w]]
        BY <1>1, Prepared
      <3>4. ASSUME NEW r \in Fds, NEW w \in Fds,
                   pipes' = [pipes EXCEPT ![n] = [made |-> TRUE, r |-> r, w |-> w]]
            PROVE  pipes' \in [N -> [made : BOOLEAN, r : Fds, w : Fds]]
        <4> DEFINE pipe == [made |-> TRUE, r |-> r, w |-> w]
        <4>1. pipe \in [made : BOOLEAN, r : Fds, w : Fds]
          OBVIOUS
        <4> HIDE DEF pipe
        <4>2. pipes' = [pipes EXCEPT ![n] = pipe]
          BY <3>4 DEF pipe
        <4> QED BY <3>2, <4>1, <4>2
      <3> QED BY <3>1, <3>2, <3>3, <3>4, Zenon
    <2>3. pc' \in [Procs -> PCs]
      BY <1>0, <1>1 DEF Prepare, Goto, Failed, PCs
    <2> QED BY <2>1, <2>2, <2>3 DEF Shape, TypeOK, TypeOKProcess
  <1>2. ASSUME NEW n \in N, Read(n) PROVE Shape
    <2> DEFINE m == Source(n).of
    <2>0. got \in [N -> [N -> 0..MaxText]] /\ got' = [got EXCEPT ![n] = [got[n] EXCEPT ![m] = @ + 1]]
      BY <1>2 DEF Read, TypeOK, TypeOKProcess
    <2>1. m \in N => got[n][m] + 1 \in 0..MaxText
      <3>1. \A k \in N : /\ text["write"][k] \in 0..MaxText
                         /\ got[1][k] \in 0..MaxText /\ got[2][k] \in 0..MaxText
        <4>1. 1 \in N /\ 2 \in N /\ N \subseteq 0..2
          BY DEF N
        <4>2. text["write"] \in [0..2 -> 0..MaxText]
          BY DEF TypeOK, TypeOKProcess
        <4> QED BY <2>0, <4>1, <4>2
      <3>2. text["write"][m] - (got[1][m] + got[2][m]) > 0
        BY <1>2 DEF Read, Held
      <3> QED BY <3>1, <3>2, AtfProcessAssumption DEF N
    <2> HIDE DEF m
    <2>a. [got[n] EXCEPT ![m] = @ + 1] \in [N -> 0..MaxText]
      BY <2>0, <2>1
    <2>2. got' \in [N -> [N -> 0..MaxText]]
      BY <2>0, <2>a
    <2> QED BY <1>0, <1>2, <2>2 DEF Read, Shape, TypeOK, TypeOKProcess, Steady, Fate
  <1>3. ASSUME Fork PROVE Shape
    <2>1. UNCHANGED <<use, asked, before, pipes, kept, text, got, end, status, intr>>
      BY <1>3 DEF Fork, Steady, Traffic, Fate
    <2>2. fds' \in [Procs -> Tables] /\ pc' \in [Procs -> PCs]
      <3>1. CASE /\ pc' = [pc EXCEPT ![Parent] = "connect", ![Child] = "child1"]
                 /\ fds' = [fds EXCEPT ![Child] = fds[Parent]]
        BY <1>0, <3>1 DEF PCs
      <3>2. CASE FiniPipes(N) /\ Failed(Parent)
        BY <1>0, <3>2, ParentTable DEF FiniPipes, Failed, Goto, PCs
      <3> QED BY <1>3, <3>1, <3>2 DEF Fork
    <2> QED BY <2>1, <2>2 DEF Shape, TypeOK, TypeOKProcess
  <1>4. ASSUME DoParent PROVE Shape
    <2>1. UNCHANGED <<use, asked, before, pipes, text, got, end, status, intr>>
      BY <1>4 DEF DoParent, Steady, Traffic, Fate
    <2>2. fds' \in [Procs -> Tables]
      BY <1>4, ParentTable DEF DoParent
    <2>3. pc' \in [Procs -> PCs]
      BY <1>0, <1>4 DEF DoParent, Goto, PCs
    <2>4. kept' \in [N -> Fds \cup {-1}]
      BY <1>4 DEF DoParent, TypeOK, TypeOKProcess
    <2> QED BY <2>1, <2>2, <2>3, <2>4 DEF Shape, TypeOK, TypeOKProcess
  <1>5. ASSUME ReadAll \/ Unwind PROVE Shape
    <2>1. pc' \in [Procs -> PCs]
      BY <1>0, <1>5 DEF ReadAll, Unwind, Goto, PCs
    <2> QED BY <1>0, <1>5, <2>1 DEF ReadAll, Unwind, Shape, TypeOK, TypeOKProcess, Steady, Fate, Traffic
  <1>6. ASSUME Wait \/ Reap PROVE Shape
    <2>1. \E l \in {"done", "error"} : Reaped(l)
      BY <1>6 DEF Wait, Reap
    <2>2. fds' \in [Procs -> Tables]
      BY <2>1, ParentTable DEF Reaped
    <2>3. pc' \in [Procs -> PCs]
      BY <1>0, <2>1 DEF Reaped, Goto, PCs
    <2> QED BY <2>1, <2>2, <2>3 DEF Reaped, Shape, TypeOK, TypeOKProcess, Steady, Traffic
  <1>7. ASSUME WaitInterrupted \/ ReapInterrupted PROVE Shape
    <2>1. pc' \in [Procs -> PCs]
      BY <1>0, <1>7 DEF WaitInterrupted, ReapInterrupted, Failed, Goto, PCs
    <2>2. intr' \in 0..MaxIntr
      <3>1. intr < MaxIntr /\ intr' = intr + 1
        BY <1>7 DEF WaitInterrupted, ReapInterrupted
      <3>2. intr \in 0..MaxIntr /\ MaxIntr \in Nat
        BY AtfProcessAssumption DEF TypeOK, TypeOKProcess
      <3> QED BY <3>1, <3>2
    <2> QED BY <1>0, <1>7, <2>1, <2>2
            DEF WaitInterrupted, ReapInterrupted, Shape, TypeOK, TypeOKProcess, Steady, Traffic
  <1>8. ASSUME KillChild PROVE Shape
    <2>1. pc' \in [Procs -> PCs]
      BY <1>0, <1>8 DEF KillChild, Goto, PCs
    <2>2. fds' \in [Procs -> Tables]
      <3>1. [i \in Fds |-> Closed] \in Tables
        BY Things DEF Tables
      <3>2. \/ UNCHANGED fds
            \/ fds' = [fds EXCEPT ![Child] = [i \in Fds |-> Closed]]
        BY <1>8 DEF KillChild
      <3> QED BY <1>0, <3>1, <3>2
    <2> QED BY <1>8, <2>1, <2>2 DEF KillChild, Shape, TypeOK, TypeOKProcess, Steady, Traffic, Ends
  <1> QED BY <1>1, <1>2, <1>3, <1>4, <1>5, <1>6, <1>7, <1>8 DEF ParentSteps

LEMMA ChildShape ==
    ASSUME TypeOK, ChildSteps
    PROVE  Shape /\ UNCHANGED <<argv, dir>> /\ files' \in SUBSET N
  <1>0. /\ pc \in [Procs -> PCs] /\ fds \in [Procs -> Tables]
        /\ Child \in Procs /\ {"bad", "ok", "signal"} \subseteq Ends
    BY DEF TypeOK, TypeOKProcess, Tables, Procs, Ends
  <1>1. ASSUME NEW n \in N, ConnectOk(n) PROVE Shape
    <2>1. fds' \in [Procs -> Tables]
      BY <1>0, <1>1, ConnectedFrom, ChildTable DEF ConnectOk
    <2>2. pc' \in [Procs -> PCs]
      BY <1>0, <1>1 DEF ConnectOk, Goto, PCs
    <2> QED BY <1>1, <2>1, <2>2 DEF ConnectOk, Shape, TypeOK, TypeOKProcess, Steady, Traffic, Fate
  <1>2. ASSUME NEW n \in N, ConnectFails(n) PROVE Shape
    <2>1. Ended("bad") /\ UNCHANGED <<use, asked, before, pipes, kept, text, got, status, intr>>
      BY <1>2 DEF ConnectFails, Steady, Traffic
    <2> QED BY <2>1, <1>0, EndedTable DEF Shape, TypeOK, TypeOKProcess
  <1>3. ASSUME Start PROVE Shape
    <2>1. UNCHANGED <<use, asked, before, pipes, kept, text, got, status, intr>>
      BY <1>3 DEF Start, Steady, Traffic
    <2>2. CASE Goto(Child, "running") /\ UNCHANGED end
                /\ fds' = [fds EXCEPT ![Child] = [i \in Fds |-> Started(@[i])]]
      <3>1. \A o \in Objects : Started(o) \in Objects
        BY Things DEF Started, Objects, Object
      <3>2. [i \in Fds |-> Started(fds[Child][i])] \in Tables
        BY <1>0, <3>1 DEF Tables
      <3>3. fds' \in [Procs -> Tables]
        BY <1>0, <2>2, <3>2
      <3>4. pc' \in [Procs -> PCs]
        BY <1>0, <2>2 DEF Goto, PCs
      <3> QED BY <2>1, <2>2, <3>3, <3>4 DEF Shape, TypeOK, TypeOKProcess
    <2>3. CASE Ended("bad")
      BY <2>1, <2>3, <1>0, EndedTable DEF Shape, TypeOK, TypeOKProcess
    <2> QED BY <1>3, <2>2, <2>3 DEF Start
  <1>4. ASSUME NEW n \in N, Write(n) PROVE Shape
    <2> DEFINE o == fds[Child][n]
    <2>0. o \in Objects
      BY <1>0, AtfProcessAssumption DEF Tables, N, Fds
    <2>1. UNCHANGED <<use, asked, before, pipes, kept, got, status, intr>>
      BY <1>4 DEF Write, Steady
    <2>2. CASE /\ text[o.what][o.of] < MaxText
               /\ text' = [text EXCEPT ![o.what][o.of] = @ + 1] /\ UNCHANGED <<fds, pc, end>>
      <3>1. o.what \in {"std", "user", "path", "write"} /\ o.of \in 0..2
        BY <1>4, <2>0 DEF Write, Objects
      <3>2. text[o.what][o.of] + 1 \in 0..MaxText
        <4>1. text[o.what][o.of] \in 0..MaxText
          BY <3>1 DEF TypeOK, TypeOKProcess
        <4> QED BY <2>2, <4>1, AtfProcessAssumption
      <3>3. text' \in [{"std", "user", "path", "write"} -> [0..2 -> 0..MaxText]]
        BY <2>2, <3>1, <3>2 DEF TypeOK, TypeOKProcess
      <3> QED BY <1>0, <2>1, <2>2, <3>3 DEF Shape, TypeOK, TypeOKProcess
    <2>3. CASE Ended("signal") /\ UNCHANGED text
      BY <2>1, <2>3, <1>0, EndedTable DEF Shape, TypeOK, TypeOKProcess
    <2> QED BY <1>4, <2>2, <2>3 DEF Write
  <1>5. ASSUME ProgramEnds PROVE Shape
    <2>1. PICK how \in {"ok", "bad", "signal"} : Ended(how)
      BY <1>5 DEF ProgramEnds
    <2>2. UNCHANGED <<use, asked, before, pipes, kept, text, got, status, intr>>
      BY <1>5 DEF ProgramEnds, Steady, Traffic
    <2> QED BY <2>1, <2>2, <1>0, EndedTable DEF Shape, TypeOK, TypeOKProcess
  <1>6. ASSUME NEW n \in N, ChildConnects(n)
        PROVE  Shape /\ UNCHANGED <<argv, dir>> /\ files' \in SUBSET N
    BY <1>1, <1>2, <1>6 DEF ChildConnects, TypeOK
  <1>7. ASSUME (Start \/ (\E n \in N : Write(n)) \/ ProgramEnds) /\ UNCHANGED tmp
        PROVE  Shape /\ UNCHANGED <<argv, dir>> /\ files' \in SUBSET N
    BY <1>3, <1>4, <1>5, <1>7 DEF tmp, TypeOK
  <1> QED BY <1>6, <1>7 DEF ChildSteps

\* The beginning of a call.
Begins == BeginFork \/ BeginExec \/ BeginBuild \/ BeginCheck

\* The steps around AtfProcess.
Around == Mkdtemp \/ ResultInit \/ ResultFini \/ (\E n \in N : Unlink(n)) \/ Rmdir

LEMMA BeginsTyped ==
    ASSUME TypeOK, Begins
    PROVE  TypeOK'
  <1>0. pc \in [Procs -> PCs] /\ Parent \in Procs
    BY DEF TypeOK, TypeOKProcess, Procs
  <1>1. asked' \in [N -> Streams]
    BY OffersTyped DEF Begins, BeginFork, BeginExec, BeginBuild, BeginCheck, Offers, N
  <1>2. use' \in Uses
    BY DEF Begins, BeginFork, BeginExec, BeginBuild, BeginCheck, Uses
  <1>3. pc' \in [Procs -> PCs]
    BY <1>0 DEF Begins, BeginFork, BeginExec, BeginBuild, BeginCheck, Goto, PCs
  <1>4. argv' \in Seq(Words)
    BY CommandsTyped DEF Begins, BeginFork, BeginExec, BeginBuild, BeginCheck, tmp, TypeOK
  <1>5. UNCHANGED <<before, fds, pipes, kept, text, got, end, status, intr, dir, files>>
    BY DEF Begins, BeginFork, BeginExec, BeginBuild, BeginCheck, tmp
  <1> QED BY <1>1, <1>2, <1>3, <1>4, <1>5 DEF TypeOK, TypeOKProcess

LEMMA AroundTyped ==
    ASSUME TypeOK, Around
    PROVE  /\ TypeOK' /\ Shape
           /\ UNCHANGED <<use, asked, before, fds, pipes, kept, text, got, end, status, intr, argv>>
           /\ pc'[Child] = pc[Child]
  <1>0. pc \in [Procs -> PCs] /\ Parent \in Procs /\ Child \in Procs /\ Parent # Child
    BY DEF TypeOK, TypeOKProcess, Procs, Parent, Child
  <1>1. pc' \in [Procs -> PCs] /\ pc'[Child] = pc[Child]
    BY <1>0 DEF Around, Mkdtemp, ResultInit, ResultFini, Unlink, Rmdir, Goto, PCs
  <1>2. UNCHANGED <<use, asked, before, fds, pipes, kept, text, got, end, status, intr, argv>>
    BY DEF Around, Mkdtemp, ResultInit, ResultFini, Unlink, Rmdir, Rest, tmp
  <1>3. dir' \in {"none", "there", "gone"} /\ files' \in SUBSET N
    BY DEF Around, Mkdtemp, ResultInit, ResultFini, Unlink, Rmdir, tmp, TypeOK
  <1>4. Shape
    BY <1>1, <1>2 DEF Shape, TypeOK, TypeOKProcess, Tables
  <1> QED BY <1>1, <1>2, <1>3, <1>4, ShapeTyped

LEMMA TypesKept ==
    ASSUME TypeOK, [Next]_vars
    PROVE  TypeOK'
  <1>1. CASE Begins
    BY <1>1, BeginsTyped
  <1>2. CASE Around
    BY <1>2, AroundTyped
  <1>3. CASE ParentSteps /\ UNCHANGED tmp
    BY <1>3, ParentShape, ShapeTyped DEF tmp, TypeOK
  <1>4. CASE ChildSteps
    BY <1>4, ChildShape, ShapeTyped DEF TypeOK
  <1>5. CASE UNCHANGED vars
    BY <1>5 DEF vars, TypeOK, TypeOKProcess
  <1> QED BY <1>1, <1>2, <1>3, <1>4, <1>5 DEF Next, CallerSteps, Begins, Around

-----------------------------------------------------------------------------
(* Control *)

LEMMA AskingKept ==
    ASSUME TypeOK, Asking, [Next]_vars
    PROVE  Asking'
  <1>0. pc \in [Procs -> PCs] /\ Parent \in Procs /\ Child \in Procs /\ Parent # Child
    BY DEF TypeOK, TypeOKProcess, Procs, Parent, Child
  <1>1. ASSUME Begins PROVE Asking'
    <2>1. pc[Parent] = "idle" /\ use = "none"
      BY <1>1 DEF Begins, BeginFork, BeginExec, BeginBuild, BeginCheck, Asking
    <2>2. \A n \in N : Inherit \in Offers(n) /\ Path \in Offers(n)
      BY DEF Offers
    <2>3. CASE BeginFork
      <3>1. PICK a \in Offers(1), b \in Offers(2) : asked' = [n \in N |-> IF n = 1 THEN a ELSE b]
        BY <2>3 DEF BeginFork
      <3>2. \A n \in N : asked'[n] \in Offers(n)
        BY <3>1 DEF N
      <3>3. use' = "fork" /\ pc'[Parent] = "prepare1"
        BY <2>3, <1>0 DEF BeginFork, Goto
      <3> QED BY <3>2, <3>3 DEF Asking, Clearing, Offers
    <2>4. CASE BeginExec
      <3>1. PICK a \in Offers(1), b \in Offers(2) :
                /\ a.kind # "capture" /\ b.kind # "capture"
                /\ asked' = [n \in N |-> IF n = 1 THEN a ELSE b]
        BY <2>4 DEF BeginExec
      <3>2. \A n \in N : asked'[n] \in Offers(n) /\ asked'[n].kind # "capture"
        BY <3>1 DEF N
      <3>3. use' = "exec" /\ pc'[Parent] = "prepare1"
        BY <2>4, <1>0 DEF BeginExec, Goto
      <3> QED BY <3>2, <3>3 DEF Asking, Clearing, Offers, Captured
    <2>5. CASE BeginBuild
      <3>1. use' = "build" /\ asked' = [n \in N |-> Inherit] /\ pc'[Parent] \in {"prepare1", "error"}
        BY <2>5, <1>0 DEF BeginBuild, Goto
      <3> QED BY <2>2, <3>1 DEF Asking, Clearing, Offers, Captured, Inherit
    <2>6. CASE BeginCheck
      <3>1. use' = "check" /\ asked' = [n \in N |-> Path] /\ pc'[Parent] = "mkdtemp"
        BY <2>6, <1>0 DEF BeginCheck, Goto
      <3> QED BY <2>2, <3>1 DEF Asking, Clearing, Offers, Captured, Path
    <2> QED BY <1>1, <2>3, <2>4, <2>5, <2>6 DEF Begins
  <1>2. ASSUME UNCHANGED <<use, asked>>,
               pc[Parent] # "idle",
               /\ pc'[Parent] # "idle"
               /\ pc'[Parent] \in {"mkdtemp", "init"} \cup Clearing => use = "check"
               /\ pc'[Parent] \in {"reading", "unwind", "reap"} => use = "fork"
        PROVE  Asking'
    BY <1>2 DEF Asking, Offers, Captured
  <1>3. ASSUME Around PROVE Asking'
    <2>1. UNCHANGED <<use, asked>>
      BY <1>3, AroundTyped
    <2>2. use = "check" /\ pc[Parent] # "idle"
      BY <1>3 DEF Around, Mkdtemp, ResultInit, ResultFini, Unlink, Rmdir, Asking, Clearing
    <2>3. pc'[Parent] \in {"init", "error", "prepare1", "unlink1", "unlink2", "rmdir", "finished",
                       "abort"}
      BY <1>0, <1>3 DEF Around, Mkdtemp, ResultInit, ResultFini, Unlink, Rmdir, Goto
    <2> QED BY <1>2, <2>1, <2>2, <2>3
  <1>4. ASSUME ParentSteps PROVE Asking'
    <2>0. UNCHANGED <<use, asked>>
      BY <1>4, ParentShape DEF Shape
    <2>1. pc[Parent] # "idle"
      BY <1>4 DEF ParentSteps, Prepare, Read, Fork, DoParent, ReadAll, Wait, WaitInterrupted,
                  Unwind, KillChild, Reap, ReapInterrupted, Reaped, N
    <2>2. ASSUME NEW n \in N, Prepare(n)
          PROVE  pc'[Parent] \in {"prepare2", "fork", IF use = "check" THEN "unlink1" ELSE "error"}
      BY <2>2, Prepared
    <2>3. Fork => pc'[Parent] \in {"connect", IF use = "check" THEN "unlink1" ELSE "error"}
      BY <1>0 DEF Fork, Failed, Goto
    <2>4. DoParent => pc'[Parent] = IF use = "fork" THEN "reading" ELSE "wait"
      BY <1>0 DEF DoParent, Goto
    <2>5. Wait \/ Reap => pc'[Parent] \in {"done", "error"}
      BY <1>0 DEF Wait, Reap, Reaped, Goto
    <2>6. WaitInterrupted => \/ pc'[Parent] \in {"wait", IF use = "check" THEN "unlink1" ELSE "error"}
                             \/ use = "fork" /\ pc'[Parent] = "unwind"
      BY <1>0 DEF WaitInterrupted, Failed, Goto
    <2>7. KillChild \/ Unwind \/ ReadAll => use = "fork" /\ pc'[Parent] \in {"reap", "unwind", "wait"}
      BY <1>0 DEF KillChild, Unwind, ReadAll, Goto, Asking
    <2>8. ReapInterrupted => pc'[Parent] = "abort"
      BY <1>0 DEF ReapInterrupted, Goto
    <2>9. \A n \in N : Read(n) => pc' = pc
      BY DEF Read
    <2>10. /\ pc'[Parent] # "idle"
           /\ pc'[Parent] \in {"mkdtemp", "init"} \cup Clearing => use = "check"
           /\ pc'[Parent] \in {"reading", "unwind", "reap"} => use = "fork"
      BY <1>4, <2>1, <2>2, <2>3, <2>4, <2>5, <2>6, <2>7, <2>8, <2>9 DEF ParentSteps, Asking, Clearing
    <2> QED BY <1>2, <2>0, <2>1, <2>10
  <1>5. ASSUME UNCHANGED <<use, asked>>, pc'[Parent] = pc[Parent] PROVE Asking'
    BY <1>5 DEF Asking, Offers, Captured
  <1>6. ASSUME ChildSteps PROVE pc'[Parent] = pc[Parent] /\ UNCHANGED <<use, asked>>
    <2>1. UNCHANGED <<use, asked>>
      BY <1>6, ChildShape DEF Shape
    <2>2. \A how : Ended(how) => pc'[Parent] = pc[Parent]
      BY EndedTable
    <2> QED BY <1>0, <1>6, <2>1, <2>2
            DEF ChildSteps, ChildConnects, ConnectOk, ConnectFails, Start, Write, ProgramEnds, Goto
  <1> QED BY <1>1, <1>3, <1>4, <1>5, <1>6 DEF Next, CallerSteps, Begins, Around, vars

\* Where the child goes.
LEMMA ChildGoes ==
    ASSUME TypeOK, ChildSteps
    PROVE  /\ pc'[Parent] = pc[Parent] /\ fds'[Parent] = fds[Parent] /\ UNCHANGED status
           /\ \/ /\ pc'[Child] = "ended" /\ end' \in {"ok", "bad", "signal"}
                 /\ fds'[Child] = [i \in Fds |-> Closed]
                 /\ end' = "ok" => pc[Child] = "running"
                 /\ pc[Child] \in {"child1", "child2", "start", "running"}
              \/ /\ <<pc[Child], pc'[Child]>> \in {<<"child1", "child2">>, <<"child2", "start">>,
                        <<"start", "running">>, <<"running", "running">>}
                 /\ UNCHANGED end
  <1>0. pc \in [Procs -> PCs] /\ Parent \in Procs /\ Child \in Procs /\ Parent # Child
    BY DEF TypeOK, TypeOKProcess, Procs, Parent, Child
  <1>1. \A how : Ended(how) => /\ pc'[Parent] = pc[Parent] /\ fds'[Parent] = fds[Parent]
                               /\ pc'[Child] = "ended" /\ end' = how
                               /\ fds'[Child] = [i \in Fds |-> Closed]
    BY EndedTable
  <1>2. ASSUME NEW n \in N, ConnectOk(n)
        PROVE  /\ pc'[Parent] = pc[Parent] /\ fds'[Parent] = fds[Parent] /\ UNCHANGED <<status, end>>
               /\ <<pc[Child], pc'[Child]>> \in {<<"child1", "child2">>, <<"child2", "start">>}
    <2>1. fds'[Parent] = fds[Parent]
      BY <1>2, ConnectedFrom, ChildTable DEF ConnectOk, TypeOK, TypeOKProcess, Tables, Procs
    <2> QED BY <1>0, <1>2, <2>1 DEF ConnectOk, Goto, Fate
  <1>3. ASSUME Start
        PROVE  /\ pc'[Parent] = pc[Parent] /\ fds'[Parent] = fds[Parent] /\ UNCHANGED status
               /\ pc[Child] = "start"
               /\ \/ pc'[Child] = "running" /\ UNCHANGED end
                  \/ pc'[Child] = "ended" /\ end' = "bad" /\ fds'[Child] = [i \in Fds |-> Closed]
    BY <1>0, <1>1, <1>3 DEF Start, Goto, TypeOK, TypeOKProcess
  <1>4. ASSUME NEW n \in N, Write(n)
        PROVE  /\ pc'[Parent] = pc[Parent] /\ fds'[Parent] = fds[Parent] /\ UNCHANGED status
               /\ pc[Child] = "running"
               /\ \/ pc'[Child] = "running" /\ UNCHANGED end
                  \/ pc'[Child] = "ended" /\ end' = "signal" /\ fds'[Child] = [i \in Fds |-> Closed]
    BY <1>1, <1>4 DEF Write
  <1>5. ASSUME ProgramEnds
        PROVE  /\ pc'[Parent] = pc[Parent] /\ fds'[Parent] = fds[Parent] /\ UNCHANGED status
               /\ pc[Child] = "running" /\ pc'[Child] = "ended" /\ end' \in {"ok", "bad", "signal"}
               /\ fds'[Child] = [i \in Fds |-> Closed]
    BY <1>1, <1>5 DEF ProgramEnds
  <1>6. ASSUME NEW n \in N, ConnectFails(n)
        PROVE  /\ pc'[Parent] = pc[Parent] /\ fds'[Parent] = fds[Parent] /\ UNCHANGED status
               /\ pc[Child] \in {"child1", "child2"} /\ pc'[Child] = "ended" /\ end' = "bad"
               /\ fds'[Child] = [i \in Fds |-> Closed]
    BY <1>1, <1>6 DEF ConnectFails
  <1>7. \/ (\E n \in N : ConnectOk(n)) \/ Start \/ (\E n \in N : Write(n)) \/ ProgramEnds
        \/ \E n \in N : ConnectFails(n)
    BY DEF ChildSteps, ChildConnects
  <1> QED BY <1>2, <1>3, <1>4, <1>5, <1>6, <1>7

\* Where the parent goes.
LEMMA ParentGoes ==
    ASSUME TypeOK, Asking, Living, ParentSteps
    PROVE  LET from(l) == pc[Parent] = l
               to(l) == pc'[Parent] = l
               same == pc'[Child] = pc[Child] /\ UNCHANGED end
               failed == to(IF use = "check" THEN "unlink1" ELSE "error")
           IN \/ /\ from("prepare1") \/ from("prepare2") \/ from("fork")
                 /\ same /\ UNCHANGED <<status, intr>>
                 /\ \/ failed
                    \/ from("prepare1") /\ to("prepare2")
                    \/ from("prepare2") /\ to("fork")
              \/ /\ from("fork") /\ to("connect") /\ pc'[Child] = "child1"
                 /\ UNCHANGED <<end, status, intr>>
              \/ /\ from("connect") /\ to(IF use = "fork" THEN "reading" ELSE "wait")
                 /\ same /\ UNCHANGED <<status, intr>>
              \/ /\ from("reading") /\ (to("reading") \/ to("wait") \/ to("unwind"))
                 /\ same /\ UNCHANGED <<status, intr>>
              \/ /\ from("wait") \/ from("reap")
                 /\ to(IF from("wait") THEN "done" ELSE "error")
                 /\ pc[Child] = "ended" /\ status' = end
                 /\ same /\ UNCHANGED intr
              \/ /\ from("wait") /\ same /\ intr' = intr + 1 /\ UNCHANGED status
                 /\ \/ to("wait") /\ use = "exec"
                    \/ failed /\ use \in {"check", "build"}
                    \/ to("unwind") /\ use = "fork"
              \/ /\ from("unwind") /\ to("reap") /\ UNCHANGED <<status, intr>>
                 /\ \/ pc[Child] # "ended" /\ pc'[Child] = "ended" /\ end' = "signal"
                    \/ same
              \/ from("reap") /\ to("abort") /\ intr' = intr + 1 /\ same /\ UNCHANGED status
  <1>0. pc \in [Procs -> PCs] /\ Parent \in Procs /\ Child \in Procs /\ Parent # Child
    BY DEF TypeOK, TypeOKProcess, Procs, Parent, Child
  <1>1. ASSUME NEW n \in N, Prepare(n)
        PROVE  /\ pc[Parent] = IF n = 1 THEN "prepare1" ELSE "prepare2"
               /\ pc'[Child] = pc[Child] /\ UNCHANGED <<end, status, intr>>
               /\ \/ pc'[Parent] = IF n = 1 THEN "prepare2" ELSE "fork"
                  \/ pc'[Parent] = IF use = "check" THEN "unlink1" ELSE "error"
    <2>1. UNCHANGED <<end, status, intr>>
      BY <1>1 DEF Prepare, Fate
    <2> QED BY <1>1, <2>1, Prepared
  <1>2. ASSUME Fork
        PROVE  /\ pc[Parent] = "fork" /\ UNCHANGED <<end, status, intr>>
               /\ \/ pc'[Parent] = "connect" /\ pc'[Child] = "child1"
                  \/ /\ pc'[Parent] = IF use = "check" THEN "unlink1" ELSE "error"
                     /\ pc'[Child] = pc[Child]
    BY <1>0, <1>2 DEF Fork, Failed, Goto, Fate
  <1>3. ASSUME DoParent
        PROVE  /\ pc[Parent] = "connect" /\ pc'[Parent] = IF use = "fork" THEN "reading" ELSE "wait"
               /\ pc'[Child] = pc[Child] /\ UNCHANGED <<end, status, intr>>
    BY <1>0, <1>3 DEF DoParent, Goto, Fate
  <1>4. ASSUME NEW n \in N, Read(n)
        PROVE  pc[Parent] = "reading" /\ pc' = pc /\ UNCHANGED <<end, status, intr>>
    BY <1>4 DEF Read, Fate
  <1>5. ASSUME ReadAll \/ Unwind
        PROVE  /\ pc[Parent] = "reading" /\ pc'[Parent] \in {"wait", "unwind"}
               /\ pc'[Child] = pc[Child] /\ UNCHANGED <<end, status, intr>>
    BY <1>0, <1>5 DEF ReadAll, Unwind, Goto, Fate
  <1>6. ASSUME Wait \/ Reap
        PROVE  /\ pc[Parent] \in {"wait", "reap"}
               /\ pc'[Parent] = IF pc[Parent] = "wait" THEN "done" ELSE "error"
               /\ pc[Child] = "ended" /\ status' = end
               /\ pc'[Child] = pc[Child] /\ UNCHANGED <<end, intr>>
    BY <1>0, <1>6 DEF Wait, Reap, Reaped, Goto
  <1>7. ASSUME WaitInterrupted
        PROVE  /\ pc[Parent] = "wait" /\ intr' = intr + 1 /\ UNCHANGED <<end, status>>
               /\ pc'[Child] = pc[Child]
               /\ \/ pc'[Parent] = "wait" /\ use = "exec"
                  \/ /\ pc'[Parent] = IF use = "check" THEN "unlink1" ELSE "error"
                     /\ use \in {"check", "build"}
                  \/ pc'[Parent] = "unwind" /\ use = "fork"
    BY <1>0, <1>7 DEF WaitInterrupted, Failed, Goto
  <1>8. ASSUME KillChild
        PROVE  /\ pc[Parent] = "unwind" /\ pc'[Parent] = "reap" /\ UNCHANGED <<status, intr>>
               /\ \/ pc[Child] # "ended" /\ pc'[Child] = "ended" /\ end' = "signal"
                  \/ pc'[Child] = pc[Child] /\ UNCHANGED end
    BY <1>0, <1>8 DEF KillChild, Goto
  <1>9. ASSUME ReapInterrupted
        PROVE  /\ pc[Parent] = "reap" /\ pc'[Parent] = "abort" /\ intr' = intr + 1
               /\ pc'[Child] = pc[Child] /\ UNCHANGED <<end, status>>
    BY <1>0, <1>9 DEF ReapInterrupted, Goto
  <1> QED BY <1>1, <1>2, <1>3, <1>4, <1>5, <1>6, <1>7, <1>8, <1>9 DEF ParentSteps, N

LEMMA AroundGoes ==
    ASSUME TypeOK, Around
    PROVE  \/ pc[Parent] = "mkdtemp" /\ pc'[Parent] \in {"init", "error"}
           \/ pc[Parent] = "init" /\ pc'[Parent] \in {"prepare1", "error"}
           \/ pc[Parent] = "done" /\ pc'[Parent] = "unlink1"
           \/ pc[Parent] = "unlink1" /\ pc'[Parent] = "unlink2"
           \/ pc[Parent] = "unlink2" /\ pc'[Parent] = "rmdir"
           \/ /\ pc[Parent] = "rmdir" /\ pc'[Parent] \in {"finished", "error", "abort"}
              /\ pc'[Parent] = "finished" => status # "none"
  BY DEF TypeOK, TypeOKProcess, Procs, Around, Mkdtemp, ResultInit, ResultFini, Unlink, Rmdir, Goto, N

LEMMA BeginsGoes ==
    ASSUME TypeOK, Begins
    PROVE  /\ pc[Parent] = "idle" /\ pc'[Parent] \in {"mkdtemp", "prepare1", "error"}
           /\ pc'[Parent] = "mkdtemp" <=> use' = "check"
           /\ pc'[Child] = pc[Child]
           /\ UNCHANGED <<before, fds, pipes, kept, text, got, end, status, intr, dir, files>>
  BY DEF TypeOK, TypeOKProcess, Procs, Parent, Child, Begins, BeginFork, BeginExec, BeginBuild,
         BeginCheck, Goto, tmp

LEMMA LivingKept ==
    ASSUME TypeOK, Asking, Living, [Next]_vars
    PROVE  Living'
  <1> USE DEF Living, Early, Preparing, Attached, Clearing, Over, ChildPCs
  <1>1. CASE Begins
    BY <1>1, BeginsGoes
  <1>2. CASE Around
    BY <1>2, AroundGoes, AroundTyped
  <1>3. CASE ParentSteps
    BY <1>3, ParentGoes
  <1>4. CASE ChildSteps
    BY <1>4, ChildGoes
  <1>5. CASE UNCHANGED vars
    BY <1>5 DEF vars
  <1> QED BY <1>1, <1>2, <1>3, <1>4, <1>5 DEF Next, CallerSteps, Begins, Around

-----------------------------------------------------------------------------
(* The caller's descriptors *)

LEMMA SameTable ==
    ASSUME TypeOK, NEW t \in Tables, \A i \in Fds : t[i] = before[i]
    PROVE  t = before
  BY DEF TypeOK, TypeOKProcess, Tables

\* What Table says of the parent is as it was, where it goes on in the same part.
LEMMA TableSame ==
    ASSUME TypeOK, Table, UNCHANGED <<asked, before, pipes, kept>>,
           fds'[Parent] = fds[Parent],
           pc'[Parent] \in Preparing => pc[Parent] \in Preparing,
           pc'[Parent] \in Early => pc[Parent] \in Early,
           pc'[Parent] = "prepare2" => pc[Parent] = "prepare2",
           pc'[Parent] \in {"fork", "connect"} \cup Attached \/ pc'[Child] # "unborn" =>
                pc[Parent] \in {"fork", "connect"} \cup Attached \/ pc[Child] # "unborn",
           pc'[Parent] \in Attached => pc[Parent] \in Attached,
           pc'[Parent] \in Over => pc[Parent] \in Over \/ fds[Parent] = before
    PROVE  Table'
  <1>1. Captured(1)' = Captured(1) /\ Captured(2)' = Captured(2)
    BY DEF Captured
  <1>2. PipeFds(N)' = PipeFds(N)
    BY DEF PipeFds
  <1>3. \A n \in N : Captured(n)' = Captured(n) /\ Source(n)' = Source(n)
    BY DEF Captured, Source
  <1> QED BY <1>1, <1>2, <1>3 DEF Table

LEMMA EarlyTable ==
    ASSUME TypeOK, Table, pc[Parent] \in Early
    PROVE  fds[Parent] = before /\ PipeFds(N) = {} /\ \A n \in N : ~pipes[n].made
  <1>1. \A n \in N : ~pipes[n].made
    BY DEF Table
  <1>2. PipeFds(N) = {}
    BY <1>1 DEF PipeFds
  <1>3. \A i \in Fds : fds[Parent][i] = before[i]
    BY <1>2 DEF Table, Preparing
  <1>4. fds[Parent] \in Tables
    BY DEF TypeOK, TypeOKProcess, Tables, Procs
  <1> QED BY <1>1, <1>2, <1>3, <1>4, SameTable

\* Closing every pipe leaves what was there before.
LEMMA PipesClosed ==
    ASSUME TypeOK, Table, pc[Parent] \in Preparing, NEW S,
           \A n \in N : pipes[n].made => n \in S, S \subseteq N
    PROVE  Close(fds[Parent], PipeFds(S)) = before
  <1>1. PipeFds(S) = PipeFds(N)
    BY DEF PipeFds
  <1>2. \A i \in PipeFds(N) : before[i] = Closed
    BY DEF PipeFds, Table
  <1>3. \A i \in Fds \ PipeFds(N) : fds[Parent][i] = before[i]
    BY DEF Table
  <1>4. fds[Parent] \in Tables
    BY DEF TypeOK, TypeOKProcess, Tables, Procs
  <1>5. \A i \in Fds : Close(fds[Parent], PipeFds(S))[i] = before[i]
    BY <1>1, <1>2, <1>3 DEF Close
  <1> QED BY <1>4, <1>5, Things, SameTable

LEMMA PrepareTable ==
    ASSUME TypeOK, Asking, Living, Table, NEW n \in N, Prepare(n)
    PROVE  Table'
  <1> DEFINE next == IF n = 1 THEN "prepare2" ELSE "fork"
  <1>0. /\ UNCHANGED <<use, asked, before, kept>>
        /\ pc[Parent] = IF n = 1 THEN "prepare1" ELSE "prepare2"
        /\ pc[Child] = "unborn" /\ pc'[Child] = "unborn"
    BY Prepared DEF Prepare, Steady, Living, Early
  <1>1. \A m \in N : Captured(m)' = Captured(m)
    BY <1>0 DEF Captured
  <1>2. /\ ~pipes[n].made /\ (n = 2 => (pipes[1].made <=> Captured(1)))
        /\ n = 1 => ~pipes[2].made
    BY <1>0 DEF Table, Early, N
  <1>3. CASE ~Captured(n) /\ UNCHANGED <<fds, pipes>> /\ pc'[Parent] = next
    <2>1. PipeFds(N)' = PipeFds(N)
      BY <1>3 DEF PipeFds
    <2> QED BY <1>0, <1>1, <1>2, <1>3, <2>1
            DEF Table, Preparing, Early, Attached, Over, Clearing, N
  <1>4. ASSUME Captured(n), pc'[Parent] = next, NEW r \in Fds, NEW w \in Fds,
               r # w, fds[Parent][r] = Closed, fds[Parent][w] = Closed,
               fds'[Parent][r] = Object("read", n), fds'[Parent][w] = Object("write", n),
               \A i \in Fds \ {r, w} : fds'[Parent][i] = fds[Parent][i],
               pipes' = [pipes EXCEPT ![n] = [made |-> TRUE, r |-> r, w |-> w]]
        PROVE  Table'
    <2>1. /\ pipes'[n].made /\ pipes'[n].r = r /\ pipes'[n].w = w
          /\ \A m \in N \ {n} : pipes'[m] = pipes[m]
      BY <1>4 DEF TypeOK, TypeOKProcess
    <2>2. PipeFds(N)' = PipeFds(N) \cup {r, w}
      <3>1. {m \in N : pipes'[m].made} = {m \in N : pipes[m].made} \cup {n}
        BY <2>1
      <3>2. \A i : i \in PipeFds(N)' <=> \E m \in N : pipes'[m].made /\ i \in {pipes'[m].r, pipes'[m].w}
        BY DEF PipeFds
      <3>3. \A i : i \in PipeFds(N) <=> \E m \in N : pipes[m].made /\ i \in {pipes[m].r, pipes[m].w}
        BY DEF PipeFds
      <3> QED BY <1>2, <2>1, <3>2, <3>3
    <2>3. before[r] = Closed /\ before[w] = Closed
      <3>1. \A i \in Fds : fds[Parent][i] = Closed => before[i] = Closed
        BY <1>0 DEF Table, PipeFds, Preparing, Early
      <3> QED BY <1>4, <3>1
    <2>4. \A m \in N : pipes'[m].made => before[pipes'[m].r] = Closed /\ before[pipes'[m].w] = Closed
      BY <2>1, <2>3 DEF Table
    <2>5. \A i \in Fds \ PipeFds(N)' : fds'[Parent][i] = before[i]
      BY <1>0, <1>4, <2>2 DEF Table, Preparing, Early
    <2>6. \A m \in N : pipes'[m].made =>
            /\ fds'[Parent][pipes'[m].r] = Object("read", m)
            /\ fds'[Parent][pipes'[m].w] = Object("write", m)
      <3>1. ASSUME NEW m \in N \ {n}, pipes[m].made
            PROVE  /\ fds'[Parent][pipes[m].r] = Object("read", m)
                   /\ fds'[Parent][pipes[m].w] = Object("write", m)
        <4>1. /\ fds[Parent][pipes[m].r] = Object("read", m)
              /\ fds[Parent][pipes[m].w] = Object("write", m)
          BY <1>0, <3>1 DEF Table, Preparing, Early
        <4>2. pipes[m].r \in Fds \ {r, w} /\ pipes[m].w \in Fds \ {r, w}
          <5>1. pipes[m].r \in Fds /\ pipes[m].w \in Fds
            BY DEF TypeOK, TypeOKProcess
          <5>2. Object("read", m) # Closed /\ Object("write", m) # Closed
            BY DEF Closed, Object
          <5> QED BY <1>4, <4>1, <5>1, <5>2
        <4> QED BY <1>4, <4>1, <4>2
      <3> QED BY <1>4, <2>1, <3>1
    <2> QED BY <1>0, <1>1, <1>2, <1>4, <2>1, <2>4, <2>5, <2>6
            DEF Table, Preparing, Early, Attached, Over, Clearing, N
  <1>5. CASE /\ Captured(n) /\ UNCHANGED pipes
             /\ fds'[Parent] = Close(fds[Parent], PipeFds(1..(n - 1)))
             /\ pc'[Parent] = IF use = "check" THEN "unlink1" ELSE "error"
    <2>1. \A m \in N : pipes[m].made => m \in 1..(n - 1)
      BY <1>0, <1>2 DEF N
    <2>2. 1..(n - 1) \subseteq N
      BY DEF N
    <2>3. fds'[Parent] = before
      BY <1>0, <1>5, <2>1, <2>2, PipesClosed DEF Preparing, Early
    <2> QED BY <1>0, <1>1, <1>5, <2>3 DEF Table, Preparing, Early, Attached, Over, Clearing
  <1> QED BY <1>3, <1>4, <1>5, Prepared

LEMMA ForkTable ==
    ASSUME TypeOK, Asking, Living, Table, Fork
    PROVE  Table'
  <1>0. /\ UNCHANGED <<use, asked, before, kept, pipes>> /\ pc[Parent] = "fork"
        /\ pc[Child] = "unborn" /\ Parent # Child
    BY DEF Fork, Steady, Living, Parent, Child
  <1>1. CASE /\ pc' = [pc EXCEPT ![Parent] = "connect", ![Child] = "child1"]
             /\ fds' = [fds EXCEPT ![Child] = fds[Parent]]
    <2>1. fds'[Parent] = fds[Parent] /\ pc'[Parent] = "connect"
      BY <1>0, <1>1 DEF TypeOK, TypeOKProcess, Procs
    <2> QED BY <1>0, <2>1, TableSame DEF Preparing, Early, Attached, Over, Clearing
  <1>2. CASE FiniPipes(N) /\ Failed(Parent)
    <2>1. fds'[Parent] = Close(fds[Parent], PipeFds(N))
      BY <1>2, ParentTable DEF FiniPipes
    <2>2. fds'[Parent] = before
      BY <1>0, <2>1, PipesClosed DEF Preparing
    <2>3. pc'[Parent] \in {"unlink1", "error"} /\ pc'[Child] = "unborn"
      BY <1>0, <1>2 DEF Failed, Goto, TypeOK, TypeOKProcess, Procs
    <2>4. \A m \in N : Captured(m)' = Captured(m)
      BY <1>0 DEF Captured
    <2> QED BY <1>0, <2>2, <2>3, <2>4 DEF Table, Preparing, Early, Attached, Over, Clearing
  <1> QED BY <1>1, <1>2 DEF Fork

LEMMA DoParentTable ==
    ASSUME TypeOK, Asking, Living, Table, DoParent
    PROVE  Table'
  <1> DEFINE ws == {pipes[n].w : n \in {m \in N : asked[m].kind = "capture"}}
  <1>0. /\ UNCHANGED <<use, asked, before, pipes>> /\ pc[Parent] = "connect"
        /\ pc'[Parent] \in {"reading", "wait"} /\ pc'[Child] = pc[Child]
    BY ParentGoes DEF DoParent, Steady, ParentSteps
  <1>1. \A n \in N : kept'[n] = IF Captured(n) THEN pipes[n].r ELSE -1
    BY DEF DoParent, Captured
  <1>2. fds'[Parent] = Close(fds[Parent], ws)
    BY ParentTable DEF DoParent
  <1>3. \A n \in N : pipes[n].made <=> Captured(n)
    BY <1>0 DEF Table
  <1>4. \A i \in Fds \ {kept'[n] : n \in N} : fds'[Parent][i] = before[i]
    <2> SUFFICES ASSUME NEW i \in Fds \ {kept'[n] : n \in N} PROVE fds'[Parent][i] = before[i]
      OBVIOUS
    <2>1. CASE i \in ws
      <3>1. before[i] = Closed
        BY <1>3, <2>1 DEF Table, Captured
      <3> QED BY <1>2, <2>1, <3>1 DEF Close
    <2>2. CASE i \notin ws
      <3>1. \A m \in N : pipes[m].made => i # pipes[m].r /\ i # pipes[m].w
        BY <1>1, <1>3, <2>2 DEF Captured
      <3>2. i \in Fds \ PipeFds(N)
        BY <3>1 DEF PipeFds
      <3>3. fds[Parent][i] = before[i]
        BY <1>0, <3>2 DEF Table, Preparing
      <3> QED BY <1>2, <2>2, <3>3 DEF Close
    <2> QED BY <2>1, <2>2
  <1>5. \A m \in N : Captured(m)' = Captured(m)
    BY <1>0 DEF Captured
  <1>6. \A n \in N : kept'[n] # -1 => Captured(n)
    BY <1>1
  <1>7. ASSUME NEW n \in N, Captured(n) PROVE fds'[Parent][kept'[n]] = Object("read", n)
    <2>1. \A m \in N : Captured(m) => /\ fds[Parent][pipes[m].r] = Object("read", m)
                                      /\ fds[Parent][pipes[m].w] = Object("write", m)
      BY <1>0, <1>3 DEF Table, Preparing
    <2>2. kept'[n] = pipes[n].r /\ pipes[n].r \in Fds
      BY <1>1, <1>7 DEF TypeOK, TypeOKProcess
    <2>3. pipes[n].r \notin ws
      <3>1. \A m \in N : Object("read", n) # Object("write", m)
        BY DEF Object
      <3>2. \A m \in N : Captured(m) => pipes[m].w # pipes[n].r
        BY <1>7, <2>1, <3>1
      <3> QED BY <3>2 DEF Captured
    <2> QED BY <1>2, <1>7, <2>1, <2>2, <2>3 DEF Close
  <1> QED BY <1>0, <1>1, <1>3, <1>4, <1>5, <1>6, <1>7
          DEF Table, Preparing, Early, Attached, Over, Clearing, Source

\* When the pipes the parent reads from are closed, its table is what it was.
LEMMA KeptClosed ==
    ASSUME TypeOK, Table, pc[Parent] \in Attached
    PROVE  /\ Close(fds[Parent], {kept[n] : n \in N}) = before
           /\ (\A n \in N : ~Captured(n)) => fds[Parent] = before
  <1>1. \A n \in N : pipes[n].made <=> Captured(n)
    BY DEF Table
  <1>2. \A n \in N : kept[n] # -1 => before[kept[n]] = Closed
    BY <1>1 DEF Table
  <1>3. \A i \in Fds : i \in {kept[n] : n \in N} => before[i] = Closed
    BY <1>2, AtfProcessAssumption DEF Fds
  <1>4. \A i \in Fds \ {kept[n] : n \in N} : fds[Parent][i] = before[i]
    BY DEF Table
  <1>5. fds[Parent] \in Tables
    BY DEF TypeOK, TypeOKProcess, Tables, Procs
  <1>6. \A i \in Fds : Close(fds[Parent], {kept[n] : n \in N})[i] = before[i]
    BY <1>3, <1>4 DEF Close
  <1>7. ASSUME \A n \in N : ~Captured(n) PROVE \A i \in Fds : fds[Parent][i] = before[i]
    <2>1. \A n \in N : kept[n] = -1
      BY <1>7 DEF Table
    <2>2. \A i \in Fds : i \notin {kept[n] : n \in N}
      BY <2>1, AtfProcessAssumption DEF Fds
    <2> QED BY <1>4, <2>2
  <1>8. Close(fds[Parent], {kept[n] : n \in N}) \in Tables
    BY <1>5, Things
  <1> QED BY <1>5, <1>6, <1>7, <1>8, SameTable

LEMMA ReapedTable ==
    ASSUME TypeOK, Asking, Living, Table, Wait \/ Reap
    PROVE  Table'
  <1>1. PICK l \in {"done", "error"} : Reaped(l)
    BY DEF Wait, Reap
  <1>2. /\ UNCHANGED <<use, asked, before, pipes, kept>> /\ pc[Parent] \in {"wait", "reap"}
        /\ pc'[Parent] \in {"done", "error"} /\ pc'[Child] = pc[Child] /\ pc[Child] = "ended"
    BY <1>1 DEF Reaped, Steady, Wait, Reap, Goto, TypeOK, TypeOKProcess, Procs, Parent, Child
  <1>3. fds'[Parent] = Close(fds[Parent], {kept[n] : n \in N})
    BY <1>1, ParentTable DEF Reaped
  <1>4. fds'[Parent] = before
    BY <1>2, <1>3, KeptClosed DEF Attached
  <1>5. \A m \in N : Captured(m)' = Captured(m)
    BY <1>2 DEF Captured
  <1> QED BY <1>2, <1>4, <1>5 DEF Table, Preparing, Early, Attached, Over, Clearing

LEMMA TableKept ==
    ASSUME TypeOK, Asking, Living, Table, [Next]_vars
    PROVE  Table'
  <1> USE DEF Early, Preparing, Attached, Clearing, Over
  <1>1. CASE Begins
    <2>1. /\ pc[Parent] = "idle" /\ pc'[Parent] \in {"mkdtemp", "prepare1", "error"}
          /\ pc'[Child] = "unborn"
          /\ UNCHANGED <<before, fds, pipes, kept>>
      BY <1>1, BeginsGoes DEF Living
    <2>2. fds[Parent] = before /\ \A n \in N : ~pipes[n].made
      BY <2>1, EarlyTable
    <2>3. \A n \in N : kept[n] = -1
      BY <2>1 DEF Table
    <2> QED BY <2>1, <2>2, <2>3 DEF Table
  <1>2. CASE Around
    <2>1. UNCHANGED <<asked, before, fds, pipes, kept>> /\ pc'[Child] = pc[Child]
      BY <1>2, AroundTyped
    <2>2. pc[Parent] \in Early => fds[Parent] = before
      BY EarlyTable
    <2> QED BY <1>2, <2>1, <2>2, AroundGoes, TableSame
  <1>3. ASSUME ParentSteps PROVE Table'
    <2>1. ASSUME Unwind \/ ReadAll \/ KillChild \/ ReapInterrupted \/ (\E n \in N : Read(n))
          PROVE  Table'
      <3>1. UNCHANGED <<use, asked, before, pipes, kept>>
        BY <2>1 DEF Unwind, ReadAll, KillChild, ReapInterrupted, Read, Steady
      <3>2. fds'[Parent] = fds[Parent]
        BY <2>1 DEF Unwind, ReadAll, KillChild, ReapInterrupted, Read, TypeOK, TypeOKProcess,
                    Procs, Parent, Child
      <3>3. /\ pc[Parent] \in Attached /\ pc'[Parent] \in Attached \cup {"abort"}
        BY <2>1 DEF Unwind, ReadAll, KillChild, ReapInterrupted, Read, Goto, TypeOK, TypeOKProcess,
                    Procs, Parent, Child
      <3> QED BY <3>1, <3>2, <3>3, TableSame
    <2>2. ASSUME WaitInterrupted PROVE Table'
      <3>1. UNCHANGED <<use, asked, before, fds, pipes, kept>>
        BY <2>2 DEF WaitInterrupted, Steady
      <3>2. /\ pc[Parent] = "wait" /\ pc'[Child] = pc[Child]
            /\ \/ pc'[Parent] \in Attached
               \/ pc'[Parent] \in Over /\ use \in {"check", "build"}
        BY <2>2 DEF WaitInterrupted, Failed, Goto, TypeOK, TypeOKProcess, Procs, Parent, Child
      <3>3. use \in {"check", "build"} => fds[Parent] = before
        BY <3>2, KeptClosed DEF Asking
      <3> QED BY <3>1, <3>2, <3>3, TableSame
    <2> QED BY <1>3, <2>1, <2>2, PrepareTable, ForkTable, DoParentTable, ReapedTable DEF ParentSteps
  <1>4. CASE ChildSteps
    <2>1. UNCHANGED <<asked, before, pipes, kept>>
      <3>1. UNCHANGED <<asked, before>>
        BY <1>4, ChildShape DEF Shape
      <3> QED BY <1>4, <3>1 DEF ChildSteps, ChildConnects, ConnectOk, ConnectFails, Start, Write, ProgramEnds
    <2>2. pc'[Parent] = pc[Parent] /\ fds'[Parent] = fds[Parent] /\ pc[Child] # "unborn"
      BY <1>4, ChildGoes
    <2> QED BY <2>1, <2>2, TableSame
  <1>5. CASE UNCHANGED vars
    <2>1. UNCHANGED <<asked, before, fds, pipes, kept, pc>>
      BY <1>5 DEF vars
    <2> QED BY <2>1, TableSame
  <1> QED BY <1>1, <1>2, <1>3, <1>4, <1>5 DEF Next, CallerSteps, Begins, Around

-----------------------------------------------------------------------------
(* What is written *)

LEMMA WrittenSame ==
    ASSUME Written, UNCHANGED <<use, asked, text, got>>,
           \A p \in Procs, i \in Fds : fds'[p][i].what = "write" =>
                \E q \in Procs, j \in Fds : fds'[p][i] = fds[q][j],
           pc'[Parent] \in {"wait", "done"} /\ use = "fork" => pc[Parent] \in {"wait", "done"}
    PROVE  Written'
  <1>1. \A m : Captured(m)' = Captured(m)
    BY DEF Captured
  <1>2. \A p \in Procs, i \in Fds :
            fds'[p][i].what = "write" => fds'[p][i].of \in N /\ Captured(fds'[p][i].of)
    BY DEF Written
  <1>3. pc'[Parent] \in {"wait", "done"} /\ use = "fork" =>
            \A p \in Procs, i \in Fds : fds'[p][i].what # "write"
    BY DEF Written
  <1> QED BY <1>1, <1>2, <1>3 DEF Written, Captured

LEMMA PrepareWritten ==
    ASSUME TypeOK, Written, NEW n \in N, Prepare(n)
    PROVE  Written'
  <1>0. /\ UNCHANGED <<use, asked, text, got>> /\ fds'[Child] = fds[Child]
        /\ Procs = {Parent, Child}
    BY Prepared DEF Prepare, Steady, Traffic, Procs
  <1>1. pc'[Parent] \notin {"wait", "done"}
    BY Prepared
  <1>2. ASSUME NEW i \in Fds, fds'[Parent][i].what = "write"
        PROVE  fds'[Parent][i] \in {fds[Parent][i], Object("write", n)}
               /\ (fds'[Parent][i] = Object("write", n) => Captured(n) \/ fds'[Parent][i] = fds[Parent][i])
    <2>1. CASE UNCHANGED fds
      BY <2>1
    <2>2. ASSUME Captured(n), NEW r \in Fds, NEW w \in Fds,
                 fds'[Parent][r] = Object("read", n), fds'[Parent][w] = Object("write", n),
                 \A j \in Fds \ {r, w} : fds'[Parent][j] = fds[Parent][j]
          PROVE  fds'[Parent][i] \in {fds[Parent][i], Object("write", n)}
      BY <1>2, <2>2 DEF Object
    <2>3. CASE fds'[Parent] = Close(fds[Parent], PipeFds(1..(n - 1)))
      BY <1>2, <2>3 DEF Close, Closed, Object
    <2> QED BY <2>1, <2>2, <2>3, Prepared
  <1>3. \A p \in Procs, i \in Fds :
            fds'[p][i].what = "write" => fds'[p][i].of \in N /\ Captured(fds'[p][i].of)
    <2> SUFFICES ASSUME NEW p \in Procs, NEW i \in Fds, fds'[p][i].what = "write"
                 PROVE  fds'[p][i].of \in N /\ Captured(fds'[p][i].of)
      OBVIOUS
    <2>1. CASE fds'[p][i] = fds[p][i]
      BY <2>1 DEF Written
    <2>2. CASE Captured(n) /\ fds'[p][i] = Object("write", n)
      BY <2>2 DEF Object
    <2>3. CASE p = Child
      BY <1>0, <2>1, <2>3
    <2>4. CASE p = Parent
      BY <1>2, <2>1, <2>2, <2>4
    <2> QED BY <1>0, <2>3, <2>4
  <1> QED BY <1>0, <1>1, <1>3 DEF Written, Captured

\* A table some of whose descriptors were closed.
LEMMA CloseWritten ==
    ASSUME NEW table \in Tables, NEW S, NEW i \in Fds, Close(table, S)[i].what = "write"
    PROVE  Close(table, S)[i] = table[i]
  BY DEF Close, Closed, Object

LEMMA ParentWritten ==
    ASSUME TypeOK, Asking, Living, Table, Written, ParentSteps
    PROVE  Written'
  <1>0. /\ fds \in [Procs -> Tables] /\ pc \in [Procs -> PCs] /\ Procs = {Parent, Child}
        /\ Parent # Child
    BY DEF TypeOK, TypeOKProcess, Tables, Procs, Parent, Child
  <1>1. ASSUME Fork PROVE Written'
    <2>1. UNCHANGED <<use, asked, text, got>>
      BY <1>1 DEF Fork, Steady, Traffic
    <2>2. pc'[Parent] \in {"connect", "unlink1", "error"}
      BY <1>0, <1>1 DEF Fork, Failed, Goto
    <2>3. CASE fds' = [fds EXCEPT ![Child] = fds[Parent]]
      <3>1. \A p \in Procs, i \in Fds : \E q \in Procs, j \in Fds : fds'[p][i] = fds[q][j]
        BY <1>0, <2>3
      <3> QED BY <2>1, <2>2, <3>1, WrittenSame
    <2>4. CASE FiniPipes(N)
      <3>1. fds'[Parent] = Close(fds[Parent], PipeFds(N)) /\ fds'[Child] = fds[Child]
        BY <2>4, ParentTable DEF FiniPipes
      <3>2. \A p \in Procs, i \in Fds : fds'[p][i].what = "write" => fds'[p][i] = fds[p][i]
        BY <1>0, <3>1, CloseWritten
      <3> QED BY <2>1, <2>2, <3>2, WrittenSame
    <2> QED BY <1>1, <2>3, <2>4 DEF Fork
  <1>2. ASSUME DoParent PROVE Written'
    <2> DEFINE ws == {pipes[n].w : n \in {m \in N : asked[m].kind = "capture"}}
    <2>1. UNCHANGED <<use, asked, text, got>>
      BY <1>2 DEF DoParent, Steady, Traffic
    <2>2. pc'[Parent] = IF use = "fork" THEN "reading" ELSE "wait"
      BY <1>0, <1>2 DEF DoParent, Goto
    <2>3. fds'[Parent] = Close(fds[Parent], ws) /\ fds'[Child] = fds[Child]
      BY <1>2, ParentTable DEF DoParent
    <2>4. \A p \in Procs, i \in Fds : fds'[p][i].what = "write" => fds'[p][i] = fds[p][i]
      BY <1>0, <2>3, CloseWritten
    <2> QED BY <2>1, <2>2, <2>4, WrittenSame
  <1>3. ASSUME NEW n \in N, Read(n) PROVE Written'
    <2>1. UNCHANGED <<use, asked, text, fds, pc>> /\ pc[Parent] = "reading"
      BY <1>3 DEF Read, Steady
    <2>2. Captured(n) /\ Source(n).of = n
      BY <1>3, <2>1 DEF Read, Table, Attached, Object
    <2>3. \A k, m \in N : k # n \/ m # n => got'[k][m] = got[k][m]
      BY <1>3, <2>2 DEF Read, TypeOK, TypeOKProcess
    <2> QED BY <2>1, <2>2, <2>3 DEF Written, Captured
  <1>4. ASSUME ReadAll PROVE Written'
    <2>1. UNCHANGED <<use, asked, text, got, fds>> /\ pc[Parent] = "reading" /\ pc'[Parent] = "wait"
      BY <1>0, <1>4 DEF ReadAll, Steady, Traffic, Goto
    <2>2. \A n \in N : Captured(n) => kept[n] # -1
      <3>1. \A n \in N : pipes[n].r # -1
        <4>1. \A n \in N : pipes[n].r \in Fds
          BY DEF TypeOK, TypeOKProcess
        <4> QED BY <4>1, AtfProcessAssumption DEF Fds
      <3> QED BY <2>1, <3>1 DEF Table, Attached
    <2>3. ASSUME NEW n \in N, Captured(n) PROVE got[n][n] = text["write"][n] /\ ~HasWriter(n)
      <3>1. text["write"][n] \in 0..MaxText /\ got[n][n] \in 0..MaxText
        BY DEF TypeOK, TypeOKProcess, N
      <3>2. Source(n).what = "read" /\ Source(n).of = n
        BY <2>1, <2>3 DEF Table, Attached, Object
      <3>3. Held(n) = 0 /\ ~HasWriter(n)
        BY <1>4, <2>2, <2>3, <3>2 DEF ReadAll
      <3>4. got[1][n] + got[2][n] = got[n][n]
        BY <3>1, AtfProcessAssumption DEF Written, N
      <3> QED BY <3>1, <3>3, <3>4, AtfProcessAssumption DEF Held
    <2>4. \A n \in N : got[n][n] = text["write"][n]
      BY <2>3 DEF Written
    <2>5. ASSUME NEW p \in Procs, NEW i \in Fds, fds[p][i].what = "write" PROVE FALSE
      <3>1. fds[p][i].of \in N /\ Captured(fds[p][i].of)
        BY <2>5 DEF Written
      <3>2. fds[p][i] \in Objects
        BY <1>0 DEF Tables
      <3>3. fds[p][i] = Object("write", fds[p][i].of)
        BY <2>5, <3>2 DEF Objects, Object
      <3> QED BY <2>3, <3>1, <3>3 DEF HasWriter
    <2> QED BY <2>1, <2>4, <2>5 DEF Written, Captured
  <1>5. ASSUME NEW l \in {"done", "error"}, Reaped(l), pc[Parent] = IF l = "done" THEN "wait" ELSE "reap"
        PROVE  Written'
    <2>1. UNCHANGED <<use, asked, text, got>> /\ pc'[Parent] = l
      BY <1>0, <1>5 DEF Reaped, Steady, Traffic, Goto
    <2>2. fds'[Parent] = Close(fds[Parent], {kept[n] : n \in N}) /\ fds'[Child] = fds[Child]
      BY <1>5, ParentTable DEF Reaped
    <2>3. \A p \in Procs, i \in Fds : fds'[p][i].what = "write" => fds'[p][i] = fds[p][i]
      BY <1>0, <2>2, CloseWritten
    <2> QED BY <1>5, <2>1, <2>3, WrittenSame
  <1>6. ASSUME WaitInterrupted \/ Unwind \/ ReapInterrupted PROVE Written'
    <2>1. UNCHANGED <<use, asked, text, got, fds>>
      BY <1>6 DEF WaitInterrupted, Unwind, ReapInterrupted, Steady, Traffic
    <2>2. pc'[Parent] \in {"wait", "done"} => pc[Parent] = "wait"
      BY <1>0, <1>6 DEF WaitInterrupted, Unwind, ReapInterrupted, Failed, Goto
    <2> QED BY <2>1, <2>2, WrittenSame
  <1>7. ASSUME KillChild PROVE Written'
    <2>1. UNCHANGED <<use, asked, text, got>> /\ pc'[Parent] = "reap"
      BY <1>0, <1>7 DEF KillChild, Steady, Traffic, Goto
    <2>2. \A p \in Procs, i \in Fds : fds'[p][i].what = "write" => fds'[p][i] = fds[p][i]
      BY <1>0, <1>7 DEF KillChild, Closed, Object, Tables
    <2> QED BY <2>1, <2>2, WrittenSame
  <1> QED BY <1>1, <1>2, <1>3, <1>4, <1>5, <1>6, <1>7, PrepareWritten DEF ParentSteps, Wait, Reap

LEMMA ChildWritten ==
    ASSUME TypeOK, Written, ChildSteps
    PROVE  Written'
  <1>0. /\ fds \in [Procs -> Tables] /\ Procs = {Parent, Child} /\ Parent # Child
    BY DEF TypeOK, TypeOKProcess, Tables, Procs, Parent, Child
  <1>1. /\ pc'[Parent] = pc[Parent] /\ fds'[Parent] = fds[Parent] /\ UNCHANGED <<use, asked>>
    BY ChildGoes, ChildShape DEF Shape
  <1>2. ASSUME UNCHANGED <<text, got>>, fds'[Child] = [i \in Fds |-> Closed] PROVE Written'
    <2>1. \A p \in Procs, i \in Fds : fds'[p][i].what = "write" => fds'[p][i] = fds[p][i]
      BY <1>0, <1>1, <1>2 DEF Closed, Object
    <2> QED BY <1>1, <1>2, <2>1, WrittenSame
  <1>3. ASSUME NEW n \in N, ConnectOk(n) PROVE Written'
    <2>1. PICK t \in Connected(n, fds[Child]) : fds' = [fds EXCEPT ![Child] = t]
      BY <1>3 DEF ConnectOk
    <2>2. \A i \in Fds : t[i].what = "write" => \E j \in Fds : t[i] = fds[Child][j]
      BY <1>0, ConnectedFrom
    <2>3. \A p \in Procs, i \in Fds :
            fds'[p][i].what = "write" => \E q \in Procs, j \in Fds : fds'[p][i] = fds[q][j]
      BY <1>0, <2>1, <2>2
    <2>4. UNCHANGED <<text, got>>
      BY <1>3 DEF ConnectOk, Traffic
    <2> QED BY <1>1, <2>3, <2>4, WrittenSame
  <1>4. ASSUME Start PROVE Written'
    <2>1. UNCHANGED <<text, got>>
      BY <1>4 DEF Start, Traffic
    <2>2. CASE fds' = [fds EXCEPT ![Child] = [i \in Fds |-> Started(@[i])]]
      <3>1. \A p \in Procs, i \in Fds : fds'[p][i].what = "write" => fds'[p][i] = fds[p][i]
        BY <1>0, <2>2 DEF Started, Closed, Object
      <3> QED BY <1>1, <2>1, <3>1, WrittenSame
    <2> QED BY <1>2, <1>4, <2>1, <2>2, EndedTable DEF Start
  <1>5. ASSUME NEW n \in N, Write(n) PROVE Written'
    <2> DEFINE o == fds[Child][n]
    <2>0. o \in Objects /\ UNCHANGED got /\ n \in Fds
      BY <1>0, <1>5, AtfProcessAssumption DEF Tables, N, Fds, Write
    <2>1. CASE text' = [text EXCEPT ![o.what][o.of] = @ + 1] /\ UNCHANGED <<fds, pc, end>>
      <3>1. o.what = "write" => /\ Captured(o.of)
                                /\ ~(pc[Parent] \in {"wait", "done"} /\ use = "fork")
        BY <1>0, <2>0 DEF Written
      <3>2. \A m \in N : o # Object("write", m) => text'["write"][m] = text["write"][m]
        <4>1. o.what \in {"std", "user", "path", "write"} /\ o.of \in 0..2
          BY <1>5, <2>0 DEF Write, Objects
        <4>2. \A m \in N : o # Object("write", m) => o.what # "write" \/ o.of # m
          BY <2>0 DEF Objects, Object
        <4>3. text \in [{"std", "user", "path", "write"} -> [0..2 -> 0..MaxText]]
          BY DEF TypeOK, TypeOKProcess
        <4> QED BY <2>1, <4>1, <4>2, <4>3 DEF N
      <3>3. \A m \in N : o = Object("write", m) => o.what = "write" /\ o.of = m
        BY DEF Object
      <3>4. o.what # "write" => \A m \in N : text'["write"][m] = text["write"][m]
        BY <3>2, <3>3
      <3>5. \A m \in N : ~Captured(m) => text'["write"][m] = text["write"][m]
        BY <3>1, <3>2, <3>3
      <3> QED BY <1>1, <2>0, <2>1, <3>1, <3>4, <3>5 DEF Written, Captured
    <2>2. CASE Ended("signal") /\ UNCHANGED text
      BY <1>2, <2>0, <2>2, EndedTable
    <2> QED BY <1>5, <2>1, <2>2 DEF Write
  <1>6. ASSUME ProgramEnds \/ \E n \in N : ConnectFails(n) PROVE Written'
    <2>1. UNCHANGED <<text, got>> /\ \E how : Ended(how)
      BY <1>6 DEF ProgramEnds, ConnectFails, Traffic
    <2> QED BY <1>2, <2>1, EndedTable
  <1> QED BY <1>3, <1>4, <1>5, <1>6 DEF ChildSteps, ChildConnects

LEMMA WrittenKept ==
    ASSUME TypeOK, Asking, Living, Table, Written, [Next]_vars
    PROVE  Written'
  <1>1. CASE Begins
    <2>1. /\ pc[Parent] = "idle" /\ pc'[Parent] \notin {"wait", "done"}
          /\ UNCHANGED <<fds, text, got>>
      BY <1>1, BeginsGoes
    <2>2. \A n \in N : ~Captured(n)
      BY <2>1 DEF Asking
    <2> QED BY <2>1, <2>2 DEF Written
  <1>2. CASE Around
    <2>1. UNCHANGED <<use, asked, fds, text, got>>
      BY <1>2, AroundTyped
    <2> QED BY <1>2, <2>1, AroundGoes, WrittenSame
  <1>3. CASE UNCHANGED vars
    <2>1. UNCHANGED <<use, asked, fds, text, got, pc>>
      BY <1>3 DEF vars
    <2> QED BY <2>1, WrittenSame
  <1> QED BY <1>1, <1>2, <1>3, ParentWritten, ChildWritten DEF Next, CallerSteps, Begins, Around

-----------------------------------------------------------------------------
(* The temporary directory *)

\* What a child does to the files of a check.
LEMMA ChildFiles ==
    ASSUME TypeOK, ChildSteps
    PROVE  /\ UNCHANGED <<use, dir, intr>>
           /\ files \subseteq files'
           /\ files' # files => use = "check" /\ dir = "there"
           /\ use = "check" /\ pc'[Child] # "ended" =>
                /\ pc[Child] = "child1" => files' = files \cup {1}
                /\ pc[Child] = "child2" => files' = files \cup {2}
                /\ pc[Child] \in {"start", "running"} => files' = files
  <1>0. UNCHANGED <<use, dir, intr>>
    <2>1. UNCHANGED <<use, dir>>
      BY ChildShape DEF Shape
    <2>2. UNCHANGED intr
      BY DEF ChildSteps, ChildConnects, ConnectOk, ConnectFails, Start, Write, ProgramEnds, Fate
    <2> QED BY <2>1, <2>2
  <1>1. ASSUME NEW n \in N, ConnectOk(n),
               IF use = "check" THEN dir = "there" /\ files' = files \cup {n} ELSE UNCHANGED files
        PROVE  /\ files \subseteq files' /\ (files' # files => use = "check" /\ dir = "there")
               /\ pc[Child] = IF n = 1 THEN "child1" ELSE "child2"
               /\ use = "check" => files' = files \cup {n}
    BY <1>1 DEF ConnectOk
  <1>2. ASSUME NEW n \in N, ConnectFails(n), files' \in {files, files \cup {n}},
               files' # files => use = "check" /\ dir = "there"
        PROVE  /\ files \subseteq files' /\ (files' # files => use = "check" /\ dir = "there")
               /\ pc'[Child] = "ended"
    BY <1>2, EndedTable DEF ConnectFails
  <1>3. ASSUME (Start \/ (\E n \in N : Write(n)) \/ ProgramEnds) /\ UNCHANGED tmp
        PROVE  files' = files /\ pc[Child] \in {"start", "running"}
    BY <1>3 DEF tmp, Start, Write, ProgramEnds
  <1> QED BY <1>0, <1>1, <1>2, <1>3 DEF ChildSteps, ChildConnects, N

LEMMA AroundKept ==
    ASSUME TypeOK, Asking, Living, Kept, Around
    PROVE  Kept'
  <1> USE DEF Early, Preparing, Attached, Clearing
  <1>0. /\ UNCHANGED <<use, intr, end, status>> /\ pc'[Child] = pc[Child] /\ use = "check"
    <2>1. /\ UNCHANGED <<use, intr, end, status>> /\ pc'[Child] = pc[Child]
      BY AroundTyped
    <2>2. use = "check"
      BY DEF Around, Mkdtemp, ResultInit, ResultFini, Unlink, Rmdir, Asking, Clearing
    <2> QED BY <2>1, <2>2
  <1>1. pc \in [Procs -> PCs] /\ Parent \in Procs /\ files \subseteq {1, 2}
    BY DEF TypeOK, TypeOKProcess, Procs, N
  <1>2. ASSUME Mkdtemp \/ ResultInit PROVE Kept'
    <2>1. /\ pc[Child] = "unborn" /\ files' = files /\ files = {}
          /\ pc[Parent] = "mkdtemp" => dir = "none"
          /\ pc[Parent] = "init" => dir = "there"
      BY <1>0, <1>2 DEF Mkdtemp, ResultInit, Living, Kept
    <2>2. \/ dir' = "there" /\ pc'[Parent] \in {"init", "prepare1"}
          \/ dir' # "there" /\ pc'[Parent] = "error"
      BY <1>1, <1>2, <2>1 DEF Mkdtemp, ResultInit, Goto
    <2> QED BY <1>0, <2>1, <2>2 DEF Kept
  <1>3. ASSUME ResultFini PROVE Kept'
    <2>1. /\ dir = "there" /\ dir' = "there" /\ files' = files /\ pc'[Parent] = "unlink1"
          /\ pc[Child] = "ended"
      BY <1>0, <1>1, <1>3 DEF ResultFini, Goto, tmp, Living, Kept
    <2> QED BY <1>0, <1>3, <2>1 DEF Kept
  <1>4. ASSUME Unlink(1) PROVE Kept'
    <2>1. /\ pc[Parent] = "unlink1" /\ pc'[Parent] = "unlink2"
          /\ dir' = dir /\ files' = files \ {1}
      BY <1>1, <1>4 DEF Unlink, Goto
    <2> QED BY <1>0, <2>1 DEF Kept
  <1>5. ASSUME Unlink(2) PROVE Kept'
    <2>1. /\ pc[Parent] = "unlink2" /\ pc'[Parent] = "rmdir"
          /\ dir' = dir /\ files' = files \ {2}
      BY <1>1, <1>5 DEF Unlink, Goto
    <2> QED BY <1>0, <1>1, <2>1 DEF Kept
  <1>6. ASSUME Rmdir PROVE Kept'
    <2>1. pc[Parent] = "rmdir" /\ files' = files /\ intr \in Nat
      BY <1>6 DEF Rmdir, TypeOK, TypeOKProcess
    <2>2. \/ files = {} /\ dir' = "gone" /\ pc'[Parent] \in {"error", "finished"}
          \/ files # {} /\ pc'[Parent] = "abort" /\ dir' = dir
      BY <1>1, <1>6 DEF Rmdir, Goto
    <2> QED BY <1>0, <2>1, <2>2 DEF Kept
  <1> QED BY <1>2, <1>3, <1>4, <1>5, <1>6 DEF Around, N

LEMMA KeptKept ==
    ASSUME TypeOK, Asking, Living, Kept, [Next]_vars
    PROVE  Kept'
  <1> USE DEF Early, Preparing, Attached, Clearing
  <1>0. intr \in Nat
    BY DEF TypeOK, TypeOKProcess
  <1>1. CASE Begins
    <2>1. UNCHANGED <<dir, files, intr, end>> /\ pc'[Child] = "unborn"
      BY <1>1, BeginsGoes DEF Living
    <2>2. dir = "none" /\ files = {}
      BY <1>1, BeginsGoes DEF Kept, Asking
    <2>3. /\ pc'[Parent] \in {"mkdtemp", "prepare1", "error"}
          /\ pc'[Parent] = "mkdtemp" <=> use' = "check"
      BY <1>1, BeginsGoes
    <2> QED BY <2>1, <2>2, <2>3 DEF Kept
  <1>2. ASSUME ParentSteps, UNCHANGED tmp PROVE Kept'
    <2>1. UNCHANGED <<dir, files, use>>
      BY <1>2, ParentShape DEF tmp, Shape
    <2>2. CASE use # "check"
      <3>1. dir = "none" /\ files = {}
        BY <2>2 DEF Kept
      <3>2. /\ pc'[Parent] \notin {"mkdtemp", "finished"} \cup Clearing
            /\ pc'[Parent] = "abort" => intr' > 0
        BY <1>0, <1>2, <2>2, ParentGoes DEF Living
      <3> QED BY <2>1, <2>2, <3>1, <3>2 DEF Kept
    <2>3. CASE use = "check"
      <3>1. pc[Parent] \notin {"reading", "unwind", "reap"}
        BY <2>3 DEF Asking
      <3>2. \/ /\ pc[Parent] \in {"prepare1", "prepare2", "fork"}
               /\ pc'[Parent] \in {"prepare2", "fork", "unlink1"}
               /\ pc[Child] = "unborn" /\ pc'[Child] = "unborn" /\ UNCHANGED <<end, intr>>
            \/ /\ pc[Parent] = "fork" /\ pc'[Parent] = "connect"
               /\ pc[Child] = "unborn" /\ pc'[Child] = "child1" /\ UNCHANGED <<end, intr>>
            \/ /\ pc[Parent] = "connect" /\ pc'[Parent] = "wait"
               /\ pc'[Child] = pc[Child] /\ UNCHANGED <<end, intr>>
            \/ /\ pc[Parent] = "wait" /\ pc'[Parent] = "done"
               /\ pc'[Child] = pc[Child] /\ UNCHANGED <<end, intr>>
            \/ /\ pc[Parent] = "wait" /\ pc'[Parent] = "unlink1"
               /\ pc'[Child] = pc[Child] /\ UNCHANGED end /\ intr' = intr + 1
        BY <1>2, <2>3, <3>1, ParentGoes DEF Living
      <3>3. pc[Child] = "unborn" => end = "none"
        BY DEF Living
      <3> QED BY <1>0, <2>1, <2>3, <3>2, <3>3 DEF Kept
    <2> QED BY <2>2, <2>3
  <1>3. ASSUME ChildSteps PROVE Kept'
    <2>1. UNCHANGED <<use, dir, intr>> /\ pc'[Parent] = pc[Parent]
      BY <1>3, ChildFiles, ChildGoes
    <2>2. pc[Child] \in {"child1", "child2", "start", "running"} /\ pc'[Child] # "unborn"
      BY <1>3, ChildGoes
    <2>3. CASE use # "check"
      <3>1. files' = files
        BY <1>3, <2>3, ChildFiles
      <3>2. pc[Parent] \notin Clearing
        BY <2>3 DEF Asking
      <3> QED BY <2>1, <2>2, <2>3, <3>1, <3>2 DEF Kept
    <2>4. CASE use = "check"
      <3>1. pc[Parent] # "done"
        BY <2>2 DEF Living
      <3>2. pc[Parent] \in Clearing => intr # 0
        BY <2>2 DEF Kept
      <3>3. pc[Parent] \in {"connect", "wait"} =>
                /\ pc'[Child] = "child2" => 1 \in files'
                /\ pc'[Child] \in {"start", "running"} \/ end' = "ok" => files' = N
        <4>1. files \subseteq files' /\ files' \subseteq N /\ files \subseteq N
          BY <1>3, ChildFiles, ChildShape DEF TypeOK
        <4>2. CASE pc'[Child] = "ended" /\ end' \in {"ok", "bad", "signal"}
                    /\ (end' = "ok" => pc[Child] = "running")
          BY <2>4, <4>1, <4>2 DEF Kept
        <4>3. CASE pc[Child] = "child1" /\ pc'[Child] = "child2" /\ UNCHANGED end
          BY <1>3, <2>4, <4>3, ChildFiles DEF Living
        <4>4. CASE pc[Child] = "child2" /\ pc'[Child] = "start" /\ UNCHANGED end
          BY <1>3, <2>4, <4>1, <4>4, ChildFiles DEF Living, Kept, N
        <4>5. CASE /\ <<pc[Child], pc'[Child]>> \in {<<"start", "running">>, <<"running", "running">>}
                   /\ UNCHANGED end
          BY <1>3, <2>4, <4>5, ChildFiles DEF Living, Kept
        <4> QED BY <1>3, <4>2, <4>3, <4>4, <4>5, ChildGoes
      <3>4. pc[Parent] \in {"error", "finished"} => dir # "there" /\ files' = files
        BY <1>3, ChildFiles DEF Kept
      <3> QED BY <2>1, <2>2, <2>4, <3>1, <3>2, <3>3, <3>4 DEF Kept
    <2> QED BY <2>3, <2>4
  <1>4. CASE UNCHANGED vars
    BY <1>4 DEF vars, Kept
  <1> QED BY <1>1, <1>2, <1>3, <1>4, AroundKept DEF Next, CallerSteps, Begins, Around

-----------------------------------------------------------------------------
(* The child's streams *)

LEMMA StdFds == /\ 1 \in Fds /\ 2 \in Fds /\ UserFd \in Fds /\ UserFd \notin N
                /\ \A n \in N : Without({})[n] = Object("std", n)
                /\ Without({})[UserFd] = Object("user", 0)
                /\ \A i \in Fds : Without({})[i].what \notin {"read", "write"}
  BY AtfProcessAssumption DEF Fds, N, Without, Object, Closed

\* A pipe has none of the descriptors the caller had.
LEMMA PipesApart ==
    ASSUME TypeOK, Table, Apart, NEW n \in N, pipes[n].made
    PROVE  /\ pipes[n].r \in Fds \ {1, 2, UserFd} /\ pipes[n].w \in Fds \ {1, 2, UserFd}
  <1>1. before = Without({})
    BY DEF Apart
  <1>2. before[pipes[n].r] = Closed /\ before[pipes[n].w] = Closed
    BY DEF Table
  <1>3. pipes[n].r \in Fds /\ pipes[n].w \in Fds
    BY DEF TypeOK, TypeOKProcess
  <1>4. before[1] # Closed /\ before[2] # Closed /\ before[UserFd] # Closed
    BY <1>1, StdFds DEF Object, Closed, N
  <1> QED BY <1>2, <1>3, <1>4

LEMMA ForkSettling ==
    ASSUME TypeOK, Asking, Living, Table, Fork, pc'[Child] = "child1", Apart
    PROVE  Pending(1, fds'[Child]) /\ Pending(2, fds'[Child]) /\ NoStray(fds'[Child], {1, 2})
  <1>1. fds'[Child] = fds[Parent] /\ pc[Parent] = "fork"
    <2>0. pc[Child] = "unborn"
      BY DEF Fork, Living
    <2>1. fds' = [fds EXCEPT ![Child] = fds[Parent]]
      BY <2>0 DEF Fork, Failed, Goto, TypeOK, TypeOKProcess, Procs, Parent, Child
    <2> QED BY <2>1 DEF Fork, TypeOK, TypeOKProcess, Procs
  <1>2. \A n \in N : pipes[n].made <=> Captured(n)
    BY <1>1 DEF Table
  <1>3. \A i \in Fds \ PipeFds(N) : fds[Parent][i] = Without({})[i]
    BY <1>1 DEF Table, Preparing, Apart
  <1>4. 1 \notin PipeFds(N) /\ 2 \notin PipeFds(N) /\ UserFd \notin PipeFds(N)
    BY PipesApart DEF PipeFds
  <1>5. fds[Parent][1] = Object("std", 1) /\ fds[Parent][2] = Object("std", 2)
        /\ fds[Parent][UserFd] = Object("user", 0)
    BY <1>3, <1>4, StdFds DEF N
  <1>6. \A n \in N : Captured(n) => /\ fds[Parent][pipes[n].r] = Object("read", n)
                                    /\ fds[Parent][pipes[n].w] = Object("write", n)
    BY <1>1, <1>2 DEF Table, Preparing
  <1>7. NoStray(fds[Parent], {1, 2})
    <2> SUFFICES ASSUME NEW i \in Fds, fds[Parent][i].what \in {"read", "write"}
                 PROVE  \E m \in {1, 2} : Captured(m) /\ i \in {pipes[m].r, pipes[m].w}
      BY DEF NoStray
    <2>1. i \in PipeFds(N)
      BY <1>3, StdFds
    <2> QED BY <1>2, <2>1 DEF PipeFds, N
  <1> QED BY <1>1, <1>5, <1>6, <1>7 DEF Pending, N

\* Stream n becomes what it is to be, and the other and its pipe stay.
LEMMA ConnectedWanted ==
    ASSUME TypeOK, Asking, Table, Apart, pc[Child] # "unborn", NEW n \in N,
           NEW table \in Tables, NEW t \in Connected(n, table),
           Pending(n, table),
           n = 1 => Pending(2, table),
           n = 2 => table[1] = Wanted(1)
    PROVE  /\ t[n] = Wanted(n)
           /\ n = 1 => Pending(2, t)
           /\ n = 2 => t[1] = Wanted(1)
           /\ \A i \in Fds \ N : t[i].what \in {"read", "write"} =>
                t[i] = table[i] /\ (Captured(n) => i \notin {pipes[n].r, pipes[n].w})
  <1>0. /\ asked[n] \in Offers(n) /\ n \in Fds /\ 3 - n \in N /\ 3 - n # n
        /\ \A m \in N : m \in {n, 3 - n} /\ m \in Fds
        /\ \A m \in N : Captured(m) => pipes[m].made
    BY StdFds DEF Asking, Table, N
  <1>1. \A m \in N : Captured(m) =>
            /\ pipes[m].r \in Fds \ {1, 2, UserFd} /\ pipes[m].w \in Fds \ {1, 2, UserFd}
    BY <1>0, PipesApart
  <1>2. ASSUME \A i \in Fds \ {n} : t[i] = table[i], t[n] = Wanted(n), ~Captured(n)
        PROVE  /\ n = 1 => Pending(2, t)
               /\ n = 2 => t[1] = Wanted(1)
               /\ \A i \in Fds \ N : t[i].what \in {"read", "write"} =>
                    t[i] = table[i] /\ (Captured(n) => i \notin {pipes[n].r, pipes[n].w})
    BY <1>0, <1>1, <1>2, StdFds DEF Pending, N
  <1>3. CASE asked[n].kind = "capture"
    <2> DEFINE r == pipes[n].r
               w == pipes[n].w
    <2>1. table[r] = Object("read", n) /\ table[w] = Object("write", n) /\ r # w
      BY <1>3 DEF Pending, Captured, Object
    <2>2. r \in Fds \ {1, 2, UserFd} /\ w \in Fds \ {1, 2, UserFd}
      BY <1>1, <1>3 DEF Captured
    <2>3. t = Close(Dup2(Close(table, {r}), w, n), {w})
      BY <1>0, <1>3, <2>2 DEF Connected, Moved, SafeDup, N
    <2> HIDE DEF r, w
    <2>4. /\ t[n] = Object("write", n) /\ t[r] = Closed /\ t[w] = Closed
          /\ \A i \in Fds \ {n, r, w} : t[i] = table[i]
      BY <1>0, <2>1, <2>2, <2>3 DEF Close, Dup2, Tables, N
    <2>5. Wanted(n) = Object("write", n)
      BY <1>3 DEF Wanted
    <2>6. \A m \in N \ {n} : Captured(m) /\ Pending(m, table) =>
            pipes[m].r \notin {r, w} /\ pipes[m].w \notin {r, w}
      BY <2>1 DEF Pending, Object
    <2>7. n = 1 => Pending(2, t)
      BY <1>1, <2>2, <2>4, <2>6, StdFds DEF Pending, N
    <2>8. n = 2 => t[1] = Wanted(1)
      BY <2>2, <2>4, StdFds
    <2>9. \A i \in Fds \ N : t[i].what \in {"read", "write"} => t[i] = table[i] /\ i \notin {r, w}
      BY <2>4 DEF Closed, Object, N
    <2> QED BY <2>4, <2>5, <2>7, <2>8, <2>9 DEF r, w
  <1>4. CASE asked[n].kind = "connect"
    <2>1. asked[n].fd = 3 - n
      BY <1>0, <1>4 DEF Offers, Inherit, Path
    <2>2. t = Dup2(table, 3 - n, n)
      BY <1>4, <2>1 DEF Connected
    <2>3. t[n] = table[3 - n] /\ \A i \in Fds \ {n} : t[i] = table[i]
      BY <1>0, <2>2 DEF Dup2, Tables
    <2>4. CASE n = 2
      <3>1. Wanted(2) = Wanted(1)
        BY <1>4, <2>4 DEF Wanted
      <3> QED BY <1>2, <1>4, <2>3, <2>4, <3>1 DEF Captured
    <2>5. CASE n = 1
      <3>1. Wanted(1) = Object("std", 2)
        BY <1>4, <2>5 DEF Wanted
      <3>2. t[1] = Wanted(1)
        BY <2>3, <2>5, <3>1 DEF Pending
      <3> QED BY <1>2, <1>4, <2>3, <2>5, <3>2 DEF Captured
    <2> QED BY <2>4, <2>5 DEF N
  <1>5. CASE asked[n].kind = "inherit"
    <2>1. t = table /\ Wanted(n) = Object("std", n)
      BY <1>5 DEF Connected, Wanted
    <2> QED BY <1>2, <1>5, <2>1 DEF Pending, Captured
  <1>6. CASE asked[n].kind = "redirect_fd"
    <2>1. asked[n].fd = UserFd /\ UserFd # n /\ UserFd \in Fds \ N
      BY <1>6, StdFds DEF Apart
    <2>2. t = Close(Dup2(table, UserFd, n), {UserFd})
      BY <1>6, <2>1 DEF Connected, Moved, SafeDup
    <2>3. t[n] = table[UserFd] /\ t[UserFd] = Closed /\ \A i \in Fds \ {n, UserFd} : t[i] = table[i]
      BY <1>0, <2>1, <2>2 DEF Close, Dup2, Tables
    <2>4. t[n] = Wanted(n)
      BY <1>6, <2>3 DEF Pending, Wanted
    <2>5. asked[3 - n].kind # "redirect_fd"
      BY <1>0, <1>6 DEF Apart
    <2>6. ASSUME n = 1 PROVE Pending(2, t)
      <3>1. Pending(2, table) /\ asked[2].kind # "redirect_fd"
        BY <1>0, <2>5, <2>6
      <3>2. t[2] = table[2]
        BY <2>1, <2>3, <2>6, StdFds DEF N
      <3>3. Captured(2) => t[pipes[2].r] = table[pipes[2].r] /\ t[pipes[2].w] = table[pipes[2].w]
        BY <1>1, <2>3, <2>6 DEF N
      <3> QED BY <3>1, <3>2, <3>3 DEF Pending
    <2>7. n = 2 => t[1] = Wanted(1)
      BY <1>0, <2>1, <2>3 DEF N
    <2>8. \A i \in Fds \ N : t[i].what \in {"read", "write"} => t[i] = table[i]
      BY <2>3 DEF Closed, Object, N
    <2> QED BY <1>6, <2>4, <2>6, <2>7, <2>8 DEF Captured
  <1>7. CASE asked[n].kind = "redirect_path"
    <2>1. table[n] # Closed /\ Free(table) # {}
      BY <1>7 DEF Pending, Object, Closed, Connected, Opened
    <2>2. Lowest(Free(table)) # n
      BY <2>1, LowestIn DEF Free
    <2>3. t = [table EXCEPT ![n] = Object("path", n)]
      BY <1>7, <2>1, <2>2 DEF Connected, Opened
    <2>4. t[n] = Object("path", n) /\ \A i \in Fds \ {n} : t[i] = table[i]
      BY <1>0, <2>3 DEF Tables
    <2>5. Wanted(n) = Object("path", n)
      BY <1>7 DEF Wanted
    <2> QED BY <1>2, <1>7, <2>4, <2>5 DEF Captured
  <1>8. asked[n].kind \in {"capture", "connect", "inherit", "redirect_fd", "redirect_path"}
    BY DEF TypeOK, TypeOKProcess, Streams, Kinds
  <1> QED BY <1>2, <1>3, <1>4, <1>5, <1>6, <1>7, <1>8

LEMMA ChildSettling ==
    ASSUME TypeOK, Asking, Living, Table, Settling, ChildSteps
    PROVE  Settling'
  <1>0. /\ UNCHANGED <<asked, before, pipes>> /\ fds \in [Procs -> Tables] /\ Child \in Procs
        /\ pc[Child] # "unborn"
    <2>1. UNCHANGED <<asked, before>>
      BY ChildShape DEF Shape
    <2>2. UNCHANGED pipes
      BY DEF ChildSteps, ChildConnects, ConnectOk, ConnectFails, Start, Write, ProgramEnds
    <2> QED BY <2>1, <2>2, ChildGoes DEF TypeOK, TypeOKProcess, Tables, Procs
  <1>1. SUFFICES ASSUME Apart, pc'[Child] # "ended" PROVE Settling'
    <2>1. Apart' = Apart
      BY <1>0 DEF Apart
    <2> QED BY <2>1, Zenon DEF Settling
  <1>2. /\ \A n \in N : Wanted(n)' = Wanted(n) /\ Captured(n)' = Captured(n)
    BY <1>0 DEF Wanted, Captured, N
  <1>3. ASSUME NEW n \in N, ConnectOk(n) PROVE Settling'
    <2>1. PICK t \in Connected(n, fds[Child]) : fds' = [fds EXCEPT ![Child] = t]
      BY <1>3 DEF ConnectOk
    <2>2. fds'[Child] = t
      BY <1>0, <2>1
    <2>3. /\ pc[Child] = IF n = 1 THEN "child1" ELSE "child2"
          /\ pc'[Child] = IF n = 1 THEN "child2" ELSE "start"
      BY <1>0, <1>3 DEF ConnectOk, Goto, TypeOK, TypeOKProcess
    <2>4. /\ Pending(n, fds[Child])
          /\ n = 1 => Pending(2, fds[Child])
          /\ n = 2 => fds[Child][1] = Wanted(1)
      BY <1>1, <2>3 DEF Settling, N
    <2>5. /\ t[n] = Wanted(n)
          /\ n = 1 => Pending(2, t)
          /\ n = 2 => t[1] = Wanted(1)
          /\ \A i \in Fds \ N : t[i].what \in {"read", "write"} =>
                t[i] = fds[Child][i] /\ (Captured(n) => i \notin {pipes[n].r, pipes[n].w})
      BY <1>0, <1>1, <2>4, ConnectedWanted
    <2>6. CASE n = 1
      <3>1. Pending(2, t) /\ NoStray(t, {2})
        BY <1>1, <2>3, <2>5, <2>6 DEF Settling, NoStray
      <3>2. pc'[Child] = "child2" /\ fds'[Child][1] = Wanted(1) /\ 1 \in N /\ 2 \in N
        BY <2>2, <2>3, <2>5, <2>6 DEF N
      <3>3. Wanted(1)' = Wanted(1)
        BY <1>2, <3>2
      <3>4. /\ fds'[Child][2] = Object("std", 2)
            /\ asked'[2].kind = "capture" =>
                    /\ fds'[Child][pipes'[2].r] = Object("read", 2)
                    /\ fds'[Child][pipes'[2].w] = Object("write", 2)
            /\ asked'[2].kind = "redirect_fd" => fds'[Child][UserFd] = Object("user", 0)
        BY <1>0, <2>2, <3>1 DEF Pending, Captured
      <3>5. \A i \in Fds \ N : fds'[Child][i].what \in {"read", "write"} =>
                asked'[2].kind = "capture" /\ i \in {pipes'[2].r, pipes'[2].w}
        BY <1>0, <2>2, <3>1 DEF NoStray, Captured
      <3> QED BY <3>2, <3>3, <3>4, <3>5 DEF Settling, Pending, NoStray, Captured
    <2>7. CASE n = 2
      <3>1. NoStray(t, {})
        BY <1>1, <2>3, <2>5, <2>7 DEF Settling, NoStray
      <3> QED BY <1>2, <2>2, <2>3, <2>5, <2>7, <3>1 DEF Settling, NoStray, N
    <2> QED BY <2>6, <2>7 DEF N
  <1>4. ASSUME Start PROVE Settling'
    <2>1. /\ pc[Child] = "start" /\ pc'[Child] = "running"
          /\ fds' = [fds EXCEPT ![Child] = [i \in Fds |-> Started(@[i])]]
      BY <1>1, <1>4, EndedTable DEF Start, Goto, TypeOK, TypeOKProcess, Procs
    <2>2. \A i \in Fds : fds'[Child][i] = Started(fds[Child][i])
      BY <1>0, <2>1
    <2>3. \A n \in N : fds[Child][n] = Wanted(n) /\ fds[Child][n].what # "once"
      BY <1>1, <2>1 DEF Settling, Wanted, Object, N
    <2>4. \A n \in N : fds'[Child][n] = Wanted(n)
      BY <2>2, <2>3, StdFds DEF Started, N
    <2>5. \A i \in Fds \ N : fds'[Child][i].what \notin {"read", "write"}
      BY <1>1, <2>1, <2>2 DEF Settling, NoStray, Started, Closed, Object
    <2> QED BY <1>2, <2>1, <2>4, <2>5 DEF Settling, NoStray
  <1>5. ASSUME (\E n \in N : Write(n)) \/ ProgramEnds \/ \E n \in N : ConnectFails(n)
        PROVE  Settling'
    <2>1. UNCHANGED fds /\ pc[Child] = "running" /\ pc'[Child] = "running"
      BY <1>1, <1>5, EndedTable DEF Write, ProgramEnds, ConnectFails
    <2> QED BY <1>1, <1>2, <2>1 DEF Settling, NoStray
  <1> QED BY <1>3, <1>4, <1>5 DEF ChildSteps, ChildConnects


LEMMA SettlingStays ==
    ASSUME Settling, UNCHANGED <<asked, before, pipes>>,
           fds'[Child] = fds[Child], pc'[Child] = pc[Child]
    PROVE  Settling'
  BY DEF Settling, Pending, NoStray, Wanted, Captured, Apart

\* There is no child before the fork and nothing to say of it after its end.
LEMMA NothingSettling ==
    ASSUME pc'[Child] \in {"unborn", "ended"}
    PROVE  Settling'
  BY DEF Settling

LEMMA ParentSettling ==
    ASSUME TypeOK, Asking, Living, Table, Settling, ParentSteps
    PROVE  Settling'
  <1>0. /\ pc \in [Procs -> PCs] /\ fds \in [Procs -> Tables]
        /\ Parent \in Procs /\ Child \in Procs /\ Parent # Child
    BY DEF TypeOK, TypeOKProcess, Tables, Procs, Parent, Child
  <1>a. UNCHANGED <<asked, before>>
    BY ParentShape DEF Shape
  <1>1. ASSUME NEW n \in N, Prepare(n) PROVE Settling'
    <2>1. pc[Parent] \in {"prepare1", "prepare2"} /\ pc'[Child] = pc[Child]
      BY <1>0, <1>1 DEF Prepare, Failed, Goto
    <2> QED BY <2>1, NothingSettling DEF Living, Early
  <1>2. CASE Fork
    <2>1. pc[Child] = "unborn"
      BY <1>2 DEF Fork, Living
    <2>2. pc'[Child] = "unborn" \/ pc'[Child] = "child1"
      BY <1>0, <1>2, <2>1 DEF Fork, Failed, Goto
    <2>3. UNCHANGED pipes
      BY <1>2 DEF Fork
    <2>4. ASSUME pc'[Child] = "child1" PROVE Settling'
      <3>1. SUFFICES ASSUME Apart'
                     PROVE  /\ Pending(1, fds[Child])' /\ Pending(2, fds[Child])'
                            /\ NoStray(fds[Child], {1, 2})'
        BY <2>4, Zenon DEF Settling
      <3>2. Apart
        BY <1>a, <3>1 DEF Apart
      <3>3. Pending(1, fds'[Child]) /\ Pending(2, fds'[Child]) /\ NoStray(fds'[Child], {1, 2})
        BY <1>2, <2>4, <3>2, ForkSettling
      <3> QED BY <1>a, <2>3, <3>3 DEF Pending, NoStray, Captured
    <2> QED BY <2>2, <2>4, NothingSettling
  <1>3. ASSUME NEW n \in N, Read(n) PROVE Settling'
    BY <1>3, <1>a, SettlingStays DEF Read
  <1>4. CASE DoParent
    BY <1>0, <1>4, <1>a, SettlingStays DEF DoParent, Goto
  <1>5. CASE ReadAll \/ Unwind
    BY <1>0, <1>5, <1>a, SettlingStays DEF ReadAll, Unwind, Goto
  <1>6. CASE Wait \/ Reap
    <2>1. pc[Child] = "ended" /\ pc'[Child] = pc[Child]
      BY <1>0, <1>6 DEF Wait, Reap, Reaped, Goto
    <2> QED BY <2>1, NothingSettling
  <1>7. CASE WaitInterrupted \/ ReapInterrupted
    BY <1>0, <1>7, <1>a, SettlingStays DEF WaitInterrupted, ReapInterrupted, Goto, Failed
  <1>8. CASE KillChild
    <2>1. \/ pc'[Child] = "ended"
          \/ pc'[Child] = pc[Child] /\ UNCHANGED fds
      BY <1>0, <1>8 DEF KillChild, Goto
    <2>2. UNCHANGED pipes
      BY <1>8 DEF KillChild
    <2> QED BY <1>a, <2>1, <2>2, NothingSettling, SettlingStays
  <1> QED BY <1>1, <1>2, <1>3, <1>4, <1>5, <1>6, <1>7, <1>8 DEF ParentSteps

LEMMA SettlingKept ==
    ASSUME TypeOK, Asking, Living, Table, Settling, [Next]_vars
    PROVE  Settling'
  <1>1. CASE Begins
    <2>1. pc[Child] = "unborn" /\ pc'[Child] = pc[Child]
      BY <1>1, BeginsGoes DEF Living, Early
    <2> QED BY <2>1, NothingSettling
  <1>2. CASE Around
    <2>1. UNCHANGED <<asked, before, fds, pipes>> /\ pc'[Child] = pc[Child]
      BY <1>2 DEF Around, Mkdtemp, ResultInit, ResultFini, Unlink, Rmdir, Goto, Rest,
                  TypeOK, TypeOKProcess, Procs, Parent, Child
    <2> QED BY <2>1, SettlingStays
  <1>3. CASE ParentSteps
    BY <1>3, ParentSettling
  <1>4. CASE ChildSteps
    BY <1>4, ChildSettling
  <1>5. CASE UNCHANGED vars
    BY <1>5, SettlingStays DEF vars
  <1> QED BY <1>1, <1>2, <1>3, <1>4, <1>5 DEF Next, CallerSteps, Begins, Around

-----------------------------------------------------------------------------
(* The invariant and what follows from it *)

LEMMA IInvInit == Init => IInv
  <1> SUFFICES ASSUME Init PROVE IInv
    OBVIOUS
  <1>0. /\ pc[Parent] = "idle" /\ pc[Child] = "unborn" /\ use = "none"
        /\ end = "none" /\ status = "none" /\ dir = "none" /\ files = {}
        /\ \A n \in N : asked[n] = Inherit /\ pipes[n].made = FALSE /\ kept[n] = -1
        /\ \A n, m \in N : got[n][m] = 0
        /\ \A n \in N : text["write"][n] = 0
        /\ fds[Parent] = before /\ fds[Child] = [i \in Fds |-> Closed]
        /\ \E S \in SUBSET MayLack : before = Without(S)
    BY DEF Init, InitProcess, Procs, Parent, Child, NoPipe, N
  <1>1. Asking
    BY <1>0 DEF Asking, Offers, Captured, Inherit, Clearing
  <1>2. Living
    BY <1>0 DEF Living, Early, Preparing, Attached, Clearing, Over, ChildPCs
  <1>3. Table
    BY <1>0 DEF Table, Early, Preparing, Attached, Clearing, Over
  <1>4. \A p \in Procs, i \in Fds : fds[p][i].what # "write"
    BY <1>0 DEF Procs, Without, Object, Closed
  <1>5. Written
    BY <1>0, <1>4 DEF Written
  <1>6. Kept
    BY <1>0 DEF Kept, Early, Preparing, Attached, Clearing, Over
  <1>7. Settling
    BY <1>0 DEF Settling
  <1> QED BY <1>1, <1>2, <1>3, <1>5, <1>6, <1>7, TypesInit DEF IInv

LEMMA IInvKept == IInv /\ [Next]_vars => IInv'
  BY TypesKept, AskingKept, LivingKept, TableKept, WrittenKept, KeptKept, SettlingKept, Zenon
     DEF IInv

LEMMA IInvAlways == Spec => []IInv
  BY IInvInit, IInvKept, PTL DEF Spec

\* Every variable has its type: no stream, descriptor or state of a call is
\* ever anything the code has no case for.
THEOREM TypeCorrect == Spec => []TypeOK
  BY IInvAlways, PTL DEF IInv

\* For any number of descriptors, a program starts with the standard output
\* and error asked for, and holds no other end of a pipe (child_connect,
\* safe_dup).
THEOREM StreamsAlwaysAsAsked == Spec => []ChildStreams
  <1>1. IInv => ChildStreams
    BY DEF IInv, Settling, NoStray, ChildStreams
  <1> QED BY <1>1, IInvAlways, PTL

\* However a call ends, and whichever standard descriptors the caller lacked,
\* it is left with the descriptors it had (stream_prepare_fini,
\* parent_connect, atf_process_child_fini).
THEOREM ParentAlwaysKeeps == Spec => []ParentKeeps
  <1>1. IInv => ParentKeeps
    BY DEF IInv, Table, Over, Clearing, ParentKeeps
  <1> QED BY <1>1, IInvAlways, PTL

\* For any size of a pipe and any amount of text, a caller of fork that read
\* its descriptors to their ends and has the status got, for each stream, all that
\* was written to that stream's pipe, and nothing of the other's: the descriptor
\* parent_connect keeps for a stream is the reading end of its own pipe.
THEOREM CaptureAlwaysWhole == Spec => []CaptureWhole
  <1>1. IInv => CaptureWhole
    BY DEF IInv, Written, CaptureWhole
  <1> QED BY <1>1, IInvAlways, PTL

\* While the result of a check is kept its temporary directory is there, with
\* both files if the program succeeded; after the result, and after every
\* error, there is no directory and no file; and it can be removed unless a wait
\* was interrupted (atf_check_exec_array, cleanup_tmpdir).
THEOREM AlwaysTidy == Spec => []TmpTidy
  <1>1. IInv => TmpTidy
    BY DEF IInv, Kept, Living, TmpTidy
  <1> QED BY <1>1, IInvAlways, PTL
=============================================================================
