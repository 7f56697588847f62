------------------------------ MODULE ModOrder ------------------------------
(***************************************************************************)
(* The module build order of one framework: scripts/gen-mod-order.sh, and  *)
(* the parse of mk.framework.mk that runs it and includes what it wrote.   *)
(*                                                                         *)
(* Every parse of a framework's makefile runs the generator (a "shell" of  *)
(* this module), which lists the *.m directories, asks each module's       *)
(* makefile for LIBS=, LIB= and PROG=, sorts the modules in passes, writes *)
(* the order to a file of its own and renames it over the framework's      *)
(* .gen-mod-order.mk.  The parse then includes that file, whoever wrote it *)
(* last.  Several parses of the same directory can be under way (two       *)
(* terminals, a nested make), makefiles can be edited meanwhile, a         *)
(* generator can be stopped by a signal, and `clean` deletes the file.     *)
(*                                                                         *)
(* gen-fw-order.sh is the same algorithm on PREREQS=, every framework      *)
(* having its directory name as its only identity.                         *)
(***************************************************************************)
EXTENDS Naturals, Sequences

CONSTANTS
    Modules,    \* the directories *.m, named without the suffix
    Names,      \* what LIBS=, LIB= and PROG= can hold
    LibPrefix,  \* LibPrefix[n] is the name "lib<n>"
    Pos,        \* a module's place in the order of the shell's glob
    Makefiles,  \* Makefiles[m]: the states module m's directory can be in
    Parses,     \* the parses of the framework's makefile, each made once
    MaxEdits,   \* bound: the edits of makefiles in a behaviour
    NoFile      \* a file that does not exist

(***************************************************************************)
(* What a module's makefile declares, as the queries see it, and a module  *)
(* directory: a "module" has a makefile bmake can read, "broken" one it    *)
(* cannot, "bare" has files but no makefile, "leftover" only build output. *)
(***************************************************************************)
Decl == [libs : SUBSET Names, lib : SUBSET Names, prog : SUBSET Names]
Kinds == {"module", "broken", "bare", "leftover", "absent"}
Directory == [kind : Kinds, decl : Decl]
NoDecl == [libs |-> {}, lib |-> {}, prog |-> {}]
Goals == {"build", "clean"}  \* a -V query parses as clean does

\* An order file. "whole" is false while it is being written; view is the
\* declarations the order was computed from, which the file does not hold.
File == [whole : BOOLEAN, mods : SUBSET Modules, order : Seq(Modules),
         deps : [Modules -> SUBSET Modules], view : [Modules -> Decl]]

ASSUME ModOrderAssumption ==
    /\ Modules \subseteq Names
    /\ LibPrefix \in [Names -> Names]
    /\ Pos \in [Modules -> Nat]
    /\ \A m, k \in Modules : Pos[m] = Pos[k] => m = k
    /\ Makefiles \in [Modules -> SUBSET Directory]
    /\ MaxEdits \in Nat
    /\ NoFile \notin File

-----------------------------------------------------------------------------
(* The names a module answers to, and what the sort asks of them.          *)

Ids(ds, m) ==
    {m} \cup ds[m].lib \cup {LibPrefix[n] : n \in ds[m].lib} \cup ds[m].prog

\* is_local: some listed module answers to the name.
IsLocal(ms, ds, dep) == \E m \in ms : dep \in Ids(ds, m)

\* is_satisfied: some module already in the order answers to it.
IsSatisfied(order, ds, dep) ==
    \E i \in DOMAIN order : dep \in Ids(ds, order[i])

Ready(ms, ds, order, m) ==
    \A dep \in ds[m].libs :
        IsLocal(ms, ds, dep) => IsSatisfied(order, ds, dep)

\* local_mod_of: the first module of the glob that answers to the name.
IsLocalModOf(ms, ds, dep, m) ==
    /\ m \in ms
    /\ dep \in Ids(ds, m)
    /\ \A k \in ms : dep \in Ids(ds, k) => Pos[m] <= Pos[k]

\* Mutants: MODULE_DEPS holds the LIBS= names themselves; or only the modules
\* named by their directory.
ModuleDepsNames(ms, ds, m) == ds[m].libs
ModuleDepsByDirectory(ms, ds, m) == (ms \cap ds[m].libs) \ {m}

\* MODULE_DEPS.<m>.m: the modules behind m's LIBS=, itself left out.
ModuleDeps(ms, ds, m) ==
    {k \in ms : \E dep \in ds[m].libs : IsLocalModOf(ms, ds, dep, k)} \ {m}

-----------------------------------------------------------------------------
VARIABLES
    tree,      \* the module directories
    cache,     \* .gen-mod-order.mk
    tmp,       \* tmp[p]: .gen-mod-order.mk.tmp.<pid>
    pc,        \* pc[p]: where parse p, or the generator it runs, is
    goal,      \* goal[p]: what p was asked for
    mods,      \* mods[p]: $mods
    todo,      \* todo[p]: names the running loop has still to visit
    view,      \* view[p]: the dep_ and ids_ files of the queries
    sorted,    \* sorted[p]: $sorted
    still,     \* still[p]: $still_remaining
    progress,  \* progress[p]: $progress
    included,  \* included[p]: what p's .include read
    quiet,     \* quiet[p]: no edit and no other parse's write since p began
    edits      \* the edits so far

gen == <<mods, todo, view, sorted, still, progress>>
vars == <<tree, cache, tmp, pc, goal, gen, included, quiet, edits>>

PCs == {"idle", "query", "sort", "open", "write", "rename", "include",
        "failed", "cycle", "parsed", "refused", "killed", "cleaned"}
Running == {"query", "sort", "open", "write", "rename"}

NoView == [m \in Modules |-> NoDecl]

TypeOK ==
    /\ tree \in [Modules -> Directory]
    /\ cache \in File \cup {NoFile}
    /\ tmp \in [Parses -> File \cup {NoFile}]
    /\ pc \in [Parses -> PCs]
    /\ goal \in [Parses -> Goals]
    /\ mods \in [Parses -> SUBSET Modules]
    /\ todo \in [Parses -> SUBSET Modules]
    /\ view \in [Parses -> [Modules -> Decl]]
    /\ sorted \in [Parses -> Seq(Modules)]
    /\ still \in [Parses -> SUBSET Modules]
    /\ progress \in [Parses -> BOOLEAN]
    /\ included \in [Parses -> File \cup {NoFile}]
    /\ quiet \in [Parses -> BOOLEAN]
    /\ edits \in 0..MaxEdits

\* The states the framework's directory can be in.
Trees == {t \in [Modules -> UNION {Makefiles[m] : m \in Modules}] :
            \A m \in Modules : t[m] \in Makefiles[m]}

Init ==
    /\ tree \in Trees
    /\ cache = NoFile
    /\ tmp = [p \in Parses |-> NoFile]
    /\ pc = [p \in Parses |-> "idle"]
    /\ goal = [p \in Parses |-> "build"]
    /\ mods = [p \in Parses |-> {}]
    /\ todo = [p \in Parses |-> {}]
    /\ view = [p \in Parses |-> NoView]
    /\ sorted = [p \in Parses |-> <<>>]
    /\ still = [p \in Parses |-> {}]
    /\ progress = [p \in Parses |-> TRUE]
    /\ included = [p \in Parses |-> NoFile]
    /\ quiet = [p \in Parses |-> FALSE]
    /\ edits = 0

\* The modules the loop over *.m keeps: leftovers are skipped with a warning.
Listed == {m \in Modules : tree[m].kind \in {"module", "broken", "bare"}}

Alone(p) == [q \in Parses |-> quiet[q] /\ q = p]

\* The generator's process is gone, and its variables with it.
GenExits(p) ==
    /\ mods' = [mods EXCEPT ![p] = {}]
    /\ todo' = [todo EXCEPT ![p] = {}]
    /\ view' = [view EXCEPT ![p] = NoView]
    /\ sorted' = [sorted EXCEPT ![p] = <<>>]
    /\ still' = [still EXCEPT ![p] = {}]
    /\ progress' = [progress EXCEPT ![p] = TRUE]

(***************************************************************************)
(* A parse begins: bmake runs the generator, which lists the directories   *)
(* and goes on to query each module kept, in the order of the glob.  With  *)
(* no module it writes an empty order at once.                             *)
(***************************************************************************)
Start(p) ==
    /\ pc[p] = "idle"
    /\ \E g \in Goals : goal' = [goal EXCEPT ![p] = g]
    /\ pc' = [pc EXCEPT ![p] = IF Listed = {} THEN "open" ELSE "query"]
    /\ mods' = [mods EXCEPT ![p] = Listed]
    /\ todo' = [todo EXCEPT ![p] = Listed]
    /\ quiet' = [quiet EXCEPT ![p] = TRUE]
    /\ UNCHANGED <<tree, edits, cache, tmp, view, sorted, still, progress, included>>

\* The loop variable takes the names in glob order: still_remaining keeps it.
First(p, m) == m \in todo[p] /\ \A k \in todo[p] : Pos[m] <= Pos[k]

\* bmk_query succeeds: the module's LIBS=, LIB= and PROG= are kept.  After the
\* last one the sort begins, with every module remaining.
Query(p, m) ==
    /\ pc[p] = "query"
    /\ First(p, m)
    /\ tree[m].kind = "module"
    /\ view' = [view EXCEPT ![p][m] = tree[m].decl]
    /\ IF todo[p] = {m}
         THEN pc' = [pc EXCEPT ![p] = "sort"] /\ todo' = [todo EXCEPT ![p] = mods[p]]
         ELSE pc' = pc /\ todo' = [todo EXCEPT ![p] = todo[p] \ {m}]
    /\ UNCHANGED <<tree, edits, cache, tmp, goal, mods, sorted, still, progress, included, quiet>>

\* No makefile, or bmake cannot read it: exit 1.
QueryFails(p, m) ==
    /\ pc[p] = "query"
    /\ First(p, m)
    /\ tree[m].kind # "module"
    /\ pc' = [pc EXCEPT ![p] = "failed"]
    /\ GenExits(p)
    /\ UNCHANGED <<tree, edits, cache, tmp, goal, included, quiet>>

\* One turn of the inner loop: the module joins the order or waits.
Visit(p, m) ==
    /\ pc[p] = "sort"
    /\ First(p, m)
    /\ todo' = [todo EXCEPT ![p] = todo[p] \ {m}]
    /\ IF Ready(mods[p], view[p], sorted[p], m)
         THEN /\ sorted' = [sorted EXCEPT ![p] = Append(sorted[p], m)]
              /\ progress' = [progress EXCEPT ![p] = TRUE]
              /\ still' = still
         ELSE /\ still' = [still EXCEPT ![p] = still[p] \cup {m}]
              /\ UNCHANGED <<sorted, progress>>
    /\ UNCHANGED <<tree, edits, cache, tmp, pc, goal, mods, view, included, quiet>>

\* Mutant: progress is not reset, so that a cycle is sorted for ever.
NextPassKeepsProgress(p) ==
    /\ pc[p] = "sort"
    /\ todo[p] = {}
    /\ still[p] # {}
    /\ progress[p]
    /\ todo' = [todo EXCEPT ![p] = still[p]]
    /\ still' = [still EXCEPT ![p] = {}]
    /\ UNCHANGED <<tree, edits, cache, tmp, pc, goal, mods, view, sorted, progress, included, quiet>>

\* The end of a pass: another one over what remains, if this one placed a
\* module.
NextPass(p) ==
    /\ pc[p] = "sort"
    /\ todo[p] = {}
    /\ still[p] # {}
    /\ progress[p]
    /\ todo' = [todo EXCEPT ![p] = still[p]]
    /\ still' = [still EXCEPT ![p] = {}]
    /\ progress' = [progress EXCEPT ![p] = FALSE]
    /\ UNCHANGED <<tree, edits, cache, tmp, pc, goal, mods, view, sorted, included, quiet>>

\* Mutant: one pass only.
CycleAfterOnePass(p) ==
    /\ pc[p] = "sort"
    /\ todo[p] = {}
    /\ still[p] # {}
    /\ pc' = [pc EXCEPT ![p] = "cycle"]
    /\ UNCHANGED <<tree, edits, cache, tmp, goal, gen, included, quiet>>

\* A pass that placed nothing: "dependency cycle detected", exit 1.
Cycle(p) ==
    /\ pc[p] = "sort"
    /\ todo[p] = {}
    /\ still[p] # {}
    /\ ~progress[p]
    /\ pc' = [pc EXCEPT ![p] = "cycle"]
    /\ UNCHANGED <<tree, edits, cache, tmp, goal, gen, included, quiet>>

SortDone(p) ==
    /\ pc[p] = "sort"
    /\ todo[p] = {}
    /\ still[p] = {}
    /\ pc' = [pc EXCEPT ![p] = "open"]
    /\ UNCHANGED <<tree, edits, cache, tmp, goal, gen, included, quiet>>

\* What the generator of p prints: MODULE_SUBDIR= and the MODULE_DEPS.*.
Output(p, whole) ==
    [whole |-> whole, mods |-> mods[p], order |-> sorted[p],
     deps |-> [m \in Modules |-> IF m \in mods[p] THEN ModuleDeps(mods[p], view[p], m) ELSE {}],
     view |-> view[p]]

\* Mutant: the order is written in place.
OpenInPlace(p) ==
    /\ pc[p] = "open"
    /\ cache' = Output(p, FALSE)
    /\ pc' = [pc EXCEPT ![p] = "write"]
    /\ UNCHANGED <<tree, edits, tmp, goal, gen, included, quiet>>

\* { ... } > "$OUT.tmp.$$": the file appears, then is complete.
OpenTmp(p) ==
    /\ pc[p] = "open"
    /\ tmp' = [tmp EXCEPT ![p] = Output(p, FALSE)]
    /\ pc' = [pc EXCEPT ![p] = "write"]
    /\ UNCHANGED <<tree, edits, cache, goal, gen, included, quiet>>

WriteTmp(p) ==
    /\ pc[p] = "write"
    /\ tmp' = [tmp EXCEPT ![p] = Output(p, TRUE)]
    /\ pc' = [pc EXCEPT ![p] = "rename"]
    /\ UNCHANGED <<tree, edits, cache, goal, gen, included, quiet>>

\* mv -f "$OUT.tmp.$$" "$OUT"
Rename(p) ==
    /\ pc[p] = "rename"
    /\ cache' = tmp[p]
    /\ tmp' = [tmp EXCEPT ![p] = NoFile]
    /\ pc' = [pc EXCEPT ![p] = "include"]
    /\ quiet' = Alone(p)
    /\ GenExits(p)
    /\ UNCHANGED <<tree, edits, goal, included>>

\* Mutant: no trap for signals, the temporary file stays.
SignalNoTrap(p) ==
    /\ pc[p] \in Running
    /\ pc' = [pc EXCEPT ![p] = "failed"]
    /\ GenExits(p)
    /\ UNCHANGED <<tree, edits, cache, tmp, goal, included, quiet>>

\* HUP, INT or TERM, or a write that fails under set -e: the EXIT trap
\* removes the temporary file and the exit status says failure.
Signal(p) ==
    /\ pc[p] \in Running
    /\ tmp' = [tmp EXCEPT ![p] = NoFile]
    /\ pc' = [pc EXCEPT ![p] = "failed"]
    /\ GenExits(p)
    /\ UNCHANGED <<tree, edits, cache, goal, included, quiet>>

\* SIGKILL or a power cut: nothing runs, the temporary file stays.
Kill(p) ==
    /\ pc[p] \in Running
    /\ pc' = [pc EXCEPT ![p] = "killed"]
    /\ GenExits(p)
    /\ UNCHANGED <<tree, edits, cache, tmp, goal, included, quiet>>

\* .-include "${_ORDER_MK}" after the generator exited 0.
Include(p) ==
    /\ pc[p] = "include"
    /\ included' = [included EXCEPT ![p] = cache]
    /\ pc' = [pc EXCEPT ![p] = "parsed"]
    /\ UNCHANGED <<tree, edits, cache, tmp, goal, gen, quiet>>

\* Mutant: a build whose generator failed goes on with the file that is there.
RefuseNothing(p) ==
    /\ pc[p] \in {"failed", "cycle"}
    /\ goal[p] = "build"
    /\ included' = [included EXCEPT ![p] = cache]
    /\ pc' = [pc EXCEPT ![p] = "parsed"]
    /\ GenExits(p)
    /\ UNCHANGED <<tree, edits, cache, tmp, goal, quiet>>

\* The generator failed: .error for a build; -V and clean only warn and
\* include what an earlier run left.
Refuse(p) ==
    /\ pc[p] \in {"failed", "cycle"}
    /\ goal[p] = "build"
    /\ pc' = [pc EXCEPT ![p] = "refused"]
    /\ GenExits(p)
    /\ UNCHANGED <<tree, edits, cache, tmp, goal, included, quiet>>

Fallback(p) ==
    /\ pc[p] \in {"failed", "cycle"}
    /\ goal[p] # "build"
    /\ included' = [included EXCEPT ![p] = cache]
    /\ pc' = [pc EXCEPT ![p] = "parsed"]
    /\ GenExits(p)
    /\ UNCHANGED <<tree, edits, cache, tmp, goal, quiet>>

\* The recipe of clean: rm -f .gen-mod-order.mk.
Clean(p) ==
    /\ pc[p] = "parsed"
    /\ goal[p] = "clean"
    /\ cache' = NoFile
    /\ pc' = [pc EXCEPT ![p] = "cleaned"]
    /\ quiet' = Alone(p)
    /\ UNCHANGED <<tree, edits, tmp, goal, gen, included>>

\* A developer edits a makefile, or git switch adds or removes a module.
Edit(m) ==
    /\ \E d \in Makefiles[m] : d # tree[m] /\ tree' = [tree EXCEPT ![m] = d]
    /\ edits < MaxEdits
    /\ edits' = edits + 1
    /\ quiet' = [p \in Parses |-> FALSE]
    /\ UNCHANGED <<cache, tmp, pc, goal, gen, included>>

\* The steps the generator and the parse take by themselves.
Step(p) ==
    \/ \E m \in Modules : Query(p, m) \/ QueryFails(p, m) \/ Visit(p, m)
    \/ NextPass(p) \/ Cycle(p) \/ SortDone(p)
    \/ OpenTmp(p) \/ WriteTmp(p) \/ Rename(p)
    \/ Include(p) \/ Refuse(p) \/ Fallback(p)

Next ==
    \/ \E p \in Parses : Start(p) \/ Step(p) \/ Signal(p) \/ Kill(p) \/ Clean(p)
    \/ \E m \in Modules : Edit(m)

Spec == Init /\ [][Next]_vars

\* A shell and the bmake waiting for it are processes the system schedules.
\* Nothing obliges anyone to begin a parse, edit, clean or send a signal.
FairSpec == Spec /\ \A p \in Parses : WF_vars(Step(p))

-----------------------------------------------------------------------------
(* What the order promises.                                                *)

\* A complete order file: every listed module once, and each one after a
\* module that answers to each of its LIBS= names the framework knows.
Sound(f) ==
    /\ f.whole
    /\ {f.order[i] : i \in DOMAIN f.order} = f.mods
    /\ \A i, j \in DOMAIN f.order : f.order[i] = f.order[j] => i = j
    /\ \A i \in DOMAIN f.order : \A dep \in f.view[f.order[i]].libs :
         IsLocal(f.mods, f.view, dep) =>
           \E j \in 1..(i - 1) : dep \in Ids(f.view, f.order[j])

\* The order on disk, and the one any parse goes on with, is a complete
\* topological order of makefiles some generator read: whatever the
\* interleaving of generators, edits, signals, kills and clean, a half-written
\* or mis-sorted order is never published or read (mk.framework.mk's
\* regenerate-every-parse and gen-mod-order.sh's write-then-rename).
OrderSound ==
    /\ cache # NoFile => Sound(cache)
    /\ \A p \in Parses : included[p] # NoFile => Sound(included[p])

\* No two listed modules answer to the same name.
Unambiguous(f) ==
    \A m, k \in f.mods : m # k => Ids(f.view, m) \cap Ids(f.view, k) = {}

\* MODULE_DEPS, from which the build decides what to skip, agrees with the
\* order as long as the names are unambiguous: each entry of a module comes
\* before it, and each LIBS= name the framework knows has its module there
\* (gen-mod-order.sh computes the two lists by different rules).
DepsAgree ==
    cache # NoFile /\ Unambiguous(cache) =>
      \A i \in DOMAIN cache.order :
        LET m == cache.order[i] IN
        /\ cache.deps[m] \subseteq {cache.order[j] : j \in 1..(i - 1)}
        /\ \A dep \in cache.view[m].libs :
             IsLocal(cache.mods, cache.view, dep) =>
               \E k \in cache.deps[m] : dep \in Ids(cache.view, k)

\* A build whose directory nobody else touched since it began goes on with an
\* order of the makefiles as they are now, never with one an earlier run left
\* (regenerate on every parse, failure stops the build).
FreshWhenAlone ==
    \A p \in Parses :
      pc[p] = "parsed" /\ goal[p] = "build" /\ quiet[p] =>
        /\ included[p] # NoFile
        /\ included[p].mods = Listed
        /\ \A m \in Listed : tree[m].kind = "module" /\ included[p].view[m] = tree[m].decl

\* The generator says "dependency cycle" only when there is one: some listed
\* modules each wait for a name that only they answer to.
CycleIsReal ==
    \A p \in Parses : pc[p] = "cycle" =>
      \E S \in SUBSET mods[p] :
        /\ S # {}
        /\ \A m \in S : \E dep \in view[p][m].libs :
             /\ IsLocal(mods[p], view[p], dep)
             /\ \A k \in mods[p] : dep \in Ids(view[p], k) => k \in S

\* Nothing of a run stays, however it ends short of SIGKILL: a temporary file
\* exists only while its generator writes and renames it.
NoLitter ==
    \A p \in Parses : tmp[p] # NoFile => pc[p] \in {"write", "rename", "killed"}

\* Every generation comes to an end -- no pass repeats for ever -- and its
\* parse goes on or is refused, unless the run is killed.
ParseEnds ==
    \A p \in Parses :
      pc[p] = "query" ~> pc[p] \in {"parsed", "refused", "killed"}

\* The module that builds the library another one links (its LIB= is the LIBS=
\* name) is that one's prerequisite: built before it, and in its MODULE_DEPS.
LibraryIsPrerequisite ==
    cache # NoFile =>
      \A i \in DOMAIN cache.order : \A k \in cache.mods \ {cache.order[i]} :
        cache.view[cache.order[i]].libs \cap cache.view[k].lib # {} =>
          k \in cache.deps[cache.order[i]]
=============================================================================
