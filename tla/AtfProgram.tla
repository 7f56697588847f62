----------------------------- MODULE AtfProgram -----------------------------
(***************************************************************************)
(* A test program of the bundled ATF from its command line to the test     *)
(* case it runs: the main of a C program (atf-c/detail/tp_main.c, tp.c)    *)
(* and that of a C++ one (atf-c++/tests.cpp), which do the same things in  *)
(* another order and with other parsers, and what a native Windows build   *)
(* does to the command line before either (atf-bmk/win/atfw-compat.c).     *)
(*                                                                         *)
(* What the user asks for is a request; the command line is one of the     *)
(* ways of writing it.  The main sees only the command line, and the       *)
(* properties hold what it did against the request.                        *)
(***************************************************************************)
EXTENDS AtfWords

CONSTANTS
    Tokens,    \* what words are made of
    Requests,  \* [opts : Seq([flag, arg]), names : Seq(words)]
    Forms,     \* of "apart", "joined", "cluster": ways to write one
    Hosts,     \* [lang, windows, root, argv0, cwd]: a program and where it starts
    Files,     \* the absolute paths there are, as the kernel resolves them
    Tests,     \* the test cases in the order they are added: [ident, head, cleanup]
    Queries    \* what a body asks of its configuration: [name, kind, default]

Texts == Seq(Tokens)

\* A host is as its kernel has it: the working directory is absolute, and the
\* last name of argv[0] is the program's.  Test cases are declared by macros
\* that name them by identifiers, and atf_tp_add_tc (tp.c:180) wants them to differ.
ASSUME AtfProgramAssumption ==
    /\ {"/", ".", "-", "C:", "dev", "stdout", "l", "srcdir", "ident", "has.cleanup", "true",
        "no", "arg"} \subseteq Tokens
    /\ Requests \subseteq [opts : Seq([flag : Tokens, arg : Texts]), names : Seq(Texts)]
    /\ Hosts \subseteq [lang : {"C", "C++"}, windows : BOOLEAN, root : Texts,
                        argv0 : Texts, cwd : Texts]
    /\ \A h \in Hosts :
        /\ h.cwd # Empty /\ h.argv0 # Empty
        /\ IF h.windows THEN Len(h.cwd) > 1 /\ h.cwd[1] = "C:" /\ h.cwd[2] = "/"
           ELSE h.cwd[1] = "/"
        /\ Last(h.argv0) \notin {"/", "\\", "lt-"}
    /\ Tests \in Seq([ident : Texts, head : Seq(Texts \X Texts), cleanup : BOOLEAN])
    /\ \A i, j \in DOMAIN Tests : Tests[i].ident = Tests[j].ident => i = j

None == "none"   \* getopt has no more options
NoPath == Empty  \* there is no such path

VARIABLES
    req,      \* the request
    form,     \* how it is written
    host,     \* the program and where it starts
    argv,     \* the command line, argv[0] left out
    ind,      \* optind
    pos,      \* where in argv[ind] getopt is
    opts,     \* what the options have said
    config,   \* the -v map, then with srcdir
    tcs,      \* the test cases initialised
    ran,      \* the parts of test cases that ran, with what they got
    listed,   \* what -l printed
    pc,       \* the step
    outcome   \* how the process ended

vars == <<req, form, host, argv, ind, pos, opts, config, tcs, ran, listed, pc, outcome>>

request == <<req, form, host>>

Cxx == host.lang = "C++"

\* struct params, without the configuration; srcdir is Empty in C++ as long
\* as there is no -s.
Maps == Seq(Texts \X Texts)

Params == [list : BOOLEAN, srcdir : Texts, resfile : Texts,
           tcname : Texts, part : {"body", "cleanup"}, names : Seq(Texts)]

-----------------------------------------------------------------------------
(* Writing a request *)

NoArg == <<"no", "arg">>
WantArg == {"r", "s", "v"}

Dashed(o) == <<"-", o.flag>>

\* The words of one option.
Written(o, how) ==
    IF o.flag \notin WantArg \/ o.arg = NoArg THEN <<Dashed(o)>>
    ELSE IF how = "joined" /\ o.arg # Empty THEN <<Dashed(o) \o o.arg>>
    ELSE <<Dashed(o), o.arg>>

\* An option after -l is written into the same word.
Clustered(line, o) ==
    IF line # Empty /\ Last(line) = <<"-", "l">>
    THEN Front(line) \o << <<"-", "l", o.flag>> >> \o Tail(Written(o, "apart"))
    ELSE line \o Written(o, "apart")

PutOption(how, line, o) ==
    IF how = "cluster" THEN Clustered(line, o) ELSE line \o Written(o, how)

\* "--" may end the options, unless the last of them would take it.
CommandLine(r, how) ==
    LET lacks == r.opts # Empty /\ Last(r.opts).arg = NoArg
        end == IF how = "joined" /\ ~lacks THEN << <<"-", "-">> >> ELSE Empty
    IN  FoldLeft(LAMBDA line, o : PutOption(how, line, o), Empty, r.opts) \o end \o r.names

-----------------------------------------------------------------------------
(* Paths, as this host has them *)

\* /cygdrive/c, or something below it; "c" is the letter of the one drive there
\* is.  A longer name is no drive's.
OnDrive(w) ==
    /\ Len(w) > 3 /\ SubSeq(w, 1, 3) = <<"/", "cygdrive", "/">>
    /\ w[4] = "c" /\ (Len(w) > 4 => w[5] = "/")

\* Any other absolute path but //server/share.
IsCygwin(w) == Len(w) > 0 /\ w[1] = "/" /\ (Len(w) > 1 => w[2] # "/")

\* A Cygwin path as a Windows one.  NoPath: there is no Cygwin root to put it
\* under.
NativePath(w) ==
    IF OnDrive(w) THEN <<"C:">> \o (IF Len(w) = 4 THEN <<"/">> ELSE After(w, 4))
    ELSE IF IsCygwin(w)
    THEN IF host.root = NoPath THEN NoPath ELSE host.root \o w
    ELSE w

IsAbsolute(p) ==
    \/ p[1] = "/"
    \/ host.windows /\ Len(p) > 1 /\ p[1] = "C:" /\ p[2] = "/"

FromRoot(p) == IF IsAbsolute(p) THEN p ELSE ToAbsolute(host.cwd, p)

\* The file a path leads to, from the working directory.
StepInto(q, n) == IF n = <<".">> THEN q ELSE q \o <<"/">> \o n
Below(top, names) == FoldLeft(StepInto, top, names)

Resolve(p) ==
    LET names == Split(FromRoot(p), "/")
    IN  IF host.windows /\ FromRoot(p)[1] = "C:" THEN Below(names[1], Tail(names))
        ELSE Below(Empty, names)

\* atf_fs_exists: "error" for any failure other than ENOENT, as a directory
\* of the path that is a file.
Exists(p) ==
    IF Resolve(p) \in Files THEN "yes"
    ELSE IF \E f \in Files : \E n \in 1..(Len(Resolve(p)) - 1) : f = SubSeq(Resolve(p), 1, n)
    THEN "error"
    ELSE "no"

\* atfw_slashes.
Slashes(w) == [i \in DOMAIN w |-> IF w[i] = "\\" THEN "/" ELSE w[i]]

Argv0 == IF host.windows THEN Slashes(host.argv0) ELSE host.argv0

\* progname, Program_Name: the leaf of argv[0] without libtool's prefix.
ProgName ==
    LET leaf == LeafName(Argv0) IN IF leaf[1] = "lt-" THEN Tail(leaf) ELSE leaf

-----------------------------------------------------------------------------
Init ==
    /\ req \in Requests
    /\ form \in Forms
    /\ host \in Hosts
    /\ argv = CommandLine(req, form)
    /\ ind = 1 /\ pos = 2
    /\ opts = [list |-> FALSE,
               srcdir |-> IF Cxx THEN Empty ELSE BranchPath(Normalize(Argv0)),
               resfile |-> <<"/", "dev", "/", "stdout">>,
               tcname |-> Empty, part |-> "body", names |-> Empty]
    /\ config = Empty
    /\ tcs = Empty
    /\ ran = Empty
    /\ listed = Empty
    /\ pc = IF host.windows THEN "enter" ELSE "options"
    /\ outcome = "running"

-----------------------------------------------------------------------------
(* Parts of steps *)

Goto(l) == pc' = l /\ UNCHANGED outcome
Finish(how) == pc' = "ended" /\ outcome' = how

\* "usage" and "user" are reported, "thrown" is an exception main does not
\* catch, "abort" a precondition or a fatal error.
Fail(how) == Finish(how) /\ UNCHANGED <<opts, config>>

-----------------------------------------------------------------------------
(* Windows: before main *)

\* What atfw_enter makes of the argument of -r or -s.
Entered(w) == IF NativePath(w) = NoPath THEN w ELSE NativePath(w)

IsOption(w) == Len(w) > 0 /\ w[1] = "-"
IsPathOption(w) == Len(w) > 1 /\ w[2] \in {"r", "s"}

\* Mutant: the value of -v is looked at as an option would be.
SkipsNothing(w) == FALSE

\* -v and its value in a word of its own.
SkipsNext(w) == w = <<"-", "v">>

\* atfw_enter scans the options by its own rules: it knows no clusters.
Scan(line, s, i) ==
    IF s.stop \/ i < s.next THEN s
    ELSE IF ~IsOption(line[i]) \/ line[i] = <<"-", "-">> THEN [s EXCEPT !.stop = TRUE]
    ELSE IF IsPathOption(line[i]) /\ Len(line[i]) > 2
    THEN [s EXCEPT !.line[i] = SubSeq(line[i], 1, 2) \o Entered(After(line[i], 2))]
    ELSE IF IsPathOption(line[i]) /\ i < Len(line)
    THEN [s EXCEPT !.line[i + 1] = Entered(line[i + 1]), !.next = i + 2]
    ELSE IF SkipsNext(line[i]) THEN [s EXCEPT !.next = i + 2]
    ELSE s

EnteredLine(line) ==
    FoldLeft(LAMBDA s, i : Scan(line, s, i), [line |-> line, stop |-> FALSE, next |-> 1],
             [i \in DOMAIN line |-> i]).line

Enter ==
    /\ pc = "enter"
    /\ argv' = EnteredLine(argv)
    /\ Goto("options")
    /\ UNCHANGED <<request, ind, pos, opts, config, tcs, ran, listed>>

-----------------------------------------------------------------------------
(* The options *)

\* getopt(3), as it answers for ":lr:s:v:": c is the option, "?" or ":", or
\* None at the end of the options.
GetOpt ==
    LET w == argv[ind]
        rest == After(w, pos)
        more == [ind |-> ind, pos |-> pos + 1]
        next == [ind |-> ind + 1, pos |-> 2]
        answer(c, a, at) == [c |-> c, arg |-> a, ind |-> at.ind, pos |-> at.pos]
    IN  IF ind > Len(argv) \/ ~IsOption(w) \/ Len(w) = 1
        THEN answer(None, Empty, [ind |-> ind, pos |-> 2])
        ELSE IF w = <<"-", "-">> THEN answer(None, Empty, next)
        ELSE IF w[pos] \notin WantArg
        THEN answer(IF w[pos] = "l" THEN "l" ELSE "?", Empty, IF rest = Empty THEN next ELSE more)
        ELSE IF rest # Empty THEN answer(w[pos], rest, next)
        ELSE IF ind < Len(argv) THEN answer(w[pos], argv[ind + 1], [next EXCEPT !.ind = ind + 2])
        ELSE answer(":", Empty, next)

ToOptions(o) == ind' = o.ind /\ pos' = o.pos

\* The loop goes on with what the option has set.
Took(p, c) == Goto("options") /\ opts' = p /\ config' = c

\* parse_vflag of tp_main.c: the variable ends at the first "=".
ParseVflag(w) ==
    LET i == FindCh(w, "=")
    IN  IF i = 0 THEN Fail("usage")
        ELSE Took(opts, Insert(config, Before(w, i), After(w, i)))

\* parse_vflag of tests.cpp: what is between the "=" counts, not where they are.
CxxParseVflag(w) ==
    LET ws == Split(w, "=")
    IN  CASE Len(ws) = 1 /\ Last(w) = "=" -> Took(opts, Insert(config, ws[1], Empty))
          [] Len(ws) = 2 -> Took(opts, Insert(config, ws[1], ws[2]))
          [] OTHER -> Fail("thrown")

\* What both loops do with the options that are alike.
Takes(o) ==
    CASE o.c = "l" -> Took([opts EXCEPT !.list = TRUE], config)
      [] o.c = "r" /\ o.arg # Empty -> Took([opts EXCEPT !.resfile = Normalize(o.arg)], config)
      [] o.c \in {"?", ":"} -> Fail("usage")
      [] OTHER -> Fail("abort")

\* A turn of the loop of process_params: a path is made of the argument of -r
\* and -s, and there is no path of no characters.
Option ==
    /\ pc = "options" /\ ~Cxx
    /\ GetOpt.c # None
    /\ ToOptions(GetOpt)
    /\ LET o == GetOpt IN
        CASE o.c = "s" /\ o.arg # Empty ->
                Took([opts EXCEPT !.srcdir = Normalize(o.arg)], config)
          [] o.c = "v" -> ParseVflag(o.arg)
          [] OTHER -> Takes(o)
    /\ UNCHANGED <<request, argv, tcs, ran, listed>>

\* A turn of the loop of safe_main: -s is kept as it is, and an empty one is
\* as good as none.
CxxOption ==
    /\ pc = "options" /\ Cxx
    /\ GetOpt.c # None
    /\ ToOptions(GetOpt)
    /\ LET o == GetOpt IN
        CASE o.c = "s" -> Took([opts EXCEPT !.srcdir = o.arg], config)
          [] o.c = "v" -> CxxParseVflag(o.arg)
          [] OTHER -> Takes(o)
    /\ UNCHANGED <<request, argv, tcs, ran, listed>>

\* getopt is done; C looks at the test case names next and C++ at the
\* source directory.
EndOfOptions ==
    /\ pc = "options"
    /\ GetOpt.c = None
    /\ ToOptions(GetOpt)
    /\ opts' = [opts EXCEPT !.names = After(argv, GetOpt.ind - 1)]
    /\ Goto(IF Cxx THEN "srcdir" ELSE "names")
    /\ UNCHANGED <<request, argv, config, tcs, ran, listed>>

-----------------------------------------------------------------------------
(* The test case names *)

\* Mutant: any part goes.
AnyPartArg(w) ==
    LET i == FindCh(w, ":")
    IN  [name |-> IF i = 0 THEN w ELSE Before(w, i),
         part |-> IF i = 0 \/ After(w, i) = <<"body">> THEN "body"
                  ELSE IF After(w, i) = <<"cleanup">> THEN "cleanup" ELSE "other"]

\* handle_tcarg, process_tcarg: the name ends at the first ":", and the part
\* after it is "wrong" unless it is one of the two there are.
TestCaseArg(w) ==
    LET i == FindCh(w, ":")
        part == IF i = 0 THEN <<"body">> ELSE After(w, i)
    IN  [name |-> IF i = 0 THEN w ELSE Before(w, i),
         part |-> CASE part = <<"body">> -> "body"
                    [] part = <<"cleanup">> -> "cleanup"
                    [] OTHER -> "wrong"]

\* The end of process_params: -l takes no name, and there is one without.
Names ==
    /\ pc = "names" /\ ~Cxx
    /\ IF Len(opts.names) # (IF opts.list THEN 0 ELSE 1) THEN Fail("usage")
       ELSE IF opts.list THEN Goto("srcdir") /\ UNCHANGED <<opts, config>>
       ELSE LET arg == TestCaseArg(opts.names[1]) IN
            IF arg.part = "wrong" THEN Fail("usage")
            ELSE /\ opts' = [opts EXCEPT !.tcname = arg.name, !.part = arg.part]
                 /\ Goto("srcdir")
                 /\ UNCHANGED config
    /\ UNCHANGED <<request, argv, ind, pos, tcs, ran, listed>>

\* safe_main counts the names only; run_tc looks into the one there is.
CxxNames ==
    /\ pc = "names" /\ Cxx
    /\ IF Len(opts.names) # (IF opts.list THEN 0 ELSE 1) THEN Fail("usage")
       ELSE Goto("add") /\ UNCHANGED <<opts, config>>
    /\ UNCHANGED <<request, argv, ind, pos, tcs, ran, listed>>

-----------------------------------------------------------------------------
(* The source directory *)

Libs == <<".libs">>
Srcdir == <<"srcdir">>

\* srcdir_strip_libtool: what is built by libtool is a directory further down.
StripLibtool(dir) == IF LeafName(dir) = Libs THEN BranchPath(dir) ELSE dir

\* handle_srcdir of tp_main.c: absolute first, then out of libtool's
\* directory, whether -s named it or not.
SourceDir == StripLibtool(FromRoot(opts.srcdir))

FindSrcdir ==
    /\ pc = "srcdir" /\ ~Cxx
    /\ IF Exists(AppendTo(SourceDir, ProgName)) = "yes"
       THEN config' = Insert(config, Srcdir, SourceDir) /\ Goto("add") /\ UNCHANGED opts
       ELSE Fail("user")
    /\ UNCHANGED <<request, argv, ind, pos, tcs, ran, listed>>

\* handle_srcdir of tests.cpp: a -s is taken as it is; a failure to look for
\* the program is an exception.
CxxSourceDir ==
    LET own == CxxBranchPath(Normalize(Argv0))
    IN  IF opts.srcdir # Empty THEN Normalize(opts.srcdir)
        ELSE IF LeafName(own) = Libs THEN CxxBranchPath(own)
        ELSE own

\* Mutant: the directory stays relative.
CxxAsItIs(dir) == dir

CxxMakeAbsolute(dir) == IF IsAbsolute(dir) THEN dir ELSE CxxToAbsolute(host.cwd, dir)

CxxFindSrcdir ==
    /\ pc = "srcdir" /\ Cxx
    /\ LET there == Exists(AppendTo(CxxSourceDir, ProgName)) IN
        CASE there = "yes" ->
                /\ config' = Insert(config, Srcdir, CxxMakeAbsolute(CxxSourceDir))
                /\ Goto("names")
                /\ UNCHANGED opts
          [] there = "no" -> Fail("usage")
          [] OTHER -> Fail("thrown")
    /\ UNCHANGED <<request, argv, ind, pos, tcs, ran, listed>>

-----------------------------------------------------------------------------
(* The test cases *)

Ident == <<"ident">>
HasCleanup == <<"has.cleanup">>

\* atf_tc_init: the map of meta-data starts with the identifier, and the
\* head adds to it.
TcInit(t, array) ==
    LET given == Insert(Empty, Ident, t.ident)
        start == IF t.cleanup THEN Insert(given, HasCleanup, <<"true">>) ELSE given
    IN  [ident |-> t.ident, cleanup |-> t.cleanup,
         config |-> InitCharpp(array), vars |-> InsertAll(start, t.head)]

\* The next test case, unless its head changed the identifier, which is a
\* fatal error.
Added(tc) ==
    IF Value(tc.vars, Ident) # tc.ident THEN Fail("abort") /\ UNCHANGED tcs
    ELSE tcs' = Append(tcs, tc) /\ Goto("add") /\ UNCHANGED <<opts, config>>

Adding == pc = "add" /\ Len(tcs) < Len(Tests)
Ready == pc = "add" /\ Len(tcs) = Len(Tests)
NextTest == Tests[Len(tcs) + 1]

\* ATF_TP_ADD_TC, from a copy of the configuration that atf_tp_init copied.
AddTc ==
    /\ Adding /\ ~Cxx
    /\ Added(TcInit(NextTest, ToCharpp(InitCharpp(ToCharpp(config)))))
    /\ UNCHANGED <<request, argv, ind, pos, ran, listed>>

\* init_tcs, tc::init.
CxxAddTc ==
    /\ Adding /\ Cxx
    /\ Added(TcInit(NextTest, ToCharpp(config)))
    /\ UNCHANGED <<request, argv, ind, pos, ran, listed>>

\* What is printed for one test case: its identifier first, then the rest, in
\* whatever order.
Listing(tc) ==
    [ident |-> Value(tc.vars, Ident),
     rest |-> {kv \in Range(tc.vars) : kv[1] # Ident}]

\* list_tcs of tp_main.c.
List ==
    /\ Ready /\ opts.list /\ ~Cxx
    /\ listed' = [i \in DOMAIN tcs |-> Listing(tcs[i])]
    /\ Finish("success")
    /\ UNCHANGED <<request, argv, ind, pos, opts, config, tcs, ran>>

\* list_tcs of tests.cpp: the meta-data goes through a std::map.
CxxList ==
    /\ Ready /\ opts.list /\ Cxx
    /\ listed' = [i \in DOMAIN tcs |->
                    Listing([tcs[i] EXCEPT !.vars = InitCharpp(ToCharpp(@))])]
    /\ Finish("success")
    /\ UNCHANGED <<request, argv, ind, pos, opts, config, tcs, ran>>

\* find_tc of tp.c: the first test case of the name.
FindTc(name) == {i \in DOMAIN tcs : tcs[i].ident = name
                                    /\ \A j \in 1..(i - 1) : tcs[j].ident # name}

\* find_tc of tests.cpp asks the meta-data.
CxxFindTc(name) ==
    {i \in DOMAIN tcs : Value(tcs[i].vars, Ident) = name
                        /\ \A j \in 1..(i - 1) : Value(tcs[j].vars, Ident) # name}

\* A variable's value, or for one that is not there the default: not for one
\* that is no boolean or no number, for which the test case fails.
GetConfigVar(tc, q) == IF Has(tc.config, q.name) THEN Value(tc.config, q.name) ELSE q.default

GetConfigVarAsBool(tc, q) ==
    IF Has(tc.config, q.name) THEN ToBool(Value(tc.config, q.name)) ELSE q.default

GetConfigVarAsLong(tc, q) ==
    IF Has(tc.config, q.name) THEN ToLong(Value(tc.config, q.name)) ELSE q.default

\* atf_tp_run: the body asks for one variable; C++ has no getter but that of
\* the text.  How a body ends is not this module's.
Body(tc) ==
    \E q \in Queries :
        /\ Cxx => q.kind = "text"
        /\ ran' = <<[ident |-> tc.ident, part |-> "body", resfile |-> opts.resfile,
                     query |-> q,
                     got |-> CASE q.kind = "bool" -> GetConfigVarAsBool(tc, q)
                               [] q.kind = "long" -> GetConfigVarAsLong(tc, q)
                               [] OTHER -> GetConfigVar(tc, q)]>>
        /\ Finish("verdict")

\* atf_tc_cleanup: nothing, for a test case without a cleanup.
Cleanup(tc) ==
    /\ ran' = IF tc.cleanup THEN <<[ident |-> tc.ident, part |-> "cleanup"]>> ELSE Empty
    /\ Finish("success")

Unknown == Finish("usage") /\ UNCHANGED ran
RunPart(tc, part) == IF part = "body" THEN Body(tc) ELSE Cleanup(tc)

\* run_tc of tp_main.c.
Run ==
    /\ Ready /\ ~opts.list /\ ~Cxx
    /\ IF FindTc(opts.tcname) = {} THEN Unknown
       ELSE \E i \in FindTc(opts.tcname) : RunPart(tcs[i], opts.part)
    /\ UNCHANGED <<request, argv, ind, pos, opts, config, tcs, listed>>

\* run_tc of tests.cpp, which looks into the argument only now.
CxxRun ==
    /\ Ready /\ ~opts.list /\ Cxx
    /\ LET arg == TestCaseArg(opts.names[1]) IN
        IF arg.part = "wrong" \/ CxxFindTc(arg.name) = {} THEN Unknown
        ELSE \E i \in CxxFindTc(arg.name) : RunPart(tcs[i], arg.part)
    /\ UNCHANGED <<request, argv, ind, pos, opts, config, tcs, listed>>

-----------------------------------------------------------------------------
Next ==
    \/ Enter \/ EndOfOptions
    \/ Option \/ Names \/ FindSrcdir \/ AddTc \/ List \/ Run
    \/ CxxOption \/ CxxFindSrcdir \/ CxxNames \/ CxxAddTc \/ CxxList \/ CxxRun

Spec == Init /\ [][Next]_vars

-----------------------------------------------------------------------------
(* What was asked for, read off the request *)

Given(flag) == {i \in DOMAIN req.opts : req.opts[i].flag = flag /\ req.opts[i].arg # NoArg}
LastArg(flag, default) ==
    IF Given(flag) = {} THEN default ELSE req.opts[Max(Given(flag))].arg

\* What can be written: "--" is no option; an option that takes no argument has
\* none, and one that lacks its argument comes last; nothing that starts with
\* "-" is a name; and an argument that looks like -l would take the next option.
Writable ==
    /\ \A i \in DOMAIN req.opts :
        LET o == req.opts[i] IN
        /\ o.flag # "-"
        /\ o.flag \notin WantArg => o.arg = Empty
        /\ o.arg = NoArg => i = Len(req.opts) /\ req.names = Empty
        /\ form = "cluster" => o.arg # <<"-", "l">>
    /\ req.names # Empty => ~IsOption(req.names[1])

\* Both mains read a -v alike when it has a name and one "=".
Plain(w) == \E i \in 2..Len(w) : Places(w, "=") = {i}
Readable ==
    Cxx => \A i \in Given("v") :
        Plain(req.opts[i].arg) \/ Places(req.opts[i].arg, "=") = {}

\* atfw_enter finds every -r and -s: Windows command lines have no clusters,
\* as Kyua's have none.
Separate == host.windows => form # "cluster"

VarOf(w) == Before(w, FindCh(w, "="))
ValueOf(w) == After(w, FindCh(w, "="))

AskedVars == {VarOf(req.opts[i].arg) : i \in Given("v")}
AskedValue(name) ==
    ValueOf(req.opts[Max({i \in Given("v") : VarOf(req.opts[i].arg) = name})].arg)

\* The directory that -s names, or the one the program started from, out of
\* libtool's; C++ takes a -s as it is.
AskedPath ==
    LET s == LastArg("s", Empty)
    IN  IF s = Empty THEN BranchPath(Normalize(Argv0))
        ELSE IF host.windows THEN Entered(s) ELSE s

AskedDir ==
    LET dir == Normalize(FromRoot(AskedPath))
    IN  IF (~Cxx \/ LastArg("s", Empty) = Empty) /\ LeafName(dir) = Libs THEN BranchPath(dir)
        ELSE dir

\* On Windows, the root of a drive without its slash: the code takes it for
\* a name in the working directory.
AtRoot == host.windows /\ <<"C:">> \in {Normalize(AskedPath), AskedDir}

\* Where a body's results are to go.
AskedResfile ==
    LET r == LastArg("r", Empty)
    IN  IF r = Empty THEN <<"/", "dev", "/", "stdout">>
        ELSE Normalize(IF host.windows THEN Entered(r) ELSE r)

Asks == [list |-> Given("l") # {},
         arg |-> IF Len(req.names) = 1 THEN TestCaseArg(req.names[1])
                 ELSE [name |-> Empty, part |-> "wrong"]]

\* A body, or the cleanup of a test case that has one.
AskedPart == \E t \in Range(Tests) :
    t.ident = Asks.arg.name /\ (Asks.arg.part = "cleanup" => t.cleanup)

\* The last value of a variable counts.
Keys(kvs) == {kvs[i][1] : i \in DOMAIN kvs}
LastOf(kvs, key) == kvs[Max({i \in DOMAIN kvs : kvs[i][1] = key})][2]

\* The listing of all the test cases, with what each says of itself.
AskedMeta(t) ==
    {<<k, IF k \in Keys(t.head) THEN LastOf(t.head, k) ELSE <<"true">> >> :
        k \in (Keys(t.head) \cup (IF t.cleanup THEN {HasCleanup} ELSE {})) \ {Ident}}

AskedList == [i \in DOMAIN Tests |-> [ident |-> Tests[i].ident, rest |-> AskedMeta(Tests[i])]]

\* No name with -l; otherwise one, of a part of a test case there is.
NamesServe ==
    IF Asks.list THEN req.names = Empty
    ELSE /\ Len(req.names) = 1
         /\ Asks.arg.part # "wrong"
         /\ \E t \in Range(Tests) : t.ident = Asks.arg.name

\* The ways in which this request is to fail; none for a good one.
Complaints ==
    LET exe == Exists(AppendTo(AskedDir, ProgName))
        inOption(o) ==
            IF o.flag \notin WantArg THEN IF o.flag = "l" THEN {} ELSE {"usage"}
            ELSE IF o.arg = NoArg THEN {"usage"}
            ELSE CASE o.flag = "v" /\ Places(o.arg, "=") = {} -> {IF Cxx THEN "thrown" ELSE "usage"}
                   [] o.flag = "r" /\ o.arg = Empty -> {"abort"}
                   [] o.flag = "s" /\ o.arg = Empty /\ ~Cxx -> {"abort"}
                   [] OTHER -> {}
    IN  (UNION {inOption(o) : o \in Range(req.opts)})
        \cup (IF exe = "yes" THEN {} ELSE IF ~Cxx THEN {"user"}
              ELSE IF exe = "no" THEN {"usage"} ELSE {"thrown"})
        \cup (IF \E t \in Range(Tests) : Ident \in Keys(t.head) /\ LastOf(t.head, Ident) # t.ident
              THEN {"abort"} ELSE {})
        \cup (IF NamesServe THEN {} ELSE {"usage"})

-----------------------------------------------------------------------------
(* Properties *)

\* The types of the variables.
TypeOK ==
    /\ argv \in Seq(Texts)
    /\ ind \in Nat \ {0} /\ pos \in Nat
    /\ opts \in Params
    /\ config \in Maps
    /\ tcs \in Seq([ident : Texts, cleanup : BOOLEAN, config : Maps, vars : Maps])
    /\ Len(tcs) <= Len(Tests)
    /\ pc \in {"enter", "options", "names", "srcdir", "add", "ended"}
    /\ outcome \in {"running", "success", "verdict", "usage", "user", "thrown", "abort"}

\* However the command line is written, C and C++ programs do what it asks
\* for: a good one runs the part of the test case it names, results going
\* where the last -r says, or with -l lists every test case with its
\* meta-data; a bad one fails with one of its faults and runs or lists
\* nothing.
EndsAsAsked ==
    pc = "ended" /\ Writable /\ Readable /\ Separate /\ ~AtRoot =>
        IF Complaints # {} THEN outcome \in Complaints /\ ran = Empty /\ listed = Empty
        ELSE IF Asks.list THEN outcome = "success" /\ ran = Empty /\ listed = AskedList
        ELSE /\ outcome = IF Asks.arg.part = "body" THEN "verdict" ELSE "success"
             /\ listed = Empty
             /\ Len(ran) = IF AskedPart THEN 1 ELSE 0
             /\ AskedPart => /\ ran[1].ident = Asks.arg.name
                             /\ ran[1].part = Asks.arg.part
                             /\ ran[1].part = "body" => ran[1].resfile = AskedResfile

\* Every test case has the variables the -v's name, each with the value of
\* the last of them, and srcdir, and no others; a body reads that value, as a
\* text, a boolean or a number, or the default when nobody gave one.  srcdir
\* is the directory asked for, whatever a -v says of it.
ConfigIsAsked ==
    Writable /\ Separate =>
        /\ ~AtRoot =>
            \A i \in DOMAIN tcs : Resolve(Value(tcs[i].config, Srcdir)) = Resolve(AskedDir)
        /\ Readable =>
            /\ \A i \in DOMAIN tcs :
                LET c == tcs[i].config IN
                /\ Keys(c) = AskedVars \cup {Srcdir}
                /\ \A j, k \in DOMAIN c : c[j][1] = c[k][1] => j = k
                /\ \A name \in AskedVars \ {Srcdir} : Value(c, name) = AskedValue(name)
            /\ \A run \in {p \in Range(ran) : p.part = "body" /\ p.query.name # Srcdir} :
                LET q == run.query IN
                run.got = IF q.name \notin AskedVars THEN q.default
                          ELSE CASE q.kind = "bool" -> ToBool(AskedValue(q.name))
                                 [] q.kind = "long" -> ToLong(AskedValue(q.name))
                                 [] OTHER -> AskedValue(q.name)

\* As AtRoot, of the directory that the options have led to.
AtDrive == host.windows /\ (IF Cxx THEN CxxSourceDir ELSE SourceDir) = <<"C:">>

\* The srcdir a test case sees is absolute and has the test program in it,
\* whatever a -v says of it, unless the program is at the root of a drive.
SrcdirHoldsProgram ==
    ~AtDrive =>
        \A i \in DOMAIN tcs :
            LET dir == Value(tcs[i].config, Srcdir) IN
            /\ IsAbsolute(dir)
            /\ Resolve(dir \o <<"/">> \o ProgName) \in Files
=============================================================================
