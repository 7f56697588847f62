------------------------------ MODULE AtfFiles ------------------------------
(***************************************************************************)
(* What a test body of the bundled ATF does with files: the functions of   *)
(* atf-c/utils.c that create, copy, print, compare and search them, the    *)
(* looks, removals and temporary files of atf-c/detail/fs.c and            *)
(* atf-c++/detail/fs.cpp, and their Windows forms (atf-bmk/win).           *)
(*                                                                         *)
(* One call runs here, from any small directory it can find.  A file is    *)
(* read in pieces that may be shorter than the buffer; reads, writes and   *)
(* opens fail; another process of the test meddles with a name between two *)
(* looks at it.  A text is a sequence of "x", "cr" and "lf".               *)
(***************************************************************************)
EXTENDS AtfAccess, Sequences, SequencesExt

CONSTANTS
    Names,     \* the names there are in the directory
    Tests,     \* bound: as whom the test runs
    Modes,     \* bound: the modes files have at the start
    Umasks,    \* bound: the umasks the test runs under
    Buffer,    \* bound: what one read returns at most (1024 in the code)
    MaxFile,   \* bound: the length of a file
    MaxText,   \* bound: the length of a text given to a call
    MaxTries   \* bound: directories in PATH; names tried for a temporary file
               \* (100 on Windows)

ASSUME AtfFilesAssumption ==
    /\ Tests \subseteq Users
    /\ Modes \subseteq SUBSET Bits /\ Umasks \subseteq SUBSET Bits
    /\ Buffer \in Nat \ {0} /\ MaxTries \in Nat \ {0}
    /\ MaxFile \in Nat /\ MaxText \in Nat

-----------------------------------------------------------------------------
VARIABLES
    host,      \* the C runtime: "posix" or native "windows"
    user,      \* as whom the test runs
    umask,
    room,      \* what still fits on the file system
    fs,        \* fs[n]: the node called n
    before,    \* history: fs when the call began
    call,      \* the call: its operation and arguments
    pc,
    pos,       \* how much of the file was read
    rest,      \* the part of the text still to be found, "pos" of compare_file
    cr,        \* pending_cr: the last character was a "\r" the text does not have
    continued, \* cat_file: the last piece ended within a line
    printed,   \* what was printed
    listed,    \* the names a directory object has
    tries,     \* names tried, from PATH or for a temporary file
    answer,    \* what the call answers
    trouble    \* history: something failed, or another process meddled

vars == <<host, user, umask, room, fs, before, call, pc, pos, rest, cr, continued,
          printed, listed, tries, answer, trouble>>

Chars == {"x", "cr", "lf"}
Texts(n) == UNION {[1..k -> Chars] : k \in 0..n}

\* A directory with something in it has data.
Node(type, mode, data) == [type |-> type, mode |-> mode, uid |-> 1, gid |-> 1, data |-> data]
Nothing == Node("reg", {}, <<"nothing">>)

Ops == {"create", "copy", "cat", "compare", "grep", "file_exists", "exists", "eaccess",
        "executable", "list", "remove", "rmdir", "unlink", "mkdtemp", "mkstemp"}
PCs == Ops \cup {"idle", "open", "opendest", "mode", "look", "access", "stat",
                 "template", "make", "done", "failed"}
NoCall == [op |-> "none", names |-> <<>>, text |-> <<>>, asked |-> "r"]

TypeOK ==
    /\ host \in {"posix", "windows"} /\ user \in Users /\ umask \subseteq Bits
    /\ room \in Nat
    /\ \A n \in Names : fs[n].type \in Types /\ fs[n].mode \subseteq Bits
    /\ \A n \in Names : fs[n] = Nothing \/ fs[n].data \in Seq(Chars)
    /\ call.op \in Ops \cup {"none"} /\ call.names \in Seq(Names)
    /\ pc \in PCs
    /\ pos \in Nat /\ rest \in Seq(Chars)
    /\ cr \in BOOLEAN /\ continued \in BOOLEAN
    /\ listed \subseteq Names /\ tries \in 0..MaxTries
    /\ answer \in {"none", "true", "false"} /\ trouble \in BOOLEAN

OwnerRW == {"owner"} \X {"r", "w"}

\* A file of some text of the user's, or something with some mode.
Init ==
    /\ host \in {"posix", "windows"}
    /\ umask \in Umasks
    /\ room \in 0..MaxText
    /\ \E first \in Names :
        \/ /\ user = [euid |-> 1, egid |-> 1, groups |-> {1}]
           /\ umask = {}
           /\ \E text \in Texts(MaxFile), other \in {Nothing, Node("reg", OwnerRW, <<"x">>)} :
                fs = [n \in Names |-> IF n = first THEN Node("reg", OwnerRW, text) ELSE other]
        \/ /\ user \in Tests
           /\ room = MaxText /\ host = "posix"
           /\ \E type \in Types, mode \in Modes, data \in {<<>>, <<"x">>} :
                fs = [n \in Names |-> IF n = first THEN Node(type, mode, data) ELSE Nothing]
    /\ before = fs
    /\ call = NoCall /\ pc = "idle"
    /\ pos = 0 /\ rest = <<>> /\ cr = FALSE /\ continued = FALSE /\ printed = <<>>
    /\ listed = {} /\ tries = 0
    /\ answer = "none" /\ trouble = FALSE

-----------------------------------------------------------------------------
(* Parts of steps *)

Name == call.names[IF call.op = "executable" THEN tries + 1 ELSE 1]
Here(n) == fs[n] # Nothing
world == <<host, user, umask, before, call>>
reading == <<pos, rest, cr, continued, printed>>
looking == <<listed, tries>>

Goto(l) == pc' = l /\ UNCHANGED <<answer, trouble>>
Done == Goto("done")
Answer(b) == pc' = "done" /\ answer' = (IF b THEN "true" ELSE "false") /\ UNCHANGED trouble

\* A requirement of the call fails, or it returns or throws an error.
Fails == pc' = "failed" /\ UNCHANGED <<answer, trouble>>

\* ... as it may for a reason of the system's own.
SystemFails == pc' = "failed" /\ trouble' = TRUE /\ UNCHANGED answer

Keep == UNCHANGED <<world, room, fs, reading, looking>>

Least(i, j) == IF i < j THEN i ELSE j

Data == fs[Name].data
Left == Len(Data) - pos
Pieces == {SubSeq(Data, pos + 1, pos + k) : k \in 1..Least(Left, Buffer)}
Take(piece) == pos' = pos + Len(piece)

\* open for reading; a directory can be opened, and not read.  On Windows a
\* Cygwin path fails when the Cygwin root is not known.
Open ==
    /\ pc = "open"
    /\ \/ /\ Here(Name) /\ fs[Name].type # "lnk" /\ KernelAllows(fs[Name], user, "r")
          /\ Goto(IF call.op = "copy" THEN "opendest" ELSE call.op)
       \/ SystemFails
    /\ Keep

\* A file opened to be written: emptied, or made with the mode given.
Emptied(n, mode) ==
    IF Here(n) THEN [fs EXCEPT ![n].data = <<>>]
    ELSE [fs EXCEPT ![n] = [Node("reg", Masked(mode, umask), <<>>) EXCEPT !.uid = user.euid]]

Writable(n) == ~Here(n) \/ (fs[n].type = "reg" /\ KernelAllows(fs[n], user, "w"))

-----------------------------------------------------------------------------
(* atf_utils_create_file, atf_utils_copy_file *)

\* Mode 0644.
CreateMode == Bits \ ({"owner", "group", "other"} \X {"x"} \cup {<<"group", "w">>, <<"other", "w">>})

\* One write, of which only an error is noticed.
Create ==
    /\ pc = "create"
    /\ \/ SystemFails /\ UNCHANGED <<room, fs>>
       \/ /\ Writable(Name)
          /\ room = 0 /\ call.text # <<>>
          /\ fs' = Emptied(Name, CreateMode)
          /\ Fails /\ UNCHANGED room
       \/ /\ Writable(Name)
          /\ room > 0 \/ call.text = <<>>
          /\ LET k == Least(Len(call.text), room)
             IN /\ fs' = [Emptied(Name, CreateMode) EXCEPT ![Name].data = SubSeq(call.text, 1, k)]
                /\ room' = room - k
          /\ Done
    /\ UNCHANGED <<world, reading, looking>>

Dest == call.names[2]

\* A file copied onto itself is emptied here.
OpenDest ==
    /\ pc = "opendest"
    /\ \/ /\ Writable(Dest)
          /\ fs' = Emptied(Dest, Bits)
          /\ Goto("copy")
       \/ SystemFails /\ UNCHANGED fs
    /\ UNCHANGED <<world, room, reading, looking>>

\* Mutant: what a short write leaves out is not noticed.
CopyShort ==
    /\ pc = "copy"
    /\ \/ /\ Left = 0 /\ fs[Name].type = "reg"
          /\ Goto("mode") /\ UNCHANGED <<room, fs, pos>>
       \/ \E piece \in Pieces :
            /\ fs[Name].type = "reg"
            /\ Take(piece)
            /\ fs' = [fs EXCEPT ![Dest].data = @ \o SubSeq(piece, 1, Least(Len(piece), room))]
            /\ room' = room - Least(Len(piece), room)
            /\ Goto("copy")
       \/ SystemFails /\ UNCHANGED <<room, fs, pos>>
    /\ UNCHANGED <<world, rest, cr, continued, printed, looking>>

Copy ==
    /\ pc = "copy"
    /\ \/ /\ Left = 0 /\ fs[Name].type = "reg"
          /\ Goto("mode") /\ UNCHANGED <<room, fs, pos>>
       \/ \E piece \in Pieces :
            /\ fs[Name].type = "reg"
            /\ Len(piece) <= room
            /\ Take(piece)
            /\ fs' = [fs EXCEPT ![Dest].data = @ \o piece]
            /\ room' = room - Len(piece)
            /\ Goto("copy")
       \/ SystemFails /\ UNCHANGED <<room, fs, pos>>
    /\ UNCHANGED <<world, rest, cr, continued, printed, looking>>

\* fchmod, which is nothing on Windows.
CopyMode ==
    /\ pc = "mode"
    /\ \/ /\ fs' = [fs EXCEPT ![Dest].mode = IF host = "posix" THEN fs[Name].mode ELSE @]
          /\ Done
       \/ SystemFails /\ UNCHANGED fs
    /\ UNCHANGED <<world, room, reading, looking>>

-----------------------------------------------------------------------------
(* atf_utils_cat_file, atf_utils_compare_file, atf_utils_grep_file *)

Prefix == "> "

\* The prefix comes before every line of the piece but one begun before.
PrintedPiece(piece) ==
    (IF continued THEN printed ELSE Append(printed, Prefix)) \o
    FlattenSeq([i \in 1..Len(piece) |->
        IF piece[i] = "lf" /\ i < Len(piece) THEN <<piece[i], Prefix>> ELSE <<piece[i]>>])

Cat ==
    /\ pc = "cat"
    /\ \/ /\ Left = 0 /\ fs[Name].type = "reg"
          /\ Done /\ UNCHANGED <<pos, continued, printed>>
       \/ \E piece \in Pieces :
            /\ fs[Name].type = "reg"
            /\ Take(piece)
            /\ printed' = PrintedPiece(piece)
            /\ continued' = (piece[Len(piece)] # "lf")
            /\ Goto("cat")
       \/ SystemFails /\ UNCHANGED <<pos, continued, printed>>
    /\ UNCHANGED <<world, room, fs, rest, cr, looking>>

\* A read that fails is a difference.
CompareFails ==
    /\ pc = "compare"
    /\ pc' = "done" /\ answer' = "false" /\ trouble' = TRUE
    /\ Keep

Compare ==
    /\ pc = "compare" /\ host = "posix" /\ fs[Name].type = "reg"
    /\ \/ Left = 0 /\ Answer(rest = <<>>) /\ UNCHANGED <<pos, rest>>
       \/ \E piece \in Pieces :
            IF IsPrefix(piece, rest)
            THEN /\ Take(piece)
                 /\ rest' = SubSeq(rest, Len(piece) + 1, Len(rest))
                 /\ Goto("compare")
            ELSE Answer(FALSE) /\ UNCHANGED <<pos, rest>>
    /\ UNCHANGED <<world, room, fs, cr, continued, printed, looking>>

\* One character c of the file against what is left of the text, where s.cr
\* says that a "\r" came before it.
Matched(s, c) ==
    LET first == IF s.rest = <<>> THEN "end" ELSE s.rest[1]
        taken == [s EXCEPT !.rest = Tail(@), !.cr = FALSE]
    IN  CASE ~s.same -> s
          [] s.same /\ s.cr -> IF c = "lf" /\ first = "lf" THEN taken ELSE [s EXCEPT !.same = FALSE]
          [] s.same /\ ~s.cr /\ c = "cr" /\ first # "cr" -> [s EXCEPT !.cr = TRUE]
          [] OTHER -> IF c = first THEN taken ELSE [s EXCEPT !.same = FALSE]

\* Mutant: a "\r" at the end of a piece is forgotten.
CompareWindowsForgets ==
    /\ pc = "compare" /\ host = "windows" /\ fs[Name].type = "reg"
    /\ \/ Left = 0 /\ Answer(rest = <<>>) /\ UNCHANGED <<pos, rest, cr>>
       \/ \E piece \in Pieces :
            LET s == FoldLeft(Matched, [rest |-> rest, cr |-> FALSE, same |-> TRUE], piece)
            IN IF s.same
               THEN Take(piece) /\ rest' = s.rest /\ cr' = s.cr /\ Goto("compare")
               ELSE Answer(FALSE) /\ UNCHANGED <<pos, rest, cr>>
    /\ UNCHANGED <<world, room, fs, continued, printed, looking>>

CompareWindows ==
    /\ pc = "compare" /\ host = "windows" /\ fs[Name].type = "reg"
    /\ \/ Left = 0 /\ Answer(rest = <<>> /\ ~cr) /\ UNCHANGED <<pos, rest, cr>>
       \/ \E piece \in Pieces :
            LET s == FoldLeft(Matched, [rest |-> rest, cr |-> cr, same |-> TRUE], piece)
            IN IF s.same
               THEN Take(piece) /\ rest' = s.rest /\ cr' = s.cr /\ Goto("compare")
               ELSE Answer(FALSE) /\ UNCHANGED <<pos, rest, cr>>
    /\ UNCHANGED <<world, room, fs, continued, printed, looking>>

\* atf_utils_readline: the next line, without its end, which the last one
\* need not have.
LineEnd == LET ends == {i \in (pos + 1)..Len(Data) : Data[i] = "lf"}
           IN IF ends = {} THEN Len(Data) + 1 ELSE CHOOSE i \in ends : \A j \in ends : i <= j
Line == SubSeq(Data, pos + 1, LineEnd - 1)

\* The expression stands for one that matches a line which is the text.
Grep ==
    /\ pc = "grep"
    /\ \/ Left = 0 /\ fs[Name].type = "reg" /\ Answer(FALSE) /\ UNCHANGED pos
       \/ /\ Left > 0 /\ fs[Name].type = "reg"
          /\ pos' = IF LineEnd > Len(Data) THEN Len(Data) ELSE LineEnd
          /\ IF Line = call.text THEN Answer(TRUE) ELSE Goto("grep")
       \/ SystemFails /\ UNCHANGED pos
    /\ UNCHANGED <<world, room, fs, rest, cr, continued, printed, looking>>

-----------------------------------------------------------------------------
(* Looks *)

\* atf_utils_file_exists: access(2), which follows links, here to nowhere.
FileExists ==
    /\ pc = "file_exists"
    /\ Answer(Here(Name) /\ fs[Name].type # "lnk") \/ SystemFails
    /\ Keep

\* atf_fs_exists: lstat(2) by way of atf_fs_eaccess.
Exists ==
    /\ pc = "exists"
    /\ Answer(Here(Name)) \/ SystemFails
    /\ Keep

AskAccess ==
    /\ pc = "eaccess"
    /\ IF Here(Name) THEN Answer(Eaccess(fs[Name], user, {call.asked})) ELSE Fails
    /\ Keep

\* is_executable, for the program in each directory of PATH in turn: exists
\* first, and only then is access asked for.
Look ==
    /\ pc = "look"
    /\ \/ /\ tries = Len(call.names)
          /\ Answer(FALSE) /\ UNCHANGED tries
       \/ /\ tries < Len(call.names)
          /\ IF Here(Name) THEN Goto("access") /\ UNCHANGED tries
             ELSE Goto("look") /\ tries' = tries + 1
       \/ SystemFails /\ UNCHANGED tries
    /\ UNCHANGED <<world, room, fs, reading, listed>>

\* safe_access: any error other than EACCES is thrown.
SafeAccess ==
    /\ pc = "access"
    /\ IF ~Here(Name) THEN Fails /\ UNCHANGED tries
       ELSE IF Eaccess(fs[Name], user, {"x"}) THEN Answer(TRUE) /\ UNCHANGED tries
       ELSE Goto("look") /\ tries' = tries + 1
    /\ UNCHANGED <<world, room, fs, reading, listed>>

\* directory::directory: a name is read, and then looked at.  A read that fails
\* is the end of the directory; opening and closing it may fail the call.
ReadDir ==
    /\ pc = "list"
    /\ \/ /\ \A n \in Names : Here(n) => n \in listed
          /\ Done /\ UNCHANGED call
       \/ pc' = "done" /\ trouble' = TRUE /\ UNCHANGED <<answer, call>>
       \/ \E n \in Names \ listed :
            /\ Here(n)
            /\ call' = [call EXCEPT !.names = <<n>>]
            /\ Goto("stat")
       \/ SystemFails /\ UNCHANGED call
    /\ UNCHANGED <<host, user, umask, before, room, fs, reading, looking>>

\* file_info: lstat and what the getters tell of it, or an exception.
FileInfo(n) == IF Here(n) THEN {fs[n]} ELSE {}

Stat ==
    /\ pc = "stat"
    /\ \/ FileInfo(Name) = {} /\ Fails /\ UNCHANGED listed
       \/ \E info \in FileInfo(Name) :
            \/ /\ call.op = "list"
               /\ listed' = listed \cup {Name} /\ Goto("list")
            \/ /\ call.op = "remove"
               /\ IF info.type = "dir" THEN Fails ELSE Goto("remove")
               /\ UNCHANGED listed
    /\ UNCHANGED <<world, room, fs, reading, tries>>

-----------------------------------------------------------------------------
(* Removals and temporary files *)

\* unlink(2), of remove and atf_fs_unlink.
Unlink ==
    /\ pc \in {"remove", "unlink"}
    /\ \/ Here(Name) /\ fs[Name].type # "dir" /\ fs' = [fs EXCEPT ![Name] = Nothing] /\ Done
       \/ (~Here(Name) \/ fs[Name].type = "dir") /\ Fails /\ UNCHANGED fs
       \/ SystemFails /\ UNCHANGED fs
    /\ UNCHANGED <<world, room, reading, looking>>

Rmdir ==
    /\ pc = "rmdir"
    /\ \/ /\ Here(Name) /\ fs[Name].type = "dir" /\ fs[Name].data = <<>>
          /\ fs' = [fs EXCEPT ![Name] = Nothing] /\ Done
       \/ ~(fs[Name].type = "dir" /\ fs[Name].data = <<>>) /\ Fails /\ UNCHANGED fs
       \/ SystemFails /\ UNCHANGED fs
    /\ UNCHANGED <<world, room, reading, looking>>

\* atf_fs_mkdtemp and atf_fs_mkstemp ask for the same of the umask.
Temp ==
    /\ pc \in {"mkdtemp", "mkstemp"}
    /\ IF CheckUmask(umask, OwnerAll, OwnerAll) THEN Goto("template") ELSE Fails
    /\ Keep

\* copy_contents: there may be no memory.
Template ==
    /\ pc = "template"
    /\ Goto("make") \/ SystemFails
    /\ Keep

TempNode ==
    LET mode == IF call.op = "mkdtemp" THEN OwnerAll ELSE OwnerRW
    IN  [Node(IF call.op = "mkdtemp" THEN "dir" ELSE "reg",
              IF host = "posix" THEN Masked(mode, umask) ELSE mode, <<>>)
            EXCEPT !.uid = user.euid]

\* Mutant: names are made up for ever.
MakeTempForEver ==
    /\ pc = "make"
    /\ \/ \E n \in Names :
            IF Here(n)
            THEN tries' = tries + 1 /\ Goto("make") /\ UNCHANGED <<fs, call>>
            ELSE /\ fs' = [fs EXCEPT ![n] = TempNode]
                 /\ call' = [call EXCEPT !.names = <<n>>]
                 /\ Done /\ UNCHANGED tries
       \/ SystemFails /\ UNCHANGED <<fs, call, tries>>
    /\ UNCHANGED <<host, user, umask, room, before, reading, listed>>

\* mkdtemp and mkstemp on Windows: a name is made up, and another if it is
\* taken, MaxTries of them and no more.
MakeTemp ==
    /\ pc = "make"
    /\ \/ /\ tries < MaxTries
          /\ \E n \in Names :
                IF Here(n)
                THEN tries' = tries + 1 /\ Goto("make") /\ UNCHANGED <<fs, call>>
                ELSE /\ fs' = [fs EXCEPT ![n] = TempNode]
                     /\ call' = [call EXCEPT !.names = <<n>>]
                     /\ Done /\ UNCHANGED tries
       \/ tries = MaxTries /\ Fails /\ UNCHANGED <<fs, call, tries>>
       \/ SystemFails /\ UNCHANGED <<fs, call, tries>>
    /\ UNCHANGED <<host, user, umask, room, before, reading, listed>>

-----------------------------------------------------------------------------
Begin(op, l, names, text, asked) ==
    /\ pc = "idle"
    /\ call' = [op |-> op, names |-> names, text |-> text, asked |-> asked]
    /\ rest' = text
    /\ Goto(l)
    /\ UNCHANGED <<host, user, umask, room, fs, before, pos, cr, continued, printed, looking>>

\* A test body's calls, in C or by way of atf::utils.
CallUtils ==
    \E n \in Names :
        \/ \E text \in Texts(MaxText) :
            \/ Begin("compare", "open", <<n>>, text, "r")
            \/ "lf" \notin {text[i] : i \in DOMAIN text} /\ Begin("grep", "open", <<n>>, text, "r")
            \/ fs[n].type # "lnk" /\ Begin("create", "create", <<n>>, text, "w")
        \/ \E d \in Names : fs[d].type # "lnk" /\ Begin("copy", "open", <<n, d>>, <<>>, "r")
        \/ Begin("cat", "open", <<n>>, <<>>, "r")
        \/ Begin("file_exists", "file_exists", <<n>>, <<>>, "r")

CallFs ==
    \/ \E n \in Names :
        \/ \E op \in {"exists", "rmdir", "unlink"} : Begin(op, op, <<n>>, <<>>, "r")
        \/ \E right \in Rights : Begin("eaccess", "eaccess", <<n>>, <<>>, right)
        \/ Begin("remove", "stat", <<n>>, <<>>, "r")
    \/ \E op \in {"list", "mkdtemp", "mkstemp"} : Begin(op, op, <<>>, <<>>, "r")

\* is_executable; have_prog_in_path, which wants a PATH.
CallLook ==
    \/ \E k \in 1..MaxTries : \E names \in [1..k -> Names] :
        Begin("executable", "look", names, <<>>, "x")
    \/ Begin("executable", "failed", <<>>, <<>>, "x")

\* Another process of the test, between two looks at a name.
Meddle ==
    /\ pc \in {"access", "stat", "remove"} /\ ~trouble
    /\ \E type \in {"reg", "dir"} :
        fs' = [fs EXCEPT ![Name] = IF Here(Name) THEN Nothing ELSE Node(type, OwnerAll, <<>>)]
    /\ trouble' = TRUE
    /\ UNCHANGED <<world, room, pc, reading, looking, answer>>

Next ==
    \/ CallUtils \/ CallFs \/ CallLook
    \/ Open \/ Create \/ OpenDest \/ Copy \/ CopyMode
    \/ Cat \/ CompareFails \/ Compare \/ CompareWindows \/ Grep
    \/ FileExists \/ Exists \/ AskAccess \/ Look \/ SafeAccess \/ ReadDir \/ Stat
    \/ Unlink \/ Rmdir \/ Temp \/ Template \/ MakeTemp
    \/ Meddle

Spec == Init /\ [][Next]_vars

-----------------------------------------------------------------------------
(* Properties *)

\* What a text looks like with the prefix before each of its lines.
WithPrefix(text) ==
    FlattenSeq([i \in 1..Len(text) |->
        IF i = 1 \/ text[i - 1] = "lf" THEN <<Prefix, text[i]>> ELSE <<text[i]>>])

\* The files that hold the text: on Windows, ends of lines are "\n" or "\r\n".
Holding(text) ==
    IF host = "posix" THEN {text}
    ELSE {FlattenSeq([i \in 1..Len(text) |-> IF i \in S THEN <<"cr", text[i]>> ELSE <<text[i]>>]) :
            S \in SUBSET {i \in 1..Len(text) : text[i] = "lf"}}

HasLine(data, line) ==
    \E i \in 1..Len(data), j \in 0..Len(data) :
        /\ SubSeq(data, i, j) = line
        /\ i = 1 \/ data[i - 1] = "lf"
        /\ (j = Len(data) /\ line # <<>>) \/ (j < Len(data) /\ data[j + 1] = "lf" /\ j >= i - 1)

\* A call that comes back without an error has done all of it, in whatever
\* pieces the files were read, and to nothing else: copies are whole, with
\* their modes, printed lines each have the prefix once, what is removed is
\* gone, and what is temporary is new and its owner's to use.  A file that is
\* created may be cut short by a full file system, and the list of a directory
\* by a read that fails, which is taken for its end; a file must not be copied
\* onto itself (atf_utils_create_file, atf_utils_copy_file,
\* atf_utils_cat_file, directory::directory, atf_fs_mkdtemp).
Whole ==
    pc = "done" =>
        LET n == call.names[1]
            changed == {m \in Names : fs[m] # before[m]}
        IN  CASE call.op = "create" ->
                    /\ IsPrefix(fs[n].data, call.text)
                    /\ fs[n].data # call.text => room = 0
                    /\ changed \subseteq {n}
              [] call.op = "copy" /\ n # Dest ->
                    /\ fs[Dest].data = before[n].data
                    /\ host = "posix" => fs[Dest].mode = before[n].mode
                    /\ changed \subseteq {Dest}
              [] call.op = "cat" -> printed = WithPrefix(before[n].data) /\ changed = {}
              [] call.op \in {"remove", "rmdir", "unlink"} -> ~Here(n)
              [] call.op \in {"mkdtemp", "mkstemp"} ->
                    /\ before[n] = Nothing
                    /\ fs[n].data = <<>> /\ fs[n].uid = user.euid
                    /\ OwnerRW \subseteq fs[n].mode
                    /\ fs[n].type = "dir" => OwnerAll \subseteq fs[n].mode
              [] call.op = "list" ->
                    /\ \A m \in listed : Here(m)
                    /\ ~trouble => \A m \in Names : Here(m) => m \in listed
              [] OTHER -> TRUE

\* atf_fs_eaccess and the kernel part in two places: an owner is given the
\* rights of the file's group, as one of its members,
AsGroup(node, who, right) ==
    who.euid = node.uid /\ MemberOf(who, node.gid) /\ <<"group", right>> \in node.mode

\* and of an effective group that getgroups does not tell of, the user has
\* the rights of the others, in place of the group's.
Untold(node, who) ==
    /\ ~IsRoot(who) /\ who.euid # node.uid
    /\ node.gid = who.egid /\ ~MemberOf(who, node.gid)
AsOther(node, who, right) == Untold(node, who) /\ <<"other", right>> \in node.mode

\* What is asked is answered as it is: a file holds the text, has a line like
\* that, is there.  Access is what the kernel would allow, but in the two
\* places above, and for links.  A call fails
\* only for the system's reasons, for what another process does between two
\* looks, or for what it was asked: so looking for a program does not end
\* the test with an exception of its own (atf_utils_compare_file,
\* atf_utils_grep_file, atf_fs_eaccess, safe_access).
Answers ==
    LET n == call.names[1]
        said == answer = "true"
        may(m, right) == Here(m) /\ fs[m].type = "reg" /\ KernelAllows(fs[m], user, right)
        mayToo(m, right) ==
            Here(m) /\ (AsGroup(fs[m], user, right) \/ AsOther(fs[m], user, right))
        agrees(S, right) ==
            /\ (\E m \in S : may(m, right) /\ ~Untold(fs[m], user)) => said
            /\ said => \E m \in S : fs[m].type # "reg" \/ may(m, right) \/ mayToo(m, right)
    IN  /\ pc = "done" /\ ~trouble =>
            CASE call.op = "compare" -> said <=> fs[n].data \in Holding(call.text)
              [] call.op = "grep" -> said <=> HasLine(fs[n].data, call.text)
              [] call.op = "file_exists" -> said <=> Here(n) /\ fs[n].type # "lnk"
              [] call.op = "exists" -> said <=> Here(n)
              [] call.op = "eaccess" -> agrees({n}, call.asked)
              [] call.op = "executable" -> agrees({call.names[i] : i \in DOMAIN call.names}, "x")
              [] OTHER -> TRUE
        /\ pc = "failed" /\ ~trouble =>
            CASE call.op = "create" -> room = 0
              [] call.op = "eaccess" -> ~Here(n)
              [] call.op = "executable" -> call.names = <<>>
              [] call.op \in {"remove", "unlink"} -> ~Here(n) \/ fs[n].type = "dir"
              [] call.op = "rmdir" -> ~Here(n) \/ fs[n].type # "dir" \/ fs[n].data # <<>>
              [] call.op \in {"mkdtemp", "mkstemp"} -> umask \cap OwnerAll # {} \/ tries = MaxTries
              [] OTHER -> FALSE
=============================================================================
