---------------------------- MODULE MCAtfProgram ----------------------------
(***************************************************************************)
(* AtfProgram for TLC: up to two options of every kind, good and bad, and  *)
(* up to two names, written in each way, for the programs of a directory   *)
(* and of libtool's, in C and in C++, on POSIX and on Windows.             *)
(***************************************************************************)
EXTENDS AtfProgram

MCTokens ==
    {"/", "\\", ".", "-", "=", ":", "C:", "dev", "stdout", "l", "r", "s", "v", "x", "srcdir", "ident",
     "has.cleanup", "true", "no", "arg", "f", "b", "w", "c", "a", "7", "d", "src", ".libs", "lt-",
     "prog", "cygdrive", "cyg", "descr", "t1", "t2", "t3", "body", "cleanup", "whole"}

Opt(f, a) == [flag |-> f, arg |-> a]

Options ==
    {Opt("l", Empty), Opt("x", Empty), Opt("r", <<"/", "f">>), Opt("r", Empty),
     Opt("s", <<"/", "b">>), Opt("s", <<"/", "b", "/", ".libs">>), Opt("s", <<"src">>),
     Opt("s", <<"/", "cygdrive", "/", "c", "/", "b">>), Opt("s", <<"/", "cygdrive", "/", "c">>),
     Opt("s", <<"/", "cygdrive", "/", "cyg">>), Opt("s", <<"/", "/", "b">>), Opt("s", Empty),
     Opt("s", <<"/", "b", "/", "prog">>),
     Opt("v", <<"a", "=", "7">>), Opt("v", <<"a", "=", "no">>), Opt("v", <<"a", "=">>),
     Opt("v", <<"a", "=", "b", "=">>), Opt("v", <<"a">>),
     Opt("v", <<"srcdir", "=", "/">>)}

MCNames == {<<>>, << <<"t1">> >>, << <<"t1", ":", "cleanup">> >>, << <<"t2", ":", "body">> >>,
           << <<"t2", ":", "cleanup">> >>, << <<"t1", ":", "whole">> >>, << <<"t3">> >>,
           << <<"t1">>, <<"t2">> >>}

MCRequests ==
    [opts : {<<>>} \cup {<<o>> : o \in Options}, names : MCNames]
    \cup [opts : {<<o, p>> : o, p \in Options},
           names : {<<>>, << <<"t1">> >>, << <<"t1", ":", "cleanup">> >>,
                    << <<"t2", ":", "body">> >>}]
    \cup [opts : {<<Opt(f, NoArg)>> : f \in WantArg}, names : {<<>>}]

MCForms == {"apart", "joined", "cluster"}

Host(lang, windows, root, argv0, cwd) ==
    [lang |-> lang, windows |-> windows, root |-> root, argv0 |-> argv0, cwd |-> cwd]

Posix == {Host(l, FALSE, NoPath, a[1], a[2]) : l \in {"C", "C++"},
          a \in {<< <<"/", "b", "/", "prog">>, <<"/", "w">> >>,
                 << <<".libs", "/", "lt-", "prog">>, <<"/", "b">> >>,
                 << <<"prog">>, <<"/">> >>}}

Windows == {Host(l, TRUE, r, <<"C:", "\\", "b", "\\", "prog">>, <<"C:", "/", "w">>) :
            l \in {"C", "C++"}, r \in {NoPath, <<"C:", "/", "cyg">>}}

MCHosts == Posix \cup Windows

MCFiles ==
    {<<"/", "b", "/", "prog">>, <<"/", "b", "/", ".libs", "/", "lt-", "prog">>,
     <<"/", "w", "/", "src", "/", "prog">>, <<"/", "prog">>,
     <<"C:", "/", "b", "/", "prog">>, <<"C:", "/", "cyg", "/", "b", "/", "prog">>}

MCTests ==
    <<[ident |-> <<"t1">>, head |-> << << <<"descr">>, <<"d">> >> >>, cleanup |-> TRUE],
      [ident |-> <<"t2">>, head |-> <<>>, cleanup |-> FALSE]>>

MCQueries ==
    {[name |-> <<"a">>, kind |-> k, default |-> <<"default">>] : k \in {"text", "bool", "long"}}
=============================================================================
