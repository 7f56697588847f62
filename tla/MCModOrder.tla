----------------------------- MODULE MCModOrder -----------------------------
(***************************************************************************)
(* Instances of ModOrder for TLC: a program and the library it is named    *)
(* after (app.m and libapp.m: the names collide), and a second library     *)
(* that can close a cycle.                                                 *)
(***************************************************************************)
EXTENDS ModOrder

\* A makefile with these LIBS=, LIB= and PROG=.
Makefile(libs, lib, prog) ==
    [kind |-> "module", decl |-> [libs |-> libs, lib |-> lib, prog |-> prog]]
NoMakefile(kind) == [kind |-> kind, decl |-> NoDecl]

MCModules == {"app", "libapp", "base"}
MCNames == {"app", "libapp", "base", "core", "libcore"}
MCLibPrefix == [n \in MCNames |->
    CASE n = "app" -> "libapp" [] n = "core" -> "libcore" [] OTHER -> n]
MCPos == [m \in MCModules |->
    CASE m = "app" -> 1 [] m = "base" -> 2 [] m = "libapp" -> 3]

\* app links the library it shares its name with, or base and core; libapp is
\* that library, or core, which may need base (then, with base, a cycle); base
\* names libapp by its directory.  Without base, LIBS=base is from outside.
MCMakefiles == [m \in MCModules |->
    CASE m = "app"    -> {Makefile({"app"}, {}, {"app"}),
                          Makefile({"base", "core"}, {}, {"app"})}
      [] m = "libapp" -> {Makefile({}, {"app"}, {}),
                          Makefile({}, {"core"}, {}),
                          Makefile({"base"}, {"core"}, {}),
                          NoMakefile("broken")}
      [] m = "base"   -> {Makefile({"libapp"}, {}, {}),
                          NoMakefile("leftover")}]
=============================================================================
