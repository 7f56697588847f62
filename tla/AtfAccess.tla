----------------------------- MODULE AtfAccess ------------------------------
(***************************************************************************)
(* Who may do what with a file, as the bundled ATF works it out            *)
(* (atf-c/detail/fs.c, user.c), and as the kernel does.                    *)
(*                                                                         *)
(* A mode is a set of permission bits <<class, right>>; ids are numbers,   *)
(* and 0 is root's.                                                        *)
(***************************************************************************)
EXTENDS Naturals

Rights == {"r", "w", "x"}

\* The permission bits, one getter each.
Bits == {"owner", "group", "other"} \X Rights

\* What lstat tells of a file: its type and what decides about access.  The
\* other types (devices, FIFOs, sockets) are as regular files here.
Types == {"reg", "dir", "lnk"}

Ids == Nat
Users == [euid : Ids, egid : Ids, groups : SUBSET Ids]

IsRoot(user) == user.euid = 0

\* A member of the groups getgroups tells of, which need not be told of the
\* effective one; and nobody asks for that.
MemberOf(user, gid) == gid \in user.groups

\* Some of the rights asked for is granted to the class.
Grants(node, class, asked) == \E right \in asked : <<class, right>> \in node.mode

\* atf_fs_eaccess of a file that is there, for rights other than existence.
Eaccess(node, user, asked) ==
    IF IsRoot(user)
    THEN "x" \notin asked \/ \E class \in {"owner", "group", "other"} : <<class, "x">> \in node.mode
    ELSE \/ user.euid = node.uid /\ Grants(node, "owner", asked)
         \/ MemberOf(user, node.gid) /\ Grants(node, "group", asked)
         \/ /\ user.euid # node.uid /\ ~MemberOf(user, node.gid)
            /\ Grants(node, "other", asked)

\* What the kernel allows: the first class the user is in decides, and the
\* user is in the effective group, too.
KernelClass(node, user) ==
    CASE user.euid = node.uid -> "owner"
      [] user.euid # node.uid /\ node.gid \in {user.egid} \cup user.groups -> "group"
      [] OTHER -> "other"

KernelAllows(node, user, right) ==
    IF IsRoot(user)
    THEN right # "x" \/ node.type = "dir" \/ \E bit \in node.mode : bit[2] = "x"
    ELSE <<KernelClass(node, user), right>> \in node.mode

\* What is made with the mode asked for.
Masked(mode, umask) == mode \ umask

\* check_umask: what would be made has the bits it needs.
CheckUmask(umask, mode, needed) == needed \subseteq Masked(mode, umask)

OwnerAll == {"owner"} \X Rights
=============================================================================
