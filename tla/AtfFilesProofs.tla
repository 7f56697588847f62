--------------------------- MODULE AtfFilesProofs ---------------------------
(***************************************************************************)
(* Proofs about AtfFiles, for any names, users, modes and umasks, and      *)
(* files and texts of any length read in pieces of any length.             *)
(*                                                                         *)
(* What the functions compute piece by piece they compute with folds and   *)
(* flattened sequences.  A fold is unfolded into the chain of its          *)
(* intermediate results (Chains), and what holds of every result of a      *)
(* chain is shown by the least of those it would not hold of.              *)
(***************************************************************************)
EXTENDS AtfFiles, WellFoundedInduction, SequenceTheorems, TLAPS

-----------------------------------------------------------------------------
(* The invariant *)

Nodes == [type : Types, mode : SUBSET Bits, uid : Nat, gid : Nat, data : Seq(Chars)]

\* What TypeOK leaves open: the other fields, and what was printed.
Shape ==
    /\ fs \in [Names -> Nodes \cup {Nothing}] /\ before \in [Names -> Nodes \cup {Nothing}]
    /\ call \in [op : Ops \cup {"none"}, names : Seq(Names), text : Seq(Chars), asked : Rights]
    /\ printed \in Seq(Chars \cup {Prefix})

\* How many names a call has, and the text of a search is of one line.
Arguments ==
    /\ call.op = "copy" => Len(call.names) = 2
    /\ call.op \in Ops \ {"copy", "executable", "list", "mkdtemp", "mkstemp"} =>
        Len(call.names) = 1
    /\ call.op \in {"mkdtemp", "mkstemp"} /\ pc = "done" => Len(call.names) = 1
    /\ pc = "stat" => Len(call.names) = 1
    /\ call.op = "executable" => Len(call.names) <= MaxTries
    /\ call.op = "executable" /\ pc \in {"look", "access"} => tries <= Len(call.names)
    /\ pc = "access" => tries < Len(call.names)
    /\ call.op = "grep" => \A i \in 1..Len(call.text) : call.text[i] # "lf"

\* Which call a step belongs to.
Stages ==
    /\ pc \in {"opendest", "copy", "mode"} => call.op = "copy"
    /\ pc \in {"create", "cat", "compare", "grep", "file_exists", "exists", "eaccess", "list",
               "rmdir", "unlink", "mkdtemp", "mkstemp", "remove"} => call.op = pc
    /\ pc \in {"look", "access"} => call.op = "executable"
    /\ pc = "open" => call.op \in {"copy", "cat", "compare", "grep"}
    /\ pc = "stat" => call.op \in {"list", "remove"}
    /\ pc \in {"template", "make"} => call.op \in {"mkdtemp", "mkstemp"}
    /\ pc # "executable"
    /\ pc \in {"idle", "open", "opendest"} => pos = 0 /\ ~cr /\ ~continued /\ printed = <<>>
    /\ pc = "open" => rest = call.text
    /\ pc = "idle" => listed = {} /\ tries = 0

\* Nothing goes wrong unnoticed, and files are as they were until the call
\* changes them.
Undisturbed ==
    /\ trouble => pc \in {"look", "access", "list", "stat", "remove", "done", "failed"}
    /\ ~trouble /\ pc \notin {"copy", "mode", "done", "failed"} => fs = before

\* What is read is there, and was read up to a place in it.
Reading ==
    pc \in {"opendest", "copy", "mode", "cat", "compare", "grep"} => Here(Name) /\ pos <= Len(Data)

\* The first k characters of a file.
Begins(text, data, k) == Len(text) = k /\ \A i \in 1..k : text[i] = data[i]

\* So far the copy is what was read, and nothing else has changed.
Copying ==
    pc \in {"copy", "mode"} =>
        /\ Here(Dest)
        /\ Name # Dest =>
            /\ \A m \in Names : m # Dest => fs[m] = before[m]
            /\ Begins(fs[Dest].data, Data, pos)
            /\ pc = "mode" => pos = Len(Data)

\* So far what was printed is what was read, with the prefix.
Catting ==
    pc = "cat" =>
        /\ printed = WithPrefix(SubSeq(Data, 1, pos))
        /\ continued <=> pos > 0 /\ Data[pos] # "lf"

\* The i-th character of a text is matched by what is between p and q of a
\* file.
Matches(data, text, i, p, q) ==
    \/ q = p + 1 /\ data[q] = text[i]
    \/ q = p + 2 /\ text[i] = "lf" /\ data[q] = "lf" /\ data[p + 1] = "cr"

\* Where in the file each of the first m characters of the text ends.
Alignments(data, text, m) ==
    {o \in [0..m -> 0..Len(data)] :
        o[0] = 0 /\ \A i \in 1..m : Matches(data, text, i, o[i - 1], o[i])}

Aligned(data, text, m, p) == \E o \in Alignments(data, text, m) : o[m] = p

\* However the whole file is to match the whole text, the first m characters
\* are matched by the first p.
Settled(data, text, m, p) ==
    \A o \in Alignments(data, text, Len(text)) : o[Len(text)] = Len(data) => o[m] = p

Suffix(rst, text) ==
    /\ Len(rst) <= Len(text)
    /\ \A i \in 1..Len(rst) : rst[i] = text[Len(text) - Len(rst) + i]

\* A file read up to n, with the text up to its rest matched, but for a "\r"
\* that is kept back.
Tracking(data, text, n, rst, kept) ==
    LET m == Len(text) - Len(rst)
        p == IF kept THEN n - 1 ELSE n
    IN  /\ Suffix(rst, text) /\ n \in 0..Len(data) /\ p \in 0..Len(data)
        /\ Aligned(data, text, m, p)
        /\ Settled(data, text, m, p)
        /\ kept => data[n] = "cr" /\ (rst = <<>> \/ rst[1] # "cr")

\* So far the file is the text, or on Windows one that is written alike.
Comparing ==
    pc = "compare" =>
        IF host = "posix"
        THEN Suffix(rest, call.text) /\ Len(call.text) = pos + Len(rest)
             /\ \A i \in 1..pos : call.text[i] = Data[i]
        ELSE Tracking(Data, call.text, pos, rest, cr)

\* From i to j, a line of the data.
LineAt(data, i, j, line) ==
    /\ SubSeq(data, i, j) = line
    /\ i = 1 \/ data[i - 1] = "lf"
    /\ (j = Len(data) /\ line # <<>>) \/ (j < Len(data) /\ data[j + 1] = "lf" /\ j >= i - 1)

\* What was read is whole lines, of which none is the text.
Grepping ==
    pc = "grep" =>
        /\ pos = 0 \/ pos = Len(Data) \/ Data[pos] = "lf"
        /\ \A i \in 1..pos : \A j \in 0..Len(Data) : ~ LineAt(Data, i, j, call.text)

\* There is no such program, or the user may not run it.
Refused(n) == ~Here(n) \/ ~Eaccess(fs[n], user, {"x"})

\* What was looked at is as it was found, unless another process meddled, and
\* what is listed is there even then.
Looking ==
    /\ ~trouble =>
        /\ pc \in {"look", "access"} => \A i \in 1..tries : Refused(call.names[i])
        /\ pc = "access" => Here(Name)
        /\ pc = "stat" /\ call.op = "list" => Here(Name)
    /\ pc \in {"list", "stat"} => \A n \in listed : Here(n)
    /\ pc = "stat" => Name \notin listed

\* A name is only made up when the umask leaves the owner everything.
Making == pc \in {"template", "make"} => umask \cap OwnerAll = {}

\* The inductive invariant.
IInv ==
    /\ TypeOK /\ Shape /\ Arguments /\ Stages /\ Undisturbed /\ Reading
    /\ Copying /\ Catting /\ Comparing /\ Grepping /\ Looking /\ Making
    /\ Whole /\ Answers

-----------------------------------------------------------------------------
(* Chains of steps, and the folds that are one *)

\* What holds of 0 and goes from each number to the next holds of all.
LEMMA NatSteps ==
    ASSUME NEW S \in SUBSET Nat, 0 \in S, \A i \in S : i + 1 \in S
    PROVE  S = Nat
  <1>1. SUFFICES ASSUME Nat \ S # {} PROVE FALSE
    OBVIOUS
  <1>2. \E x \in Nat \ S : \A y \in Nat \ S : ~ (<<y, x>> \in OpToRel(<, Nat))
    BY <1>1, NatLessThanWellFounded, WFMin, Zenon
  <1>3. PICK x \in Nat \ S : \A y \in Nat \ S : ~ (y < x)
    BY <1>2 DEF OpToRel
  <1>4. x # 0 /\ x - 1 \in Nat /\ x - 1 < x /\ (x - 1) + 1 = x
    OBVIOUS
  <1> QED BY <1>3, <1>4

\* ... and the same up to n.
LEMMA StepsUpTo ==
    ASSUME NEW n \in Nat, NEW S, 0 \in S, \A i \in 0..n : i \in S /\ i < n => i + 1 \in S
    PROVE  \A i \in 0..n : i \in S
  <1> DEFINE T == {i \in Nat : i <= n => i \in S}
  <1>1. 0 \in T
    OBVIOUS
  <1>2. ASSUME NEW i \in T PROVE i + 1 \in T
    OBVIOUS
  <1>3. T = Nat
    BY <1>1, <1>2, NatSteps
  <1> QED BY <1>3

\* A function that each step makes of the last, up to n.
Chains(S, base, n, F) ==
    {c \in [0..n -> S] : c[0] = base /\ \A i \in 1..n : c[i] = F[i][c[i - 1]]}

\* There is such a function, for any steps.
LEMMA Chain ==
    ASSUME NEW S, NEW base \in S, NEW n \in Nat, NEW F \in [1..n -> [S -> S]]
    PROVE  Chains(S, base, n, F) # {}
  <1> DEFINE Good(m) == \E c \in [0..m -> S] : c[0] = base /\ \A i \in 1..m : c[i] = F[i][c[i - 1]]
             T == {m \in 0..n : Good(m)}
  <1>1. 0 \in T
    <2> DEFINE c == [i \in 0..0 |-> base]
    <2>1. c \in [0..0 -> S] /\ c[0] = base /\ \A i \in 1..0 : c[i] = F[i][c[i - 1]]
      OBVIOUS
    <2>2. Good(0)
      <3> HIDE DEF c
      <3> QED BY <2>1
    <2> QED BY <2>2
  <1>2. ASSUME NEW m \in 0..n, m \in T, m < n PROVE m + 1 \in T
    <2>1. PICK c \in [0..m -> S] : c[0] = base /\ \A i \in 1..m : c[i] = F[i][c[i - 1]]
      BY <1>2
    <2> DEFINE d == [i \in 0..(m + 1) |-> IF i <= m THEN c[i] ELSE F[m + 1][c[m]]]
    <2>2. F[m + 1] \in [S -> S] /\ c[m] \in S
      BY <1>2
    <2>3. d \in [0..(m + 1) -> S]
      BY <2>2
    <2>4. d[0] = base
      BY <2>1
    <2>5. \A i \in 1..(m + 1) : d[i] = F[i][d[i - 1]]
      <3>1. \A i \in 1..m : d[i] = c[i] /\ d[i - 1] = c[i - 1]
        OBVIOUS
      <3>2. d[m + 1] = F[m + 1][c[m]] /\ d[m] = c[m]
        OBVIOUS
      <3>3. \A i \in 1..(m + 1) : i \in 1..m \/ i = m + 1
        OBVIOUS
      <3>4. (m + 1) - 1 = m
        OBVIOUS
      <3> HIDE DEF d
      <3> QED BY <2>1, <3>1, <3>2, <3>3, <3>4
    <2>6. m + 1 \in 0..n
      BY <1>2
    <2> HIDE DEF d
    <2> QED BY <2>3, <2>4, <2>5, <2>6
  <1>3. \A m \in 0..n : m \in T
    <2> HIDE DEF T
    <2> QED BY <1>1, <1>2, StepsUpTo
  <1> QED BY <1>3 DEF Chains

\* Nothing flattened is nothing.
LEMMA FlattenNone == FlattenSeq(<<>>) = <<>>
  BY DEF FlattenSeq

Flattens(S, n, ss) ==
    {c \in [0..n -> Seq(S)] :
        /\ c[0] = <<>> /\ \A i \in 1..n : c[i] = c[i - 1] \o ss[i]
        /\ FlattenSeq(ss) = c[n]}

\* FlattenSeq has its intermediate results, as its definition goes from the
\* largest index down.
LEMMA FlattenSome ==
    ASSUME NEW S, NEW n \in Nat \ {0}, NEW ss \in [1..n -> Seq(S)]
    PROVE  Flattens(S, n, ss) # {}
  <1> DEFINE F == [i \in 1..n |-> [s \in Seq(S) |-> s \o ss[i]]]
  <1>1. F \in [1..n -> [Seq(S) -> Seq(S)]]
    OBVIOUS
  <1>2. PICK c \in [0..n -> Seq(S)] : c[0] = <<>> /\ \A i \in 1..n : c[i] = F[i][c[i - 1]]
    <2> DEFINE T == Seq(S)
               none == <<>>
    <2>1. none \in T /\ n \in Nat /\ F \in [1..n -> [T -> T]]
      BY <1>1
    <2> HIDE DEF F, T, none
    <2>2. Chains(T, none, n, F) # {}
      BY <2>1, Chain
    <2> QED BY <2>2 DEF T, none, Chains
  <1>3. \A i \in 1..n : c[i] = c[i - 1] \o ss[i]
    <2> TAKE i \in 1..n
    <2>1. c[i - 1] \in Seq(S)
      OBVIOUS
    <2>2. F[i] = [s \in Seq(S) |-> s \o ss[i]]
      OBVIOUS
    <2>3. F[i][c[i - 1]] = c[i - 1] \o ss[i]
      <3> HIDE DEF F
      <3> QED BY <2>1, <2>2
    <2> HIDE DEF F
    <2> QED BY <1>2, <2>3
  <1> HIDE DEF F
  <1> DEFINE flatten[i \in 1..n] == IF i = 1 THEN ss[i] ELSE flatten[i - 1] \o ss[i]
             g == [i \in 1..n |-> c[i]]
  <1>4. Len(ss) = n
    OBVIOUS
  <1>5. FlattenSeq(ss) = flatten[n]
    BY <1>4 DEF FlattenSeq
  <1>6. g = [i \in 1..n |-> IF i = 1 THEN ss[i] ELSE g[i - 1] \o ss[i]]
    <2>1. c[1] = ss[1]
      <3>1. 1 \in 1..n /\ ss[1] \in Seq(S) /\ 1 - 1 = 0
        OBVIOUS
      <3>2. c[1] = <<>> \o ss[1]
        BY <1>2, <1>3, <3>1
      <3> QED BY <3>1, <3>2, ConcatEmptySeq
    <2>2. \A i \in 1..n : i # 1 => g[i - 1] = c[i - 1]
      OBVIOUS
    <2> QED BY <1>3, <2>1, <2>2
  <1>7. flatten = [i \in 1..n |-> IF i = 1 THEN ss[i] ELSE flatten[i - 1] \o ss[i]]
    <2> HIDE DEF g
    <2> QED BY <1>6 DEF flatten
  <1> HIDE DEF flatten, g
  <1>8. \A i \in 0..n : i \in {j \in 0..n : j = 0 \/ flatten[j] = g[j]}
    <2> DEFINE T == {j \in 0..n : j = 0 \/ flatten[j] = g[j]}
    <2>1. \A i \in 0..n : i \in T /\ i < n => i + 1 \in T
      <3> SUFFICES ASSUME NEW i \in 0..n, i \in T, i < n PROVE flatten[i + 1] = g[i + 1]
        OBVIOUS
      <3>1. i + 1 \in 1..n /\ (i + 1) - 1 = i
        OBVIOUS
      <3>2. i = 0 \/ (flatten[i] = g[i] /\ i + 1 # 1)
        OBVIOUS
      <3>3. g[i + 1] = IF i + 1 = 1 THEN ss[i + 1] ELSE g[(i + 1) - 1] \o ss[i + 1]
        BY <1>6, <3>1, Zenon
      <3>4. flatten[i + 1] = IF i + 1 = 1 THEN ss[i + 1] ELSE flatten[(i + 1) - 1] \o ss[i + 1]
        BY <1>7, <3>1, Zenon
      <3> HIDE DEF T
      <3> QED BY <3>1, <3>2, <3>3, <3>4
    <2>2. 0 \in T
      OBVIOUS
    <2> HIDE DEF T
    <2>3. \A i \in 0..n : i \in T
      BY <2>1, <2>2, StepsUpTo
    <2> QED BY <2>3 DEF T
  <1>9. g[n] = c[n] /\ flatten[n] = g[n]
    <2>1. flatten[n] = g[n]
      BY <1>8
    <2> QED BY <2>1 DEF g
  <1> QED BY <1>2, <1>3, <1>4, <1>5, <1>9 DEF Flattens

\* Every flattened sequence is the last of a chain that appends a part at a time.
LEMMA FlattenChain ==
    ASSUME NEW S, NEW n \in Nat, NEW ss \in [1..n -> Seq(S)]
    PROVE  Flattens(S, n, ss) # {}
  <1>1. CASE n = 0
    <2>1. ss = <<>>
      BY <1>1
    <2>2. FlattenSeq(ss) = <<>>
      BY <2>1, FlattenNone
    <2> DEFINE c == [i \in 0..0 |-> <<>>]
    <2>3. c \in [0..0 -> Seq(S)] /\ c[0] = <<>>
      OBVIOUS
    <2>4. c \in Flattens(S, 0, ss)
      <3> HIDE DEF c
      <3> QED BY <2>2, <2>3 DEF Flattens
    <2> QED BY <1>1, <2>4
  <1>2. CASE n # 0
    <2>1. n \in Nat \ {0}
      BY <1>2
    <2> QED BY <2>1, FlattenSome
  <1> QED BY <1>1, <1>2

LargestFirst(S, base, n, F) ==
    {g \in [SUBSET (1..n) -> S] :
        \A s \in SUBSET (1..n) : g[s] = IF s = {} THEN base ELSE F[Max(s)][g[s \ {Max(s)}]]}

\* The maximum that the folds of sequences pick.
LEMMA MaxIs ==
    ASSUME NEW n \in Nat, NEW s \in SUBSET (1..n), n \in s
    PROVE  Max(s) = n
  <1>1. \A y \in s : n >= y
    OBVIOUS
  <1>2. ASSUME NEW x \in s, \A y \in s : x >= y PROVE x = n
    BY <1>2
  <1> QED BY <1>1, <1>2 DEF Max

LEMMA MaxIn ==
    ASSUME NEW n \in Nat, NEW s \in SUBSET (1..n), s # {}
    PROVE  Max(s) \in s
  <1> DEFINE T == {m \in 0..n : \A t \in SUBSET (1..m) : t # {} => Max(t) \in t}
  <1>1. 0 \in T
    <2>1. \A t \in SUBSET (1..0) : t = {}
      OBVIOUS
    <2>2. \A t \in SUBSET (1..0) : t # {} => Max(t) \in t
      BY <2>1, Zenon
    <2>3. 0 \in 0..n
      OBVIOUS
    <2> QED BY <2>2, <2>3, Zenon
  <1>2. ASSUME NEW m \in 0..n, m \in T, m < n PROVE m + 1 \in T
    <2>1. ASSUME NEW t \in SUBSET (1..(m + 1)), t # {} PROVE Max(t) \in t
      <3>1. CASE m + 1 \in t
        <4>1. Max(t) = m + 1
          BY <3>1, MaxIs
        <4> QED BY <3>1, <4>1
      <3>2. CASE m + 1 \notin t
        <4>1. t \in SUBSET (1..m)
          BY <3>2
        <4> QED BY <1>2, <2>1, <4>1
      <3> QED BY <3>1, <3>2
    <2> QED BY <1>2, <2>1
  <1> HIDE DEF T
  <1>3. n \in T
    BY <1>1, <1>2, StepsUpTo
  <1> QED BY <1>3 DEF T

\* The recursion on sets of indices by which the folds are defined has a solution.
LEMMA SubsetRecursion ==
    ASSUME NEW S, NEW base \in S, NEW n \in Nat, NEW F \in [1..n -> [S -> S]]
    PROVE  LargestFirst(S, base, n, F) # {}
  <1> DEFINE T == {m \in 0..n : LargestFirst(S, base, m, F) # {}}
  <1>1. 0 \in T
    <2> DEFINE g == [s \in {{}} |-> base]
    <2>1. SUBSET (1..0) = {{}}
      OBVIOUS
    <2>2. g \in LargestFirst(S, base, 0, F)
      BY <2>1 DEF LargestFirst
    <2> QED BY <2>2
  <1>2. ASSUME NEW m \in 0..n, m \in T, m < n PROVE m + 1 \in T
    <2>1. PICK g \in LargestFirst(S, base, m, F) : TRUE
      BY <1>2
    <2>2. /\ g \in [SUBSET (1..m) -> S]
          /\ \A s \in SUBSET (1..m) : g[s] = IF s = {} THEN base ELSE F[Max(s)][g[s \ {Max(s)}]]
      BY <2>1 DEF LargestFirst
    <2> DEFINE N == m + 1
               h == [s \in SUBSET (1..N) |-> IF N \in s THEN F[N][g[s \ {N}]] ELSE g[s]]
    <2>3. N \in 1..n /\ F[N] \in [S -> S]
      BY <1>2
    <2>4. \A s \in SUBSET (1..N) : s \ {N} \in SUBSET (1..m)
      OBVIOUS
    <2>5. h \in [SUBSET (1..N) -> S]
      <3> SUFFICES ASSUME NEW s \in SUBSET (1..N)
                   PROVE  (IF N \in s THEN F[N][g[s \ {N}]] ELSE g[s]) \in S
        OBVIOUS
      <3>1. g[s \ {N}] \in S
        BY <2>2, <2>4
      <3>2. N \notin s => s \ {N} = s
        OBVIOUS
      <3> QED BY <2>3, <3>1, <3>2
    <2>6. ASSUME NEW s \in SUBSET (1..N)
          PROVE  h[s] = IF s = {} THEN base ELSE F[Max(s)][h[s \ {Max(s)}]]
      <3>1. CASE N \in s
        <4>1. Max(s) = N
          BY <3>1, <1>2, MaxIs
        <4>2. h[s \ {N}] = g[s \ {N}]
          BY <2>4
        <4>3. h[s] = F[N][g[s \ {N}]]
          BY <3>1
        <4> HIDE DEF h, N
        <4> QED BY <3>1, <4>1, <4>2, <4>3
      <3>2. CASE N \notin s
        <4>1. s \in SUBSET (1..m)
          BY <3>2
        <4>2. h[s] = g[s] /\ \A t \in SUBSET s : t \in SUBSET (1..N) /\ h[t] = g[t]
          BY <3>2
        <4>3. h[s \ {Max(s)}] = g[s \ {Max(s)}]
          <5> HIDE DEF h, N
          <5> QED BY <4>2
        <4> HIDE DEF h, N
        <4> QED BY <2>2, <4>1, <4>2, <4>3
      <3> QED BY <3>1, <3>2
    <2> HIDE DEF h
    <2>7. h \in LargestFirst(S, base, N, F)
      BY <2>5, <2>6 DEF LargestFirst
    <2> QED BY <1>2, <2>7
  <1> HIDE DEF T
  <1>3. \A m \in 0..n : m \in T
    BY <1>1, <1>2, StepsUpTo
  <1> QED BY <1>3 DEF T

\* Its values at the sets 1..i are a chain.
LEMMA InitialSubsets ==
    ASSUME NEW S, NEW base \in S, NEW n \in Nat, NEW F \in [1..n -> [S -> S]],
           NEW g \in LargestFirst(S, base, n, F)
    PROVE  [i \in 0..n |-> g[1..i]] \in Chains(S, base, n, F)
  <1> DEFINE c == [i \in 0..n |-> g[1..i]]
  <1>1. /\ g \in [SUBSET (1..n) -> S]
        /\ \A s \in SUBSET (1..n) : g[s] = IF s = {} THEN base ELSE F[Max(s)][g[s \ {Max(s)}]]
    BY DEF LargestFirst
  <1>2. \A i \in 0..n : 1..i \in SUBSET (1..n)
    OBVIOUS
  <1>3. c \in [0..n -> S]
    BY <1>1, <1>2
  <1>4. c[0] = base
    <2>1. 1..0 = {} /\ 0 \in 0..n
      OBVIOUS
    <2>2. c[0] = g[1..0]
      OBVIOUS
    <2> QED BY <1>1, <1>2, <2>1, <2>2
  <1>5. ASSUME NEW i \in 1..n PROVE c[i] = F[i][c[i - 1]]
    <2>1. i \in 1..i /\ i \in Nat /\ 1..i \in SUBSET (1..i)
      OBVIOUS
    <2>2. Max(1..i) = i
      BY <2>1, MaxIs
    <2>3. (1..i) \ {i} = 1..(i - 1) /\ 1..i # {}
      OBVIOUS
    <2>4. c[i] = g[1..i] /\ c[i - 1] = g[1..(i - 1)] /\ i \in 0..n
      OBVIOUS
    <2>5. g[1..i] = IF 1..i = {} THEN base ELSE F[Max(1..i)][g[(1..i) \ {Max(1..i)}]]
      <3>1. 1..i \in SUBSET (1..n)
        OBVIOUS
      <3> QED BY <1>1, <3>1, Zenon
    <2> HIDE DEF c
    <2> QED BY <2>2, <2>3, <2>4, <2>5
  <1> HIDE DEF c
  <1>6. c \in Chains(S, base, n, F)
    BY <1>3, <1>4, <1>5 DEF Chains
  <1> QED BY <1>6 DEF c

-----------------------------------------------------------------------------
(* Files and texts *)

LEMMA Concat ==
    ASSUME NEW S, NEW s \in Seq(S), NEW t \in Seq(S)
    PROVE  /\ Len(s \o t) = Len(s) + Len(t)
           /\ \A j \in 1..Len(s) : (s \o t)[j] = s[j]
           /\ \A j \in 1..Len(t) : (s \o t)[Len(s) + j] = t[j]
  OBVIOUS

\* What is flattened from sequences over S is one.
LEMMA FlattenTyped ==
    ASSUME NEW S, NEW n \in Nat, NEW ss \in [1..n -> Seq(S)]
    PROVE  FlattenSeq(ss) \in Seq(S)
  <1>1. PICK c \in Flattens(S, n, ss) : TRUE
    BY FlattenChain
  <1> QED BY <1>1 DEF Flattens

\* What comes first is flattened first.
StartsAs(S, n, ss, m, rr) ==
    /\ n \in Nat /\ ss \in [1..n -> Seq(S)]
    /\ m \in 0..n /\ rr \in [1..m -> Seq(S)]
    /\ \A i \in 1..m : rr[i] = ss[i]

\* The first m parts flatten to what the chain has after m steps.
LEMMA FlattenFirst ==
    ASSUME NEW S, NEW n, NEW ss, NEW c \in Flattens(S, n, ss), NEW m, NEW rr,
           StartsAs(S, n, ss, m, rr)
    PROVE  FlattenSeq(rr) = c[m]
  <1> USE DEF StartsAs
  <1>1. PICK b \in Flattens(S, m, rr) : TRUE
    <2>1. m \in Nat
      OBVIOUS
    <2>2. Flattens(S, m, rr) # {}
      BY <2>1, FlattenChain
    <2> QED BY <2>2
  <1> DEFINE T == {i \in 0..m : b[i] = c[i]}
  <1>2. 0 \in T
    BY <1>1 DEF Flattens
  <1>3. ASSUME NEW i \in 0..m, i \in T, i < m PROVE i + 1 \in T
    <2>1. i + 1 \in 1..m /\ i + 1 \in 1..n /\ (i + 1) - 1 = i
      BY <1>3
    <2>2. b[i + 1] = b[i] \o rr[i + 1] /\ c[i + 1] = c[i] \o ss[i + 1]
      BY <1>1, <2>1 DEF Flattens
    <2>3. b[i] = c[i] /\ rr[i + 1] = ss[i + 1]
      BY <1>3, <2>1
    <2>4. b[i + 1] = c[i + 1]
      BY <2>2, <2>3, Zenon
    <2> QED BY <2>1, <2>4
  <1> HIDE DEF T
  <1>4. \A i \in 0..m : i \in T
    <2>1. m \in Nat
      OBVIOUS
    <2> QED BY <2>1, <1>2, <1>3, StepsUpTo
  <1> QED BY <1>1, <1>4 DEF T, Flattens

\* What was put down stays.
LEMMA FlattenGrows ==
    ASSUME NEW S, NEW n \in Nat, NEW ss \in [1..n -> Seq(S)], NEW c \in Flattens(S, n, ss)
    PROVE  \A k \in 0..n : \A i \in 0..k :
              Len(c[i]) <= Len(c[k]) /\ \A j \in 1..Len(c[i]) : c[k][j] = c[i][j]
  <1> DEFINE Kept(k, i) == Len(c[i]) <= Len(c[k]) /\ \A j \in 1..Len(c[i]) : c[k][j] = c[i][j]
             T == {k \in 0..n : \A i \in 0..k : Kept(k, i)}
  <1>1. \A i \in 0..n : c[i] \in Seq(S) /\ Len(c[i]) \in Nat
    BY DEF Flattens
  <1>2. 0 \in T
    BY <1>1
  <1>3. ASSUME NEW k \in 0..n, k \in T, k < n PROVE k + 1 \in T
    <2>1. k + 1 \in 1..n /\ k + 1 \in 0..n /\ (k + 1) - 1 = k
      BY <1>3
    <2>2. c[k + 1] = c[k] \o ss[k + 1]
      BY <2>1 DEF Flattens
    <2>3. ss[k + 1] \in Seq(S)
      BY <2>1
    <2>4. /\ Len(c[k + 1]) = Len(c[k]) + Len(ss[k + 1])
          /\ \A j \in 1..Len(c[k]) : c[k + 1][j] = c[k][j]
      <3>1. c[k] \in Seq(S) /\ Len(c[k]) \in Nat /\ Len(ss[k + 1]) \in Nat
        BY <1>1, <2>3
      <3>2. /\ Len(c[k] \o ss[k + 1]) = Len(c[k]) + Len(ss[k + 1])
            /\ \A j \in 1..Len(c[k]) : (c[k] \o ss[k + 1])[j] = c[k][j]
        <4> DEFINE s == c[k]
                   t == ss[k + 1]
        <4>1. s \in Seq(S) /\ t \in Seq(S)
          BY <2>3, <3>1
        <4> HIDE DEF s, t
        <4>2. /\ Len(s \o t) = Len(s) + Len(t)
              /\ \A j \in 1..Len(s) : (s \o t)[j] = s[j]
          BY <4>1, Concat
        <4> QED BY <4>2 DEF s, t
      <3> QED BY <2>2, <3>2, Zenon
    <2>5. ASSUME NEW i \in 0..(k + 1) PROVE Kept(k + 1, i)
      <3>1. CASE i = k + 1
        BY <1>1, <2>1, <3>1
      <3>2. CASE i \in 0..k
        <4>1. Kept(k, i)
          BY <1>3, <3>2
        <4>2. Len(c[i]) \in Nat /\ Len(c[k]) \in Nat /\ Len(ss[k + 1]) \in Nat
          BY <1>1, <1>3, <2>3, <3>2
        <4>3. \A j \in 1..Len(c[i]) : j \in 1..Len(c[k]) /\ c[k][j] = c[i][j]
          BY <4>1, <4>2
        <4>4. Len(c[i]) <= Len(c[k])
          BY <4>1
        <4>5. Len(c[i]) <= Len(c[k + 1])
          <5> DEFINE a == Len(c[i])
                     b == Len(c[k])
                     d == Len(ss[k + 1])
                     e == Len(c[k + 1])
          <5>1. e = b + d /\ a <= b /\ a \in Nat /\ b \in Nat /\ d \in Nat
            BY <2>4, <4>2, <4>4
          <5> HIDE DEF a, b, d, e
          <5>2. a <= e
            BY <5>1
          <5> QED BY <5>2 DEF a, e
        <4>6. \A j \in 1..Len(c[i]) : c[k + 1][j] = c[i][j]
          BY <2>4, <4>3, Zenon
        <4> QED BY <4>5, <4>6
      <3> QED BY <3>1, <3>2
    <2> QED BY <2>1, <2>5
  <1> HIDE DEF T
  <1>4. \A k \in 0..n : k \in T
    BY <1>2, <1>3, StepsUpTo
  <1> QED BY <1>4 DEF T

-----------------------------------------------------------------------------
(* Printed lines *)

\* The prefix before a character that begins a line.
PutOf(text) ==
    [i \in 1..Len(text) |->
        IF i = 1 \/ text[i - 1] = "lf" THEN <<Prefix, text[i]>> ELSE <<text[i]>>]

PieceOf(piece) ==
    [i \in 1..Len(piece) |->
        IF piece[i] = "lf" /\ i < Len(piece) THEN <<piece[i], Prefix>> ELSE <<piece[i]>>]

Printed == Chars \cup {Prefix}

\* WithPrefix is the flattening of PutOf.
LEMMA PutTyped ==
    ASSUME NEW text \in Seq(Chars)
    PROVE  /\ PutOf(text) \in [1..Len(text) -> Seq(Printed)]
           /\ PieceOf(text) \in [1..Len(text) -> Seq(Printed)]
           /\ WithPrefix(text) = FlattenSeq(PutOf(text))
           /\ WithPrefix(text) \in Seq(Printed)
  <1>1. Len(text) \in Nat /\ \A i \in 1..Len(text) : text[i] \in Printed
    BY DEF Printed
  <1>2. \A c \in Printed : <<c>> \in Seq(Printed) /\ <<Prefix, c>> \in Seq(Printed)
                        /\ <<c, Prefix>> \in Seq(Printed)
    BY DEF Printed
  <1>3. PutOf(text) \in [1..Len(text) -> Seq(Printed)]
    BY <1>1, <1>2, Zenon DEF PutOf
  <1>4. PieceOf(text) \in [1..Len(text) -> Seq(Printed)]
    BY <1>1, <1>2, Zenon DEF PieceOf
  <1>5. WithPrefix(text) = FlattenSeq(PutOf(text))
    BY Zenon DEF WithPrefix, PutOf
  <1>6. FlattenSeq(PutOf(text)) \in Seq(Printed)
    BY <1>1, <1>3, FlattenTyped
  <1> QED BY <1>3, <1>4, <1>5, <1>6

\* Three ways to write what is put down for one more character.
Together(u, c, d) ==
    /\ u \o <<c>> = (u \o <<c>>) \o <<>>
    /\ u \o <<c, d>> = (u \o <<c>>) \o <<d>>
    /\ (u \o <<d>>) \o <<c>> = (u \o <<d, c>>) \o <<>>
    /\ (u \o <<d>>) \o <<c, d>> = (u \o <<d, c>>) \o <<d>>
    /\ u \o <<>> = u

LEMMA PutTogether ==
    ASSUME NEW u \in Seq(Printed), NEW c \in Printed, NEW d \in Printed
    PROVE  Together(u, c, d)
  <1>1. u \o <<c, d>> = (u \o <<c>>) \o <<d>>
    <2>1. u \o <<c, d>> \in Seq(Printed) /\ (u \o <<c>>) \o <<d>> \in Seq(Printed) /\ Len(u) \in Nat
      OBVIOUS
    <2>2. Len(u \o <<c, d>>) = Len(u) + 2 /\ Len((u \o <<c>>) \o <<d>>) = Len(u) + 2
      OBVIOUS
    <2>3. \A i \in 1..(Len(u) + 2) : (u \o <<c, d>>)[i] = ((u \o <<c>>) \o <<d>>)[i]
      OBVIOUS
    <2> QED BY <2>1, <2>2, <2>3, SeqEqual
  <1>2. (u \o <<d>>) \o <<c>> = u \o <<d, c>>
    <2>1. (u \o <<d>>) \o <<c>> \in Seq(Printed) /\ u \o <<d, c>> \in Seq(Printed) /\ Len(u) \in Nat
      OBVIOUS
    <2>2. Len((u \o <<d>>) \o <<c>>) = Len(u) + 2 /\ Len(u \o <<d, c>>) = Len(u) + 2
      OBVIOUS
    <2>3. \A i \in 1..(Len(u) + 2) : ((u \o <<d>>) \o <<c>>)[i] = (u \o <<d, c>>)[i]
      OBVIOUS
    <2> QED BY <2>1, <2>2, <2>3, SeqEqual
  <1>3. (u \o <<d>>) \o <<c, d>> = (u \o <<d, c>>) \o <<d>>
    <2>1. (u \o <<d>>) \o <<c, d>> \in Seq(Printed) /\ (u \o <<d, c>>) \o <<d>> \in Seq(Printed) /\ Len(u) \in Nat
      OBVIOUS
    <2>2. Len((u \o <<d>>) \o <<c, d>>) = Len(u) + 3 /\ Len((u \o <<d, c>>) \o <<d>>) = Len(u) + 3
      OBVIOUS
    <2>3. \A i \in 1..(Len(u) + 3) : ((u \o <<d>>) \o <<c, d>>)[i] = ((u \o <<d, c>>) \o <<d>>)[i]
      OBVIOUS
    <2> QED BY <2>1, <2>2, <2>3, SeqEqual
  <1>4. u \o <<>> = u
    BY ConcatEmptySeq
  <1>5. (u \o <<c>>) \o <<>> = u \o <<c>> /\ (u \o <<d, c>>) \o <<>> = u \o <<d, c>>
    <2>1. u \o <<c>> \in Seq(Printed) /\ u \o <<d, c>> \in Seq(Printed)
      OBVIOUS
    <2> QED BY <2>1, ConcatEmptySeq
  <1> QED BY <1>1, <1>2, <1>3, <1>4, <1>5, Zenon DEF Together

LEMMA PrintedAssociative ==
    ASSUME NEW u \in Seq(Printed), NEW v \in Seq(Printed), NEW w \in Seq(Printed)
    PROVE  (u \o v) \o w = u \o (v \o w)
  BY ConcatAssociative

LEMMA SubSeqOf ==
    ASSUME NEW S, NEW s \in Seq(S), NEW i \in 1..(Len(s) + 1), NEW j \in (i - 1)..Len(s)
    PROVE  /\ SubSeq(s, i, j) \in Seq(S) /\ Len(SubSeq(s, i, j)) = j - i + 1
           /\ \A k \in 1..(j - i + 1) : SubSeq(s, i, j)[k] = s[i + k - 1]
  OBVIOUS

\* The k elements after the first p.
LEMMA CutOf ==
    ASSUME NEW S, NEW s \in Seq(S), NEW p \in 0..Len(s), NEW k \in 0..(Len(s) - p), NEW q, q = p + k
    PROVE  LET d == SubSeq(s, p + 1, q)
           IN  d \in Seq(S) /\ Len(d) = k /\ \A i \in 1..k : d[i] = s[p + i]
  <1>1. Len(s) \in Nat /\ p \in Nat /\ k \in Nat
    OBVIOUS
  <1>2. p + 1 \in 1..(Len(s) + 1) /\ q \in ((p + 1) - 1)..Len(s) /\ q - (p + 1) + 1 = k
    BY <1>1
  <1>3. \A i \in 1..k : (p + 1) + i - 1 = p + i
    BY <1>1
  <1> DEFINE d == SubSeq(s, p + 1, q)
  <1>4. /\ d \in Seq(S) /\ Len(d) = q - (p + 1) + 1
        /\ \A i \in 1..(q - (p + 1) + 1) : d[i] = s[(p + 1) + i - 1]
    BY <1>2, SubSeqOf
  <1> HIDE DEF d
  <1>5. d \in Seq(S) /\ Len(d) = k /\ \A i \in 1..k : d[i] = s[p + i]
    BY <1>2, <1>3, <1>4
  <1> QED BY <1>5 DEF d

\* A piece more of the file, whatever its length.
THEOREM CatPiece ==
    ASSUME NEW data \in Seq(Chars), NEW p \in 0..Len(data), NEW k \in 1..(Len(data) - p),
           printed = WithPrefix(SubSeq(data, 1, p)),
           continued <=> p > 0 /\ data[p] # "lf"
    PROVE  PrintedPiece(SubSeq(data, p + 1, p + k)) = WithPrefix(SubSeq(data, 1, p + k))
  <1> DEFINE text == SubSeq(data, 1, p + k)
             piece == SubSeq(data, p + 1, p + k)
             had == SubSeq(data, 1, p)
             n == p + k
             puts == PutOf(text)
             gets == PieceOf(piece)
             start == IF continued THEN printed ELSE Append(printed, Prefix)
  <1>1. /\ text \in Seq(Chars) /\ Len(text) = n /\ \A i \in 1..n : text[i] = data[i]
        /\ piece \in Seq(Chars) /\ Len(piece) = k /\ \A i \in 1..k : piece[i] = data[p + i]
        /\ had \in Seq(Chars) /\ Len(had) = p /\ \A i \in 1..p : had[i] = data[i]
        /\ n \in Nat /\ k \in Nat /\ p \in Nat
    OBVIOUS
  <1> HIDE DEF text, piece, had, n
  <1>2. puts \in [1..n -> Seq(Printed)] /\ gets \in [1..k -> Seq(Printed)]
        /\ PutOf(had) \in [1..p -> Seq(Printed)]
    BY <1>1, PutTyped, Zenon
  <1>3. WithPrefix(text) = FlattenSeq(puts) /\ WithPrefix(had) = FlattenSeq(PutOf(had))
        /\ WithPrefix(had) \in Seq(Printed)
    BY <1>1, PutTyped, Zenon
  <1>4. Flattens(Printed, n, puts) # {} /\ Flattens(Printed, k, gets) # {}
    <2> HIDE DEF puts, gets
    <2> QED BY <1>1, <1>2, FlattenChain
  <1>5. PICK D \in Flattens(Printed, n, puts) : TRUE
    BY <1>4
  <1>6. PICK G \in Flattens(Printed, k, gets) : TRUE
    BY <1>4
  <1>7. /\ \A i \in 0..n : D[i] \in Seq(Printed)
        /\ \A i \in 1..n : D[i] = D[i - 1] \o puts[i]
        /\ FlattenSeq(puts) = D[n]
        /\ \A i \in 0..k : G[i] \in Seq(Printed)
        /\ \A i \in 1..k : G[i] = G[i - 1] \o gets[i]
        /\ G[0] = <<>> /\ FlattenSeq(gets) = G[k]
    BY <1>5, <1>6 DEF Flattens
  <1>8. printed = D[p]
    <2>1. \A i \in 1..p : PutOf(had)[i] = puts[i]
      <3> TAKE i \in 1..p
      <3>1. i \in 1..n /\ had[i] = text[i] /\ (i # 1 => had[i - 1] = text[i - 1])
        <4>1. n = p + k
          BY DEF n
        <4>2. i \in 1..n /\ (i # 1 => i - 1 \in 1..p /\ i - 1 \in 1..n)
          BY <1>1, <4>1
        <4> QED BY <1>1, <4>2
      <3> QED BY <1>1, <3>1, Zenon DEF PutOf
    <2>2. p \in 0..n
      BY <1>1 DEF n
    <2> DEFINE rr == PutOf(had)
    <2>4. rr \in [1..p -> Seq(Printed)] /\ \A i \in 1..p : rr[i] = puts[i]
      BY <1>2, <2>1
    <2> HIDE DEF puts, rr
    <2>3. FlattenSeq(rr) = D[p]
      <3>1. n \in Nat /\ puts \in [1..n -> Seq(Printed)]
        BY <1>1, <1>2
      <3>2. StartsAs(Printed, n, puts, p, rr)
        BY <2>2, <2>4, <3>1 DEF StartsAs
      <3> QED BY <3>2, FlattenFirst
    <2> QED BY <1>3, <2>3 DEF had, rr
  <1> DEFINE Opening(j) == (j = 0 /\ ~continued) \/ (j > 0 /\ j < k /\ piece[j] = "lf")
             Due(j) == IF Opening(j) THEN <<Prefix>> ELSE <<>>
             T == {j \in 0..k : start \o G[j] = D[p + j] \o Due(j)}
  <1>9. start \in Seq(Printed) /\ start = D[p] \o Due(0)
    <2>1. D[p] \in Seq(Printed) /\ Prefix \in Printed
      <3>1. p \in 0..n
        BY <1>1 DEF n
      <3>2. Prefix \in Printed
        BY DEF Printed
      <3> QED BY <1>7, <3>1, <3>2
    <2>2. Append(D[p], Prefix) = D[p] \o <<Prefix>> /\ D[p] \o <<>> = D[p]
          /\ Append(D[p], Prefix) \in Seq(Printed)
      BY <2>1, AppendIsConcat, ConcatEmptySeq, AppendProperties
    <2>3. CASE continued
      <3>1. start = D[p] /\ Due(0) = <<>>
        BY <1>8, <2>3
      <3> HIDE DEF start, Due
      <3> QED BY <2>1, <2>2, <3>1
    <2>4. CASE ~continued
      <3>1. start = Append(D[p], Prefix) /\ Due(0) = <<Prefix>>
        BY <1>8, <2>4
      <3> HIDE DEF start, Due
      <3> QED BY <2>1, <2>2, <3>1
    <2> QED BY <2>3, <2>4
  <1>10. 0 \in T
    <2>1. start \o <<>> = start
      BY <1>9, ConcatEmptySeq
    <2>2. 0 \in 0..k /\ p + 0 = p
      BY <1>1
    <2> QED BY <1>7, <1>9, <2>1, <2>2
  <1>11. ASSUME NEW j \in 0..k, j \in T, j < k PROVE j + 1 \in T
    <2> DEFINE c == piece[j + 1]
               u == D[p + j]
    <2>1. /\ j + 1 \in 1..k /\ p + j + 1 \in 1..n /\ p + j \in 0..n
          /\ (j + 1) - 1 = j /\ (p + j + 1) - 1 = p + j /\ p + (j + 1) = p + j + 1
      BY <1>1, <1>11 DEF n
    <2>2. c = text[p + j + 1] /\ c \in Printed /\ Prefix \in Printed /\ u \in Seq(Printed)
      <3>1. text[p + (j + 1)] = data[p + (j + 1)] /\ piece[j + 1] = data[p + (j + 1)]
            /\ piece[j + 1] \in Chars
        BY <1>1, <2>1
      <3> QED BY <1>7, <2>1, <3>1 DEF Printed
    <2>3. Opening(j) <=> p + j + 1 = 1 \/ text[p + j] = "lf"
      <3>1. CASE j = 0
        <4>1. p > 0 => text[p] = data[p]
          BY <1>1 DEF n
        <4> QED BY <1>1, <3>1, <4>1
      <3>2. CASE j > 0
        <4>1. text[p + j] = data[p + j] /\ piece[j] = data[p + j]
          BY <1>1, <2>1, <3>2
        <4> QED BY <1>1, <1>11, <3>2, <4>1
      <3> QED BY <3>1, <3>2
    <2>4. puts[p + j + 1] = IF Opening(j) THEN <<Prefix, c>> ELSE <<c>>
      <3>1. puts[p + j + 1] = IF p + j + 1 = 1 \/ text[(p + j + 1) - 1] = "lf"
                              THEN <<Prefix, text[p + j + 1]>> ELSE <<text[p + j + 1]>>
        BY <1>1, <2>1, Zenon DEF PutOf
      <3> HIDE DEF Open, puts, c
      <3> QED BY <2>1, <2>2, <2>3, <3>1, Zenon
    <2>5. Opening(j + 1) <=> piece[j + 1] = "lf" /\ j + 1 < k
      BY <1>11
    <2>6. gets[j + 1] = IF Opening(j + 1) THEN <<c, Prefix>> ELSE <<c>>
      <3>1. gets[j + 1] = IF piece[j + 1] = "lf" /\ j + 1 < k
                          THEN <<piece[j + 1], Prefix>> ELSE <<piece[j + 1]>>
        BY <1>1, <2>1, Zenon DEF PieceOf
      <3> HIDE DEF Open, gets
      <3> QED BY <2>5, <3>1, Zenon
    <2>7. start \o G[j] = u \o Due(j) /\ G[j + 1] = G[j] \o gets[j + 1]
          /\ D[p + j + 1] = u \o puts[p + j + 1]
      <3> HIDE DEF Due, puts, gets, start
      <3> QED BY <1>7, <1>11, <2>1
    <2>8. start \o G[j + 1] = (u \o Due(j)) \o gets[j + 1]
      <3> DEFINE a == G[j]
                 b == gets[j + 1]
      <3>1. a \in Seq(Printed) /\ b \in Seq(Printed)
        <4> HIDE DEF gets
        <4> QED BY <1>2, <1>7, <2>1
      <3>2. start \o (a \o b) = (start \o a) \o b
        <4>1. start \in Seq(Printed)
          BY <1>9
        <4> HIDE DEF start, a, b
        <4> QED BY <3>1, <4>1, PrintedAssociative
      <3> HIDE DEF start, u, Due, gets
      <3> QED BY <2>7, <3>2, Zenon
    <2> HIDE DEF Open, puts, gets, start, u, c
    <2>9. (u \o Due(j)) \o gets[j + 1] = (u \o puts[p + j + 1]) \o Due(j + 1)
      <3>1. Together(u, c, Prefix)
        BY <2>2, PutTogether
      <3>2. CASE Opening(j) /\ Opening(j + 1)
        BY <2>4, <2>6, <3>1, <3>2, Zenon DEF Together
      <3>3. CASE Opening(j) /\ ~Opening(j + 1)
        BY <2>4, <2>6, <3>1, <3>3, Zenon DEF Together
      <3>4. CASE ~Opening(j) /\ Opening(j + 1)
        BY <2>4, <2>6, <3>1, <3>4, Zenon DEF Together
      <3>5. CASE ~Opening(j) /\ ~Opening(j + 1)
        BY <2>4, <2>6, <3>1, <3>5, Zenon DEF Together
      <3> QED BY <3>2, <3>3, <3>4, <3>5
    <2> HIDE DEF Due
    <2>10. start \o G[j + 1] = D[p + (j + 1)] \o Due(j + 1)
      BY <2>1, <2>7, <2>8, <2>9, Zenon
    <2>11. j + 1 \in 0..k
      BY <2>1
    <2> QED BY <2>10, <2>11
  <1> HIDE DEF T
  <1>12. \A j \in 0..k : j \in T
    BY <1>1, <1>10, <1>11, StepsUpTo
  <1>13. start \o G[k] = D[n]
    <2>1. k \in T
      BY <1>1, <1>12
    <2>2. Due(k) = <<>> /\ p + k = n
      BY <1>1 DEF n
    <2>3. D[n] \o <<>> = D[n]
      BY <1>1, <1>7, ConcatEmptySeq
    <2> HIDE DEF Due, start
    <2> QED BY <2>1, <2>2, <2>3, Zenon DEF T
  <1>14. PrintedPiece(piece) = start \o FlattenSeq(gets)
    BY Zenon DEF PrintedPiece, PieceOf
  <1>15. PrintedPiece(piece) = WithPrefix(text)
    <2> HIDE DEF start, puts, gets
    <2> QED BY <1>3, <1>7, <1>13, <1>14
  <1> QED BY <1>15 DEF piece, text

-----------------------------------------------------------------------------
(* Texts with either end of line *)

\* The text with a "\r" before the characters in C.
WithCr(text, C) ==
    [i \in 1..Len(text) |-> IF i \in C THEN <<"cr", text[i]>> ELSE <<text[i]>>]

LineEnds(text) == {i \in 1..Len(text) : text[i] = "lf"}

\* The parts of such a text, one for each character.
LEMMA WithCrTyped ==
    ASSUME NEW text \in Seq(Chars), NEW C
    PROVE  /\ Len(text) \in Nat
           /\ WithCr(text, C) \in [1..Len(text) -> Seq(Chars)]
           /\ \A i \in 1..Len(text) :
                /\ i \in C => /\ Len(WithCr(text, C)[i]) = 2
                              /\ WithCr(text, C)[i][1] = "cr"
                              /\ WithCr(text, C)[i][2] = text[i]
                /\ i \notin C => /\ Len(WithCr(text, C)[i]) = 1
                                 /\ WithCr(text, C)[i][1] = text[i]
  <1>1. Len(text) \in Nat /\ \A i \in 1..Len(text) : text[i] \in Chars
    OBVIOUS
  <1>2. \A c \in Chars : <<c>> \in Seq(Chars) /\ <<"cr", c>> \in Seq(Chars)
    BY DEF Chars
  <1>3. WithCr(text, C) \in [1..Len(text) -> Seq(Chars)]
    BY <1>1, <1>2, Zenon DEF WithCr
  <1>4. ASSUME NEW i \in 1..Len(text), i \in C
        PROVE  /\ Len(WithCr(text, C)[i]) = 2
               /\ WithCr(text, C)[i][1] = "cr"
               /\ WithCr(text, C)[i][2] = text[i]
    <2>1. WithCr(text, C)[i] = <<"cr", text[i]>>
      BY <1>4, Zenon DEF WithCr
    <2> QED BY <2>1
  <1>5. ASSUME NEW i \in 1..Len(text), i \notin C
        PROVE  /\ Len(WithCr(text, C)[i]) = 1
               /\ WithCr(text, C)[i][1] = text[i]
    <2>1. WithCr(text, C)[i] = <<text[i]>>
      BY <1>5, Zenon DEF WithCr
    <2> QED BY <2>1
  <1> QED BY <1>1, <1>3, <1>4, <1>5

\* The ends of the characters in what is flattened align it with the text.
LEMMA HeldIsAligned ==
    ASSUME NEW text \in Seq(Chars), NEW C, C \subseteq LineEnds(text)
    PROVE  Aligned(FlattenSeq(WithCr(text, C)), text, Len(text),
                   Len(FlattenSeq(WithCr(text, C))))
  <1> DEFINE n == Len(text)
             ss == WithCr(text, C)
             data == FlattenSeq(ss)
  <1>1. n \in Nat /\ ss \in [1..n -> Seq(Chars)]
    BY WithCrTyped
  <1> HIDE DEF ss, n
  <1>2. PICK c \in Flattens(Chars, n, ss) : TRUE
    BY <1>1, FlattenChain
  <1>3. /\ \A i \in 0..n : c[i] \in Seq(Chars) /\ Len(c[i]) \in Nat
        /\ c[0] = <<>> /\ data = c[n]
        /\ \A i \in 1..n : c[i] = c[i - 1] \o ss[i]
    <2> HIDE DEF data
    <2>1. /\ \A i \in 0..n : c[i] \in Seq(Chars)
          /\ c[0] = <<>> /\ FlattenSeq(ss) = c[n]
          /\ \A i \in 1..n : c[i] = c[i - 1] \o ss[i]
      BY <1>2 DEF Flattens
    <2>2. \A i \in 0..n : Len(c[i]) \in Nat
      BY <2>1
    <2> QED BY <2>1, <2>2 DEF data
  <1>4. \A i \in 0..n : Len(c[i]) <= Len(c[n]) /\ \A j \in 1..Len(c[i]) : c[n][j] = c[i][j]
    <2>1. n \in 0..n
      BY <1>1
    <2> QED BY <1>1, <2>1, FlattenGrows
  <1> DEFINE o == [i \in 0..n |-> Len(c[i])]
  <1>5. o \in [0..n -> 0..Len(c[n])] /\ o[0] = 0 /\ o[n] = Len(c[n])
    <2>1. Len(c[0]) = 0 /\ n \in 0..n /\ 0 \in 0..n
      BY <1>1, <1>3
    <2>2. \A i \in 0..n : Len(c[i]) \in 0..Len(c[n])
      <3>1. Len(c[n]) \in Nat
        BY <1>3, <2>1
      <3> QED BY <1>3, <1>4, <3>1
    <2> QED BY <2>1, <2>2
  <1>6. ASSUME NEW i \in 1..n PROVE Matches(c[n], text, i, o[i - 1], o[i])
    <2> DEFINE p == Len(c[i - 1])
               a == c[i - 1]
               b == ss[i]
    <2>1. i - 1 \in 0..n /\ i \in 0..n
      BY <1>1
    <2>2. o[i - 1] = p /\ o[i] = Len(c[i])
      BY <2>1
    <2>3. a \in Seq(Chars) /\ b \in Seq(Chars) /\ p \in Nat
      BY <1>1, <1>3, <2>1
    <2>4. c[i] = a \o b
      BY <1>3
    <2>5. /\ Len(a \o b) = p + Len(b)
          /\ \A j \in 1..Len(b) : (a \o b)[p + j] = b[j]
      <3>1. p = Len(a)
        OBVIOUS
      <3> HIDE DEF a, b, p
      <3> QED BY <2>3, <3>1, Concat
    <2>6. /\ Len(c[i]) = p + Len(b)
          /\ \A j \in 1..Len(b) : c[i][p + j] = b[j]
      <3> HIDE DEF a, b, p
      <3> QED BY <2>4, <2>5
    <2>7. Len(b) \in Nat /\ \A j \in 1..Len(b) : c[n][p + j] = b[j]
      <3>1. \A j \in 1..Len(b) : p + j \in 1..Len(c[i])
        <4> HIDE DEF p, b
        <4> QED BY <2>3, <2>6
      <3>2. \A j \in 1..Len(c[i]) : c[n][j] = c[i][j]
        BY <1>4, <2>1
      <3> HIDE DEF p, b
      <3> QED BY <2>3, <2>6, <3>1, <3>2
    <2>8. CASE i \in C
      <3>1. Len(b) = 2 /\ b[1] = "cr" /\ b[2] = text[i] /\ text[i] = "lf"
        BY <2>8, WithCrTyped DEF ss, n, LineEnds
      <3> HIDE DEF p, b, o
      <3>2. c[n][p + 1] = "cr" /\ c[n][p + 2] = "lf" /\ o[i] = p + 2
        BY <2>2, <2>6, <2>7, <3>1
      <3> QED BY <2>2, <3>1, <3>2 DEF Matches
    <2>9. CASE i \notin C
      <3>1. Len(b) = 1 /\ b[1] = text[i]
        BY <2>9, WithCrTyped DEF ss, n
      <3> HIDE DEF p, b, o
      <3>2. c[n][p + 1] = text[i] /\ o[i] = p + 1
        BY <2>2, <2>6, <2>7, <3>1
      <3> QED BY <2>2, <3>2 DEF Matches
    <2> QED BY <2>8, <2>9
  <1> HIDE DEF o
  <1>7. o \in Alignments(c[n], text, n)
    BY <1>5, <1>6 DEF Alignments
  <1>8. Aligned(c[n], text, n, Len(c[n]))
    BY <1>5, <1>7 DEF Aligned
  <1> QED BY <1>3, <1>8 DEF n, ss

\* Of the ends at which a file matches a text there is one way to write it.
LEMMA AlignedIsHeld ==
    ASSUME NEW data \in Seq(Chars), NEW text \in Seq(Chars),
           Aligned(data, text, Len(text), Len(data))
    PROVE  \E C \in SUBSET LineEnds(text) : data = FlattenSeq(WithCr(text, C))
  <1> DEFINE n == Len(text)
  <1>1. PICK o \in Alignments(data, text, n) : o[n] = Len(data)
    BY DEF Aligned
  <1>2. /\ \A i \in 0..n : o[i] \in 0..Len(data)
        /\ o[0] = 0 /\ \A i \in 1..n : Matches(data, text, i, o[i - 1], o[i])
    BY <1>1 DEF Alignments
  <1> DEFINE C == {i \in LineEnds(text) : o[i] = o[i - 1] + 2}
             ss == WithCr(text, C)
  <1>3. /\ n \in Nat /\ ss \in [1..n -> Seq(Chars)]
        /\ \A i \in 1..n :
             /\ i \in C => Len(ss[i]) = 2 /\ ss[i][1] = "cr" /\ ss[i][2] = text[i]
             /\ i \notin C => Len(ss[i]) = 1 /\ ss[i][1] = text[i]
    <2> HIDE DEF C
    <2> QED BY WithCrTyped
  <1> HIDE DEF ss, n
  <1>4. PICK c \in Flattens(Chars, n, ss) : TRUE
    BY <1>3, FlattenChain
  <1>5. /\ \A i \in 0..n : c[i] \in Seq(Chars)
        /\ c[0] = <<>> /\ FlattenSeq(ss) = c[n]
        /\ \A i \in 1..n : c[i] = c[i - 1] \o ss[i]
    BY <1>4 DEF Flattens
  <1> DEFINE T == {i \in 0..n : Len(c[i]) = o[i] /\ \A j \in 1..o[i] : c[i][j] = data[j]}
  <1>6. 0 \in T
    BY <1>2, <1>3, <1>5
  <1>7. ASSUME NEW i \in 0..n, i \in T, i < n PROVE i + 1 \in T
    <2> DEFINE a == c[i]
               b == ss[i + 1]
               p == o[i]
               q == o[i + 1]
    <2>1. i + 1 \in 1..n /\ i + 1 \in 0..n /\ (i + 1) - 1 = i
      BY <1>3, <1>7
    <2>2. p \in Nat /\ q \in Nat /\ Len(a) = p /\ \A j \in 1..p : a[j] = data[j]
      <3>1. Len(data) \in Nat /\ p \in 0..Len(data) /\ q \in 0..Len(data)
        BY <1>2, <2>1
      <3> QED BY <1>7, <3>1
    <2>3. a \in Seq(Chars) /\ b \in Seq(Chars) /\ c[i + 1] = a \o b
      BY <1>3, <1>5, <2>1
    <2>4. Matches(data, text, i + 1, p, q)
      BY <1>2, <2>1
    <2> DEFINE u == c[i + 1]
    <2>5. /\ u \in Seq(Chars) /\ Len(u) = p + Len(b)
          /\ \A j \in 1..p : u[j] = a[j]
          /\ \A j \in 1..Len(b) : u[p + j] = b[j]
      <3>1. p = Len(a) /\ a \in Seq(Chars) /\ b \in Seq(Chars)
        BY <2>2, <2>3
      <3> HIDE DEF a, b, p
      <3>2. /\ Len(a \o b) = p + Len(b)
            /\ \A j \in 1..p : (a \o b)[j] = a[j]
            /\ \A j \in 1..Len(b) : (a \o b)[p + j] = b[j]
        BY <3>1, Concat
      <3>3. u \in Seq(Chars)
        BY <1>5, <2>1
      <3> HIDE DEF u
      <3> QED BY <2>3, <3>2, <3>3 DEF u
    <2>6. CASE i + 1 \in C
      <3>1. Len(b) = 2 /\ b[1] = "cr" /\ b[2] = text[i + 1]
        <4> HIDE DEF C
        <4> QED BY <1>3, <2>1, <2>6
      <3>2. q = p + 2 /\ text[i + 1] = "lf"
        BY <2>1, <2>6 DEF LineEnds
      <3>3. data[p + 1] = "cr" /\ data[p + 2] = "lf"
        <4> HIDE DEF p, q, a, b, C
        <4> QED BY <2>2, <2>4, <3>2 DEF Matches
      <3>4. Len(u) = q /\ \A j \in 1..q : u[j] = data[j]
        <4>1. u[p + 1] = "cr" /\ u[p + 2] = "lf"
          <5> HIDE DEF a, b, p, q, u, C
          <5> QED BY <2>2, <2>5, <3>1, <3>2
        <4>2. \A j \in 1..q : j \in 1..p \/ j = p + 1 \/ j = p + 2
          <5> HIDE DEF a, b, p, q, u, C
          <5> QED BY <2>2, <3>2
        <4> HIDE DEF a, b, p, q, u, C
        <4> QED BY <2>2, <2>5, <3>1, <3>2, <3>3, <4>1, <4>2
      <3> QED BY <2>1, <3>4
    <2>7. CASE i + 1 \notin C
      <3>1. Len(b) = 1 /\ b[1] = text[i + 1]
        <4> HIDE DEF C
        <4> QED BY <1>3, <2>1, <2>7
      <3>2. i + 1 \in LineEnds(text) \/ text[i + 1] # "lf"
        BY <2>1 DEF LineEnds, n
      <3>3. q = p + 1 /\ data[q] = text[i + 1]
        <4>1. q = p + 2 => text[i + 1] # "lf"
          BY <2>1, <2>7, <3>2
        <4> HIDE DEF p, q, C
        <4> QED BY <2>4, <4>1 DEF Matches
      <3>4. Len(u) = q /\ \A j \in 1..q : u[j] = data[j]
        <4>1. u[p + 1] = text[i + 1]
          <5> HIDE DEF a, b, p, q, u, C
          <5> QED BY <2>2, <2>5, <3>1
        <4>2. \A j \in 1..q : j \in 1..p \/ j = p + 1
          <5> HIDE DEF a, b, p, q, u, C
          <5> QED BY <2>2, <3>3
        <4> HIDE DEF a, b, p, q, u, C
        <4> QED BY <2>2, <2>5, <3>1, <3>3, <4>1, <4>2
      <3> QED BY <2>1, <3>4
    <2> QED BY <2>6, <2>7
  <1> HIDE DEF T
  <1>8. \A i \in 0..n : i \in T
    BY <1>3, <1>6, <1>7, StepsUpTo
  <1>9. data = c[n]
    <2>1. n \in T /\ n \in 0..n
      BY <1>3, <1>8
    <2>2. Len(c[n]) = Len(data) /\ \A j \in 1..Len(data) : c[n][j] = data[j]
      BY <1>1, <2>1 DEF T, n
    <2> QED BY <1>5, <2>1, <2>2, SeqEqual
  <1> QED BY <1>5, <1>9 DEF ss

\* So what compare_file accepts on Windows is what is aligned, whatever the
\* lengths.
THEOREM HoldingIs ==
    ASSUME NEW data \in Seq(Chars), NEW text \in Seq(Chars), host # "posix"
    PROVE  data \in Holding(text) <=> Aligned(data, text, Len(text), Len(data))
  <1>1. Holding(text) = {FlattenSeq(WithCr(text, C)) : C \in SUBSET LineEnds(text)}
    BY Zenon DEF Holding, WithCr, LineEnds
  <1>2. ASSUME NEW C \in SUBSET LineEnds(text), data = FlattenSeq(WithCr(text, C))
        PROVE  Aligned(data, text, Len(text), Len(data))
    BY <1>2, HeldIsAligned
  <1> QED BY <1>1, <1>2, AlignedIsHeld

-----------------------------------------------------------------------------
(* One character more of a file against the text *)

\* An alignment goes on with one more character.
LEMMA AlignMore ==
    ASSUME NEW data \in Seq(Chars), NEW text \in Seq(Chars), NEW m \in Nat, NEW p, NEW q,
           Aligned(data, text, m, p), q \in 0..Len(data), Matches(data, text, m + 1, p, q)
    PROVE  Aligned(data, text, m + 1, q)
  <1>1. PICK o \in Alignments(data, text, m) : o[m] = p
    BY DEF Aligned
  <1>2. /\ o \in [0..m -> 0..Len(data)] /\ o[0] = 0
        /\ \A i \in 1..m : Matches(data, text, i, o[i - 1], o[i])
    BY DEF Alignments
  <1> DEFINE u == [i \in 0..(m + 1) |-> IF i <= m THEN o[i] ELSE q]
  <1>3. u \in [0..(m + 1) -> 0..Len(data)] /\ u[0] = 0 /\ u[m + 1] = q
    BY <1>2
  <1>4. ASSUME NEW i \in 1..(m + 1) PROVE Matches(data, text, i, u[i - 1], u[i])
    <2>1. CASE i = m + 1
      <3>1. u[i - 1] = p /\ u[i] = q
        BY <1>1, <2>1
      <3> HIDE DEF u
      <3> QED BY <2>1, <3>1
    <2>2. CASE i # m + 1
      <3>1. i \in 1..m /\ u[i - 1] = o[i - 1] /\ u[i] = o[i]
        BY <2>2
      <3> HIDE DEF u
      <3> QED BY <1>2, <3>1
    <2> QED BY <2>1, <2>2
  <1> HIDE DEF u
  <1>5. u \in Alignments(data, text, m + 1)
    BY <1>3, <1>4 DEF Alignments
  <1> QED BY <1>3, <1>5 DEF Aligned

\* What is settled decides where the next character of the text ends.
LEMMA SettleMore ==
    ASSUME NEW data \in Seq(Chars), NEW text \in Seq(Chars), NEW m \in 0..Len(text), NEW p,
           Settled(data, text, m, p), m < Len(text), NEW r,
           \A q \in 0..Len(data) : Matches(data, text, m + 1, p, q) => q = r
    PROVE  Settled(data, text, m + 1, r)
  <1> SUFFICES ASSUME NEW o \in Alignments(data, text, Len(text)), o[Len(text)] = Len(data)
               PROVE  o[m + 1] = r
    BY DEF Settled
  <1>1. o[m] = p
    BY DEF Settled
  <1>2. /\ o \in [0..Len(text) -> 0..Len(data)]
        /\ \A i \in 1..Len(text) : Matches(data, text, i, o[i - 1], o[i])
    BY DEF Alignments
  <1>3. m + 1 \in 1..Len(text) /\ m + 1 \in 0..Len(text) /\ (m + 1) - 1 = m
    OBVIOUS
  <1>4. Matches(data, text, m + 1, p, o[m + 1]) /\ o[m + 1] \in 0..Len(data)
    BY <1>1, <1>2, <1>3
  <1> QED BY <1>4

Mismatch(data, text) == ~ Aligned(data, text, Len(text), Len(data))

\* When there is none, or something is left, there is no whole alignment.
LEMMA NoMore ==
    ASSUME NEW data \in Seq(Chars), NEW text \in Seq(Chars), NEW m \in 0..Len(text), NEW p,
           Settled(data, text, m, p),
           IF m < Len(text)
           THEN \A q \in 0..Len(data) : ~ Matches(data, text, m + 1, p, q)
           ELSE p # Len(data)
    PROVE  Mismatch(data, text)
  <1> SUFFICES ASSUME NEW o \in Alignments(data, text, Len(text)), o[Len(text)] = Len(data)
               PROVE  FALSE
    BY DEF Mismatch, Aligned
  <1>1. o[m] = p
    BY DEF Settled
  <1>2. CASE m < Len(text)
    <2>1. /\ o \in [0..Len(text) -> 0..Len(data)]
          /\ \A i \in 1..Len(text) : Matches(data, text, i, o[i - 1], o[i])
      BY DEF Alignments
    <2>2. m + 1 \in 1..Len(text) /\ m + 1 \in 0..Len(text) /\ (m + 1) - 1 = m
      BY <1>2
    <2>3. Matches(data, text, m + 1, p, o[m + 1]) /\ o[m + 1] \in 0..Len(data)
      BY <1>1, <2>1, <2>2
    <2> QED BY <1>2, <2>3
  <1>3. CASE m = Len(text)
    BY <1>1, <1>3
  <1> QED BY <1>2, <1>3

States == [rest : Seq(Chars), cr : BOOLEAN, same : BOOLEAN]

\* A state of the match that still agrees is on its way through file and
\* text, and one that does not is final.
On(data, text, n, s) ==
    /\ s.same => Tracking(data, text, n, s.rest, s.cr)
    /\ ~s.same => Mismatch(data, text)

\* Matched goes from states to states.
LEMMA MatchedTyped ==
    ASSUME NEW s \in States, NEW c \in Chars
    PROVE  Matched(s, c) \in States
  <1>1. s.rest # <<>> => Tail(s.rest) \in Seq(Chars)
    BY DEF States
  <1>2. CASE s.rest = <<>>
    BY <1>2 DEF Matched, States, Chars
  <1>3. CASE s.rest # <<>>
    BY <1>1, <1>3 DEF Matched, States, Chars
  <1> QED BY <1>2, <1>3

\* One character of the file keeps what is known of the match.
LEMMA MatchOne ==
    ASSUME NEW data \in Seq(Chars), NEW text \in Seq(Chars), NEW n \in 0..Len(data),
           n < Len(data), NEW s \in States, s.same, Tracking(data, text, n, s.rest, s.cr)
    PROVE  On(data, text, n + 1, Matched(s, data[n + 1]))
  <1> DEFINE rst == s.rest
             kept == s.cr
             m == Len(text) - Len(rst)
             p == IF kept THEN n - 1 ELSE n
             c == data[n + 1]
             first == IF rst = <<>> THEN "end" ELSE rst[1]
  <1>1. rst \in Seq(Chars) /\ Len(rst) \in Nat /\ Len(text) \in Nat /\ Len(data) \in Nat
        /\ kept \in BOOLEAN /\ s.same = TRUE
    BY DEF States
  <1>2. /\ Suffix(rst, text) /\ p \in 0..Len(data)
        /\ Aligned(data, text, m, p) /\ Settled(data, text, m, p)
        /\ kept => data[n] = "cr" /\ first # "cr"
    BY DEF Tracking
  <1>3. m \in 0..Len(text) /\ m \in Nat /\ (rst = <<>> <=> m = Len(text))
        /\ (rst # <<>> => m < Len(text) /\ first = text[m + 1])
    <2>1. Len(rst) <= Len(text) /\ \A i \in 1..Len(rst) : rst[i] = text[Len(text) - Len(rst) + i]
      BY <1>2 DEF Suffix
    <2>2. rst = <<>> <=> Len(rst) = 0
      BY <1>1
    <2> HIDE DEF rst
    <2> QED BY <1>1, <2>1, <2>2
  <1>4. c \in Chars /\ n \in Nat
    OBVIOUS
  <1>5. rst # <<>> =>
          /\ Tail(rst) \in Seq(Chars) /\ Len(Tail(rst)) = Len(rst) - 1 /\ Suffix(Tail(rst), text)
          /\ Len(text) - Len(Tail(rst)) = m + 1
    <2> SUFFICES ASSUME rst # <<>> PROVE Tail(rst) \in Seq(Chars) /\ Len(Tail(rst)) = Len(rst) - 1
                 /\ Suffix(Tail(rst), text) /\ Len(text) - Len(Tail(rst)) = m + 1
      OBVIOUS
    <2>1. /\ Tail(rst) \in Seq(Chars) /\ Len(Tail(rst)) = Len(rst) - 1
          /\ \A i \in 1..Len(Tail(rst)) : Tail(rst)[i] = rst[i + 1]
      BY <1>1, HeadTailProperties
    <2>2. Suffix(Tail(rst), text)
      <3> HIDE DEF rst
      <3> QED BY <1>1, <1>2, <2>1 DEF Suffix
    <2> HIDE DEF rst
    <2> QED BY <1>1, <2>1, <2>2
  <1> DEFINE r == Matched(s, c)
             taken == [s EXCEPT !.rest = Tail(rst), !.cr = FALSE]
             lost == [s EXCEPT !.same = FALSE]
  <1>6. /\ taken.rest = Tail(rst) /\ taken.cr = FALSE /\ taken.same
        /\ ~lost.same
    BY <1>1 DEF States
  <1> SUFFICES On(data, text, n + 1, r)
    OBVIOUS
  <1>7. p = (IF kept THEN n - 1 ELSE n) /\ (kept => n > 0)
    <2>1. p \in 0..Len(data)
      BY <1>2
    <2> QED BY <1>1, <1>4, <2>1
  <1> HIDE DEF rst, kept, m, p, c, first
  <1>8. ASSUME rst # <<>>, Matches(data, text, m + 1, p, n + 1),
               \A q \in 0..Len(data) : Matches(data, text, m + 1, p, q) => q = n + 1
        PROVE  Tracking(data, text, n + 1, Tail(rst), FALSE)
    <2>1. n + 1 \in 0..Len(data) /\ m < Len(text)
      BY <1>1, <1>3, <1>4, <1>8
    <2>2. Aligned(data, text, m + 1, n + 1)
      BY <1>2, <1>3, <1>8, <2>1, AlignMore
    <2>3. Settled(data, text, m + 1, n + 1)
      BY <1>2, <1>3, <1>8, <2>1, SettleMore
    <2> QED BY <1>5, <1>8, <2>1, <2>2, <2>3 DEF Tracking
  <1>9. CASE kept /\ c = "lf" /\ first = "lf"
    <2>1. r = taken
      BY <1>1, <1>9 DEF Matched, c, first, rst, kept
    <2>2. rst # <<>> /\ text[m + 1] = "lf" /\ data[n] = "cr" /\ data[n + 1] = "lf" /\ p = n - 1
      <3>1. rst # <<>>
        BY <1>9 DEF first
      <3>2. data[n] = "cr"
        BY <1>2, <1>9
      <3> QED BY <1>3, <1>7, <1>9, <3>1, <3>2 DEF c
    <2>3. p + 1 = n /\ p + 2 = n + 1
      BY <1>4, <2>2
    <2>4. Matches(data, text, m + 1, p, n + 1)
      BY <2>2, <2>3 DEF Matches
    <2>5. \A q \in 0..Len(data) : Matches(data, text, m + 1, p, q) => q = n + 1
      BY <2>2, <2>3 DEF Matches
    <2>6. Tracking(data, text, n + 1, Tail(rst), FALSE)
      BY <1>8, <2>2, <2>4, <2>5
    <2> HIDE DEF taken, r
    <2> QED BY <1>6, <2>1, <2>6 DEF On
  <1>10. CASE kept /\ ~(c = "lf" /\ first = "lf")
    <2>1. r = lost
      BY <1>1, <1>10 DEF Matched, c, first, rst, kept
    <2>2. data[n] = "cr" /\ first # "cr" /\ p = n - 1
      BY <1>2, <1>7, <1>10
    <2>3. ASSUME rst = <<>> PROVE Mismatch(data, text)
      <3>1. m = Len(text) /\ p # Len(data)
        BY <1>1, <1>3, <1>4, <2>2, <2>3
      <3> QED BY <1>2, <1>3, <3>1, NoMore
    <2>4. ASSUME rst # <<>> PROVE Mismatch(data, text)
      <3>1. m < Len(text) /\ text[m + 1] = first
        BY <1>3, <2>4
      <3>2. p + 1 = n /\ p + 2 = n + 1
        BY <1>4, <2>2
      <3>3. \A q \in 0..Len(data) : ~ Matches(data, text, m + 1, p, q)
        BY <1>10, <2>2, <3>1, <3>2 DEF Matches, c
      <3> QED BY <1>2, <1>3, <3>1, <3>3, NoMore
    <2>5. Mismatch(data, text)
      BY <2>3, <2>4
    <2> HIDE DEF lost, r
    <2> QED BY <1>6, <2>1, <2>5 DEF On
  <1>11. CASE ~kept /\ c = "cr" /\ first # "cr"
    <2>1. r = [s EXCEPT !.cr = TRUE]
      BY <1>1, <1>11 DEF Matched, c, first, rst, kept
    <2>2. r.rest = rst /\ r.cr /\ r.same
      BY <1>1, <2>1 DEF States, rst
    <2>3. p = n /\ n + 1 \in 0..Len(data) /\ (n + 1) - 1 = n
      BY <1>1, <1>4, <1>7, <1>11
    <2>4. data[n + 1] = "cr" /\ (rst = <<>> \/ rst[1] # "cr")
      BY <1>11 DEF c, first
    <2> HIDE DEF r
    <2>5. Tracking(data, text, n + 1, rst, TRUE)
      BY <1>2, <2>3, <2>4 DEF Tracking, m
    <2> QED BY <2>2, <2>5 DEF On
  <1>12. CASE ~kept /\ ~(c = "cr" /\ first # "cr") /\ c = first
    <2>1. r = taken
      BY <1>1, <1>12 DEF Matched, c, first, rst, kept
    <2>2. rst # <<>> /\ text[m + 1] = c /\ p = n /\ data[n + 1] = c
      <3>1. rst # <<>>
        BY <1>4, <1>12 DEF first, Chars
      <3> QED BY <1>3, <1>7, <1>12, <3>1 DEF c
    <2>3. Matches(data, text, m + 1, p, n + 1)
      BY <2>2 DEF Matches
    <2>4. \A q \in 0..Len(data) : Matches(data, text, m + 1, p, q) => q = n + 1
      BY <2>2 DEF Matches
    <2>5. Tracking(data, text, n + 1, Tail(rst), FALSE)
      BY <1>8, <2>2, <2>3, <2>4
    <2> HIDE DEF taken, r
    <2> QED BY <1>6, <2>1, <2>5 DEF On
  <1>13. CASE ~kept /\ ~(c = "cr" /\ first # "cr") /\ c # first
    <2>1. r = lost
      BY <1>1, <1>13 DEF Matched, c, first, rst, kept
    <2>2. p = n
      BY <1>7, <1>13
    <2>3. ASSUME rst = <<>> PROVE Mismatch(data, text)
      <3>1. m = Len(text) /\ p # Len(data)
        BY <1>1, <1>3, <1>4, <2>2, <2>3
      <3> QED BY <1>2, <1>3, <3>1, NoMore
    <2>4. ASSUME rst # <<>> PROVE Mismatch(data, text)
      <3>1. m < Len(text) /\ text[m + 1] = first
        BY <1>3, <2>4
      <3>2. \A q \in 0..Len(data) : ~ Matches(data, text, m + 1, p, q)
        BY <1>13, <2>2, <3>1 DEF Matches, c
      <3> QED BY <1>2, <1>3, <3>1, <3>2, NoMore
    <2>5. Mismatch(data, text)
      BY <2>3, <2>4
    <2> HIDE DEF lost, r
    <2> QED BY <1>6, <2>1, <2>5 DEF On
  <1> HIDE DEF r
  <1> QED BY <1>1, <1>9, <1>10, <1>11, <1>12, <1>13

\* Whatever the pieces: after one, the match is where it would be after its
\* characters one by one.
THEOREM MatchPiece ==
    ASSUME NEW data \in Seq(Chars), NEW text \in Seq(Chars), NEW n \in 0..Len(data),
           NEW k \in 1..(Len(data) - n), NEW rst \in Seq(Chars), NEW kept \in BOOLEAN,
           Tracking(data, text, n, rst, kept)
    PROVE  LET s == FoldLeft(Matched, [rest |-> rst, cr |-> kept, same |-> TRUE],
                             SubSeq(data, n + 1, n + k))
           IN  s \in States /\ On(data, text, n + k, s)
  <1> DEFINE base == [rest |-> rst, cr |-> kept, same |-> TRUE]
             piece == SubSeq(data, n + 1, n + k)
             F == [i \in 1..k |-> [s \in States |-> Matched(s, piece[i])]]
             fold == FoldLeft(Matched, base, piece)
  <1>1. /\ piece \in Seq(Chars) /\ Len(piece) = k /\ DOMAIN piece = 1..k
        /\ \A i \in 1..k : piece[i] = data[n + i] /\ piece[i] \in Chars
        /\ k \in Nat /\ n \in Nat
    <2>1. k \in 0..(Len(data) - n) /\ k \in Nat /\ n \in Nat
      OBVIOUS
    <2>2. piece \in Seq(Chars) /\ Len(piece) = k /\ \A i \in 1..k : piece[i] = data[n + i]
      BY <2>1, CutOf
    <2> HIDE DEF piece, F, base, fold
    <2>4. DOMAIN piece = 1..k /\ \A i \in 1..k : piece[i] \in Chars
      BY <2>2
    <2> QED BY <2>1, <2>2, <2>4
  <1>2. base \in States
    BY DEF States
  <1> HIDE DEF piece
  <1>3. F \in [1..k -> [States -> States]]
    BY <1>1, MatchedTyped
  <1>4. \A i \in 1..k : \A s \in States : F[i][s] = Matched(s, piece[i])
    OBVIOUS
  <1> DEFINE iter[s \in SUBSET (1..k)] ==
               IF s = {} THEN base
               ELSE LET x == Max(s) IN Matched(iter[s \ {x}], piece[x])
  <1>5. fold = iter[1..k]
    BY <1>1 DEF FoldLeft, MapThenFoldSet
  <1> HIDE DEF F, base
  <1>6. PICK g \in LargestFirst(States, base, k, F) : TRUE
    BY <1>1, <1>2, <1>3, SubsetRecursion
  <1>7. /\ g \in [SUBSET (1..k) -> States]
        /\ \A s \in SUBSET (1..k) : g[s] = IF s = {} THEN base ELSE F[Max(s)][g[s \ {Max(s)}]]
    BY <1>6 DEF LargestFirst
  <1>8. ASSUME NEW s \in SUBSET (1..k)
        PROVE  g[s] = IF s = {} THEN base ELSE Matched(g[s \ {Max(s)}], piece[Max(s)])
    <2>1. CASE s = {}
      BY <1>7, <2>1
    <2>2. CASE s # {}
      <3>1. Max(s) \in 1..k
        BY <1>1, <2>2, MaxIn
      <3>2. g[s \ {Max(s)}] \in States
        BY <1>7
      <3>3. g[s] = F[Max(s)][g[s \ {Max(s)}]]
        BY <1>7, <2>2, Zenon
      <3> QED BY <1>4, <2>2, <3>1, <3>2, <3>3, Zenon
    <2> QED BY <2>1, <2>2
  <1>9. g = [s \in SUBSET (1..k) |-> IF s = {} THEN base ELSE Matched(g[s \ {Max(s)}], piece[Max(s)])]
    BY <1>7, <1>8, Zenon
  <1>10. iter = [s \in SUBSET (1..k) |->
                    IF s = {} THEN base ELSE Matched(iter[s \ {Max(s)}], piece[Max(s)])]
    BY <1>9 DEF iter
  <1> HIDE DEF iter
  <1> DEFINE c == [i \in 0..k |-> g[1..i]]
             T == {i \in 0..k : iter[1..i] = g[1..i]}
             U == {i \in 0..k : On(data, text, n + i, c[i])}
  <1>11. /\ \A i \in 0..k : c[i] \in States
         /\ c[0] = base /\ \A i \in 1..k : c[i] = F[i][c[i - 1]]
    <2>1. c \in Chains(States, base, k, F)
      BY <1>1, <1>2, <1>3, <1>6, InitialSubsets
    <2> HIDE DEF c
    <2> QED BY <2>1 DEF Chains
  <1>12. iter[1..k] = g[1..k]
    <2>1. 0 \in T
      <3>1. 1..0 = {} /\ {} \in SUBSET (1..k)
        OBVIOUS
      <3>2. iter[{}] = base /\ g[{}] = base
        BY <1>9, <1>10, <3>1, Zenon
      <3>3. iter[1..0] = g[1..0]
        BY <3>1, <3>2, Zenon
      <3> QED BY <1>1, <3>3
    <2>2. ASSUME NEW i \in 0..k, i \in T, i < k PROVE i + 1 \in T
      <3> DEFINE s == 1..(i + 1)
      <3>1. s \in SUBSET (1..k) /\ s # {} /\ i + 1 \in s /\ i + 1 \in Nat /\ s \in SUBSET (1..(i + 1))
            /\ s \ {i + 1} = 1..i
        <4>1. i \in Nat /\ i + 1 <= k
          BY <1>1, <2>2
        <4>2. \A j \in s : j \in 1..k
          BY <1>1, <4>1
        <4>3. i + 1 \in s /\ i + 1 \in Nat /\ s \ {i + 1} = 1..i
          BY <4>1
        <4> QED BY <4>2, <4>3
      <3>2. Max(s) = i + 1
        BY <3>1, MaxIs
      <3>3. g[s] = Matched(g[1..i], piece[i + 1])
        <4> HIDE DEF s
        <4> QED BY <1>8, <3>1, <3>2, Zenon
      <3>4. iter[s] = Matched(iter[1..i], piece[i + 1])
        <4> HIDE DEF s
        <4> QED BY <1>10, <3>1, <3>2, Zenon
      <3>5. iter[1..i] = g[1..i]
        BY <2>2
      <3>6. iter[1..(i + 1)] = g[1..(i + 1)]
        BY <3>3, <3>4, <3>5, Zenon
      <3> QED BY <1>1, <2>2, <3>6
    <2> HIDE DEF T
    <2>3. \A i \in 0..k : i \in T
      BY <1>1, <2>1, <2>2, StepsUpTo
    <2>4. k \in T
      BY <1>1, <2>3
    <2> QED BY <2>4 DEF T
  <1>13. \A i \in 0..k : i \in U
    <2>1. 0 \in U
      <3>1. base.rest = rst /\ base.cr = kept /\ base.same /\ n + 0 = n
        BY <1>1 DEF base
      <3>2. On(data, text, n + 0, base)
        <4> HIDE DEF base
        <4> QED BY <3>1 DEF On
      <3> HIDE DEF c
      <3> QED BY <1>1, <1>11, <3>2
    <2>2. ASSUME NEW i \in 0..k, i \in U, i < k PROVE i + 1 \in U
      <3>1. i + 1 \in 1..k /\ i + 1 \in 0..k /\ (i + 1) - 1 = i /\ n + (i + 1) = (n + i) + 1
            /\ n + i \in 0..Len(data) /\ n + i < Len(data)
        BY <1>1, <2>2
      <3> HIDE DEF c
      <3>2. On(data, text, n + i, c[i]) /\ c[i] \in States
        BY <1>11, <2>2
      <3>3. c[i + 1] = Matched(c[i], piece[i + 1]) /\ piece[i + 1] = data[(n + i) + 1]
        <4>1. c[i + 1] = F[i + 1][c[i]]
          BY <1>11, <3>1
        <4>2. F[i + 1][c[i]] = Matched(c[i], piece[i + 1])
          BY <1>4, <3>1, <3>2
        <4>3. piece[i + 1] = data[n + (i + 1)]
          BY <1>1, <3>1
        <4> QED BY <3>1, <4>1, <4>2, <4>3
      <3>4. CASE c[i].same
        <4>1. Tracking(data, text, n + i, c[i].rest, c[i].cr)
          BY <3>2, <3>4 DEF On
        <4>2. On(data, text, (n + i) + 1, Matched(c[i], data[(n + i) + 1]))
          BY <3>1, <3>2, <3>4, <4>1, MatchOne
        <4>3. On(data, text, n + (i + 1), c[i + 1])
          BY <3>1, <3>3, <4>2, Zenon
        <4> QED BY <3>1, <4>3
      <3>5. CASE ~c[i].same
        <4>1. Mismatch(data, text)
          BY <3>2, <3>5 DEF On
        <4>2. c[i + 1] = c[i]
          BY <3>3, <3>5 DEF Matched
        <4>3. On(data, text, n + (i + 1), c[i + 1])
          BY <3>5, <4>1, <4>2 DEF On
        <4> QED BY <3>1, <4>3
      <3> QED BY <3>4, <3>5
    <2> HIDE DEF U
    <2> QED BY <1>1, <2>1, <2>2, StepsUpTo
  <1>14. fold = c[k] /\ On(data, text, n + k, c[k]) /\ c[k] \in States
    <2>1. k \in 0..k
      BY <1>1
    <2>2. On(data, text, n + k, c[k]) /\ c[k] \in States
      <3> HIDE DEF c
      <3> QED BY <1>11, <1>13, <2>1
    <2>3. c[k] = g[1..k]
      BY <2>1
    <2> HIDE DEF c
    <2> QED BY <1>5, <1>12, <2>2, <2>3, Zenon
  <1> HIDE DEF c, fold
  <1>15. fold \in States /\ On(data, text, n + k, fold)
    BY <1>14, Zenon
  <1> QED BY <1>15, Zenon DEF fold, base, piece

\* At the end of the file.
LEMMA MatchEnd ==
    ASSUME NEW data \in Seq(Chars), NEW text \in Seq(Chars), NEW rst \in Seq(Chars),
           NEW kept \in BOOLEAN, Tracking(data, text, Len(data), rst, kept)
    PROVE  rst = <<>> /\ ~kept <=> Aligned(data, text, Len(text), Len(data))
  <1> DEFINE m == Len(text) - Len(rst)
             p == IF kept THEN Len(data) - 1 ELSE Len(data)
  <1>1. Len(rst) \in Nat /\ Len(text) \in Nat /\ Len(data) \in Nat
    OBVIOUS
  <1>2. /\ Suffix(rst, text) /\ p \in 0..Len(data)
        /\ Aligned(data, text, m, p) /\ Settled(data, text, m, p)
        /\ kept => data[Len(data)] = "cr" /\ (rst = <<>> \/ rst[1] # "cr")
    BY DEF Tracking
  <1>3. m \in 0..Len(text) /\ (rst = <<>> <=> m = Len(text))
        /\ (rst # <<>> => m < Len(text) /\ rst[1] = text[m + 1])
    <2>1. Len(rst) <= Len(text) /\ \A i \in 1..Len(rst) : rst[i] = text[Len(text) - Len(rst) + i]
      BY <1>2 DEF Suffix
    <2>2. rst = <<>> <=> Len(rst) = 0
      BY <1>1
    <2> QED BY <1>1, <2>1, <2>2
  <1>4. p = IF kept THEN Len(data) - 1 ELSE Len(data)
    OBVIOUS
  <1> HIDE DEF m, p
  <1>5. rst = <<>> /\ ~kept => Aligned(data, text, Len(text), Len(data))
    BY <1>2, <1>3, <1>4
  <1>6. ASSUME rst = <<>>, kept PROVE Mismatch(data, text)
    <2>1. m = Len(text) /\ p # Len(data)
      BY <1>1, <1>3, <1>4, <1>6
    <2> QED BY <1>2, <1>3, <2>1, NoMore
  <1>7. ASSUME rst # <<>> PROVE Mismatch(data, text)
    <2>1. m < Len(text) /\ text[m + 1] = rst[1]
      BY <1>3, <1>7
    <2>2. ASSUME NEW q \in 0..Len(data), Matches(data, text, m + 1, p, q) PROVE FALSE
      <3>1. kept /\ q = Len(data)
        BY <1>1, <1>4, <2>2 DEF Matches
      <3>2. data[q] = "cr" /\ text[m + 1] # "cr" /\ q = p + 1
        BY <1>1, <1>2, <1>4, <1>7, <2>1, <3>1
      <3> QED BY <1>1, <1>4, <2>2, <3>1, <3>2 DEF Matches
    <2> QED BY <1>2, <1>3, <2>1, <2>2, NoMore
  <1> QED BY <1>5, <1>6, <1>7 DEF Mismatch

\* At the start of both, nothing is matched.
LEMMA MatchStart ==
    ASSUME NEW data \in Seq(Chars), NEW text \in Seq(Chars)
    PROVE  Tracking(data, text, 0, text, FALSE)
  <1> DEFINE o == [i \in 0..0 |-> 0]
  <1>1. Len(text) \in Nat /\ Len(data) \in Nat /\ Len(text) - Len(text) = 0
    OBVIOUS
  <1>2. o \in [0..0 -> 0..Len(data)] /\ o[0] = 0
    BY <1>1
  <1> HIDE DEF o
  <1>3. o \in Alignments(data, text, 0)
    BY <1>2 DEF Alignments
  <1>4. Aligned(data, text, 0, 0)
    BY <1>2, <1>3 DEF Aligned
  <1>5. Settled(data, text, 0, 0)
    BY DEF Settled, Alignments
  <1>6. Suffix(text, text)
    <2>1. \A i \in 1..Len(text) : 0 + i = i
      OBVIOUS
    <2> QED BY <1>1, <2>1 DEF Suffix
  <1> QED BY <1>1, <1>4, <1>5, <1>6 DEF Tracking

-----------------------------------------------------------------------------
(* Access: what atf_fs_eaccess answers against what the kernel allows *)

LEMMA OneRight ==
    ASSUME NEW node, NEW class, NEW right
    PROVE  Grants(node, class, {right}) <=> <<class, right>> \in node.mode
  BY DEF Grants

\* The class the kernel decides by is one the function looks at, unless it is
\* that of an effective group it is not told of.
LEMMA ClassSeen ==
    ASSUME NEW node, NEW who, ~IsRoot(who), ~Untold(node, who), NEW right,
           <<KernelClass(node, who), right>> \in node.mode
    PROVE  Eaccess(node, who, {right})
  <1>1. CASE who.euid = node.uid
    BY <1>1, OneRight DEF KernelClass, Eaccess
  <1>2. CASE who.euid # node.uid /\ node.gid \in who.groups
    BY <1>2, OneRight DEF KernelClass, Eaccess, MemberOf
  <1>3. CASE who.euid # node.uid /\ node.gid \notin who.groups
    <2>1. node.gid # who.egid
      BY <1>3 DEF Untold, MemberOf
    <2> QED BY <1>3, <2>1, OneRight DEF KernelClass, Eaccess, MemberOf
  <1> QED BY <1>1, <1>2, <1>3

LEMMA RootExecutes ==
    ASSUME NEW node, node.mode \subseteq Bits
    PROVE  (\E bit \in node.mode : bit[2] = "x") <=>
           \E class \in {"owner", "group", "other"} : <<class, "x">> \in node.mode
  BY DEF Bits

\* Nobody is refused a right that the file's mode gives them in the kernel's
\* eyes, but for what it gives to the effective group of a user whom getgroups
\* does not tell of it: so atf_tc_require_prog skips no test for a program that
\* a user may run by any other right.
THEOREM NothingRefused ==
    ASSUME NEW node, node.mode \subseteq Bits, node.type # "dir",
           NEW who, ~Untold(node, who), NEW right \in Rights, KernelAllows(node, who, right)
    PROVE  Eaccess(node, who, {right})
  <1>1. CASE IsRoot(who)
    BY <1>1, RootExecutes DEF KernelAllows, Eaccess
  <1>2. CASE ~IsRoot(who)
    BY <1>2, ClassSeen DEF KernelAllows
  <1> QED BY <1>1, <1>2

\* What is granted against the kernel is granted to an owner as a member of the
\* group, or as one of the others to a user whose effective group it is, and
\* never to anybody else.
THEOREM GrantedInTwoPlaces ==
    ASSUME NEW node, node.mode \subseteq Bits,
           NEW who, NEW right \in Rights, Eaccess(node, who, {right})
    PROVE  KernelAllows(node, who, right) \/ AsGroup(node, who, right) \/ AsOther(node, who, right)
  <1>1. CASE IsRoot(who)
    BY <1>1, RootExecutes DEF KernelAllows, Eaccess
  <1>2. CASE ~IsRoot(who)
    BY <1>2, OneRight DEF KernelAllows, KernelClass, Eaccess, MemberOf, AsGroup, AsOther, Untold
  <1> QED BY <1>1, <1>2

-----------------------------------------------------------------------------
(* Nodes, files and names *)

\* No node is Nothing.
LEMMA NodeIsThere ==
    /\ \A x \in Nodes : x # Nothing
    /\ Nothing.type \in Types /\ Nothing.mode \subseteq Bits
  <1>1. ASSUME NEW x \in Nodes, x = Nothing PROVE FALSE
    <2>1. x.data = <<"nothing">> /\ x.data \in Seq(Chars)
      BY <1>1 DEF Nodes, Nothing, Node
    <2>2. <<"nothing">>[1] \in Chars
      BY <2>1
    <2> QED BY <2>2 DEF Chars
  <1>2. Nothing.type \in Types /\ Nothing.mode \subseteq Bits
    BY DEF Nothing, Node, Types
  <1> QED BY <1>1, <1>2

\* What a file system that is one gives of TypeOK.
Files == [Names -> Nodes \cup {Nothing}]

LEMMA FilesTyped ==
    ASSUME NEW f \in Files, NEW n \in Names
    PROVE  /\ f[n].type \in Types /\ f[n].mode \subseteq Bits
           /\ f[n] = Nothing \/ f[n].data \in Seq(Chars)
           /\ f[n] # Nothing => f[n] \in Nodes
  <1>1. f[n] \in Nodes \/ f[n] = Nothing
    BY DEF Files
  <1> QED BY <1>1, NodeIsThere DEF Nodes

LEMMA FilesChange ==
    ASSUME NEW f \in Files, NEW n \in Names, NEW x \in Nodes \cup {Nothing}
    PROVE  [f EXCEPT ![n] = x] \in Files
  BY DEF Files

\* A node with one field changed is one.
LEMMA NodeChange ==
    ASSUME NEW x \in Nodes
    PROVE  /\ \A data \in Seq(Chars) :
                /\ [x EXCEPT !.data = data] \in Nodes
                /\ [x EXCEPT !.data = data].data = data
                /\ [x EXCEPT !.data = data].mode = x.mode
           /\ \A mode \in SUBSET Bits :
                /\ [x EXCEPT !.mode = mode] \in Nodes
                /\ [x EXCEPT !.mode = mode].data = x.data
                /\ [x EXCEPT !.mode = mode].mode = mode
           /\ \A uid \in Nat :
                /\ [x EXCEPT !.uid = uid] \in Nodes
                /\ [x EXCEPT !.uid = uid].data = x.data
                /\ [x EXCEPT !.uid = uid].mode = x.mode
                /\ [x EXCEPT !.uid = uid].type = x.type
                /\ [x EXCEPT !.uid = uid].uid = uid
  BY DEF Nodes

LEMMA NodeMade ==
    ASSUME NEW type \in Types, NEW mode \in SUBSET Bits, NEW data \in Seq(Chars)
    PROVE  Node(type, mode, data) \in Nodes
  BY DEF Node, Nodes

\* A file opened to be written is there, is empty, and the others are as they were.
LEMMA EmptiedTyped ==
    ASSUME fs \in Files, user.euid \in Nat, NEW n \in Names, NEW mode \in SUBSET Bits
    PROVE  /\ Emptied(n, mode) \in Files
           /\ Emptied(n, mode)[n] \in Nodes
           /\ Emptied(n, mode)[n].data = <<>>
           /\ \A m \in Names : m # n => Emptied(n, mode)[m] = fs[m]
  <1>1. <<>> \in Seq(Chars) /\ Masked(mode, umask) \in SUBSET Bits /\ "reg" \in Types
    BY DEF Masked, Types
  <1>2. ASSUME NEW x \in Nodes, x.data = <<>>, Emptied(n, mode) = [fs EXCEPT ![n] = x]
        PROVE  /\ Emptied(n, mode) \in Files
               /\ Emptied(n, mode)[n] \in Nodes
               /\ Emptied(n, mode)[n].data = <<>>
               /\ \A m \in Names : m # n => Emptied(n, mode)[m] = fs[m]
    <2>1. [fs EXCEPT ![n] = x] \in Files
      BY FilesChange
    <2>2. [fs EXCEPT ![n] = x][n] = x /\ \A m \in Names : m # n => [fs EXCEPT ![n] = x][m] = fs[m]
      BY DEF Files
    <2> QED BY <1>2, <2>1, <2>2
  <1>3. CASE Here(n)
    <2> DEFINE x == [fs[n] EXCEPT !.data = <<>>]
    <2>1. fs[n] \in Nodes
      BY <1>3, FilesTyped DEF Here
    <2>2. x \in Nodes /\ x.data = <<>>
      BY <1>1, <2>1, NodeChange
    <2>3. Emptied(n, mode) = [fs EXCEPT ![n] = x]
      BY <1>3 DEF Emptied
    <2> HIDE DEF x
    <2> QED BY <1>2, <2>2, <2>3
  <1>4. CASE ~Here(n)
    <2> DEFINE y == Node("reg", Masked(mode, umask), <<>>)
               x == [y EXCEPT !.uid = user.euid]
    <2>1. y \in Nodes /\ y.data = <<>>
      BY <1>1, NodeMade DEF Node
    <2>2. x \in Nodes /\ x.data = <<>>
      <3> HIDE DEF y
      <3> QED BY <2>1, NodeChange
    <2>3. Emptied(n, mode) = [fs EXCEPT ![n] = x]
      BY <1>4 DEF Emptied
    <2> HIDE DEF x
    <2> QED BY <1>2, <2>2, <2>3
  <1> QED BY <1>3, <1>4

LEMMA ModesAreBits ==
    /\ CreateMode \in SUBSET Bits /\ Bits \in SUBSET Bits
    /\ OwnerAll \in SUBSET Bits /\ OwnerRW \in SUBSET Bits
  BY DEF CreateMode, Bits, OwnerAll, OwnerRW, Rights

LEMMA TextsTyped ==
    ASSUME NEW n \in Nat, NEW text \in Texts(n)
    PROVE  text \in Seq(Chars)
  BY DEF Texts

\* The file the call is about.
LEMMA NameTyped ==
    ASSUME IInv
    PROVE  /\ call.op \in Ops \ {"list", "mkdtemp", "mkstemp", "executable"} =>
                Name = call.names[1] /\ Name \in Names
           /\ call.op = "copy" => Dest \in Names
           /\ pc = "stat" => Name = call.names[1] /\ Name \in Names
           /\ call.op = "executable" /\ tries < Len(call.names) =>
                Name = call.names[tries + 1] /\ Name \in Names
           /\ pc = "access" => Name \in Names
  <1>1. call.names \in Seq(Names) /\ tries \in Nat
    BY DEF IInv, TypeOK
  <1>2. \A i \in 1..Len(call.names) : call.names[i] \in Names
    BY <1>1
  <1>3. call.op \in Ops \ {"list", "mkdtemp", "mkstemp", "executable"} =>
            Len(call.names) \in {1, 2}
    BY DEF IInv, Arguments
  <1>4. call.op # "executable" => Name = call.names[1]
    BY DEF Name
  <1>5. call.op = "executable" => Name = call.names[tries + 1]
    BY DEF Name
  <1>6. call.op = "copy" => Len(call.names) = 2
    BY DEF IInv, Arguments
  <1>7. pc = "stat" => call.op # "executable" /\ Len(call.names) = 1
    BY DEF IInv, Arguments, Stages
  <1>8. pc = "access" => call.op = "executable" /\ tries < Len(call.names)
    BY DEF IInv, Arguments, Stages
  <1>9. Len(call.names) \in Nat
    BY <1>1
  <1>10. call.op = "copy" => Dest \in Names
    BY <1>2, <1>6 DEF Dest
  <1>11. call.op \in Ops \ {"list", "mkdtemp", "mkstemp", "executable"} => Name \in Names
    BY <1>2, <1>3, <1>4
  <1>12. pc = "stat" => Name = call.names[1] /\ Name \in Names
    BY <1>2, <1>4, <1>7
  <1>13. call.op = "executable" /\ tries < Len(call.names) =>
            Name = call.names[tries + 1] /\ Name \in Names
    BY <1>1, <1>2, <1>5, <1>9
  <1> QED BY <1>4, <1>8, <1>10, <1>11, <1>12, <1>13

\* A piece of a file that is being read.
LEMMA PieceRead ==
    ASSUME IInv, pc \in {"copy", "cat", "compare"}, NEW piece \in Pieces
    PROVE  /\ Data \in Seq(Chars) /\ pos \in 0..Len(Data)
           /\ \E k \in 1..(Len(Data) - pos) :
                 piece = SubSeq(Data, pos + 1, pos + k) /\ Len(piece) = k
           /\ piece \in Seq(Chars)
  <1>1. Name \in Names /\ Here(Name) /\ pos <= Len(Data) /\ pos \in Nat /\ fs \in Files
    <2>1. call.op \in {"copy", "cat", "compare"}
      BY DEF IInv, Stages
    <2>2. Name \in Names
      BY <2>1, NameTyped DEF Ops
    <2> QED BY <2>2 DEF IInv, Reading, TypeOK, Shape, Files
  <1>2. Data \in Seq(Chars)
    BY <1>1, FilesTyped DEF Here, Data
  <1>3. Len(Data) \in Nat
    BY <1>2
  <1>4. PICK k \in 1..Least(Left, Buffer) : piece = SubSeq(Data, pos + 1, pos + k)
    BY DEF Pieces
  <1>5. k \in 1..(Len(Data) - pos)
    BY <1>1, <1>3, AtfFilesAssumption DEF Least, Left
  <1>6. Len(piece) = k /\ piece \in Seq(Chars)
    <2>1. pos + 1 \in 1..(Len(Data) + 1) /\ pos + k \in ((pos + 1) - 1)..Len(Data)
          /\ (pos + k) - (pos + 1) + 1 = k
      BY <1>1, <1>3, <1>5
    <2> HIDE DEF Data
    <2> QED BY <1>2, <1>4, <2>1, SubSeqOf
  <1> QED BY <1>1, <1>2, <1>3, <1>4, <1>5, <1>6

-----------------------------------------------------------------------------
(* Types are kept *)

Calls == [op : Ops \cup {"none"}, names : Seq(Names), text : Seq(Chars), asked : Rights]

LEMMA Typed ==
    ASSUME IInv
    PROVE  /\ host \in {"posix", "windows"} /\ user \in Users /\ user.euid \in Nat
           /\ umask \subseteq Bits /\ room \in Nat /\ fs \in Files /\ before \in Files
           /\ call \in Calls /\ pc \in PCs /\ pos \in Nat /\ rest \in Seq(Chars)
           /\ cr \in BOOLEAN /\ continued \in BOOLEAN /\ printed \in Seq(Printed)
           /\ listed \subseteq Names /\ tries \in 0..MaxTries
           /\ answer \in {"none", "true", "false"} /\ trouble \in BOOLEAN
  BY DEF IInv, TypeOK, Shape, Files, Calls, Users, Ids, Printed

LEMMA TypedNext ==
    ASSUME host' \in {"posix", "windows"}, user' \in Users, umask' \subseteq Bits,
           room' \in Nat, fs' \in Files, before' \in Files,
           call' \in Calls, pc' \in PCs, pos' \in Nat, rest' \in Seq(Chars),
           cr' \in BOOLEAN, continued' \in BOOLEAN, printed' \in Seq(Printed),
           listed' \subseteq Names, tries' \in 0..MaxTries,
           answer' \in {"none", "true", "false"}, trouble' \in BOOLEAN
    PROVE  TypeOK' /\ Shape'
  <1>1. ASSUME NEW n \in Names
        PROVE  /\ fs'[n].type \in Types /\ fs'[n].mode \subseteq Bits
               /\ fs'[n] = Nothing \/ fs'[n].data \in Seq(Chars)
    BY FilesTyped
  <1>2. call'.op \in Ops \cup {"none"} /\ call'.names \in Seq(Names)
    BY DEF Calls
  <1>3. TypeOK'
    BY <1>1, <1>2 DEF TypeOK
  <1>4. Shape'
    BY DEF Shape, Files, Calls, Printed
  <1> QED BY <1>3, <1>4

\* A step that changes no file and no call, and what it has to say of the rest.
LEMMA TypedKeep ==
    ASSUME IInv, UNCHANGED <<world, room, fs>>, pc' \in PCs, UNCHANGED listed \/ listed' \subseteq Names,
           pos' \in Nat, rest' \in Seq(Chars), cr' \in BOOLEAN, continued' \in BOOLEAN,
           printed' \in Seq(Printed), tries' \in 0..MaxTries,
           answer' \in {"none", "true", "false"}, trouble' \in BOOLEAN
    PROVE  TypeOK' /\ Shape'
  <1>1. /\ host' \in {"posix", "windows"} /\ user' \in Users /\ umask' \subseteq Bits
        /\ room' \in Nat /\ fs' \in Files /\ before' \in Files /\ call' \in Calls
        /\ listed' \subseteq Names
    BY Typed DEF world
  <1> QED BY <1>1, TypedNext

LEMMA TypedFiles ==
    ASSUME IInv, UNCHANGED <<host, user, umask, before, rest, cr, continued, printed, listed>>,
           fs' \in Files, room' \in Nat, pc' \in PCs, pos' \in Nat, call' \in Calls,
           tries' \in 0..MaxTries,
           answer' \in {"none", "true", "false"}, trouble' \in BOOLEAN
    PROVE  TypeOK' /\ Shape'
  <1>1. /\ host' \in {"posix", "windows"} /\ user' \in Users /\ umask' \subseteq Bits
        /\ before' \in Files /\ rest' \in Seq(Chars) /\ cr' \in BOOLEAN
        /\ continued' \in BOOLEAN /\ printed' \in Seq(Printed) /\ listed' \subseteq Names
    BY Typed
  <1> QED BY <1>1, TypedNext

LEMMA FilesStart == Init => TypeOK /\ Shape /\ fs \in Files /\ pc = "idle"
  <1> SUFFICES ASSUME Init PROVE TypeOK /\ Shape /\ fs \in Files /\ pc = "idle"
    OBVIOUS
  <1>1. /\ <<>> \in Seq(Chars) /\ <<"x">> \in Seq(Chars) /\ OwnerRW \in SUBSET Bits
        /\ <<>> \in Seq(Printed) /\ <<>> \in Seq(Names) /\ "reg" \in Types
    BY ModesAreBits DEF Chars, Types
  <1>2. \A text \in Texts(MaxFile) : text \in Seq(Chars)
    BY TextsTyped, AtfFilesAssumption
  <1>3. fs \in Files
    <2>1. ASSUME NEW first \in Names, NEW x \in Nodes, NEW y \in Nodes \cup {Nothing},
                 fs = [n \in Names |-> IF n = first THEN x ELSE y]
          PROVE  fs \in Files
      BY <2>1 DEF Files
    <2>2. ASSUME NEW first \in Names, NEW text \in Texts(MaxFile),
                 NEW other \in {Nothing, Node("reg", OwnerRW, <<"x">>)},
                 fs = [n \in Names |-> IF n = first THEN Node("reg", OwnerRW, text) ELSE other]
          PROVE  fs \in Files
      <3>1. Node("reg", OwnerRW, text) \in Nodes
        BY <1>1, <1>2, NodeMade
      <3>2. other \in Nodes \cup {Nothing}
        BY <1>1, NodeMade
      <3> QED BY <2>1, <2>2, <3>1, <3>2
    <2>3. ASSUME NEW first \in Names, NEW type \in Types, NEW mode \in Modes,
                 NEW data \in {<<>>, <<"x">>},
                 fs = [n \in Names |-> IF n = first THEN Node(type, mode, data) ELSE Nothing]
          PROVE  fs \in Files
      <3>1. Node(type, mode, data) \in Nodes
        BY <1>1, NodeMade, AtfFilesAssumption
      <3> QED BY <2>1, <2>3, <3>1
    <2> QED BY <2>2, <2>3 DEF Init
  <1>4. user \in Users
    BY AtfFilesAssumption DEF Init, Users, Ids
  <1>5. umask \subseteq Bits
    BY AtfFilesAssumption DEF Init
  <1>6. room \in Nat
    BY AtfFilesAssumption DEF Init
  <1>7. \A n \in Names : fs[n].type \in Types /\ fs[n].mode \subseteq Bits
                          /\ (fs[n] = Nothing \/ fs[n].data \in Seq(Chars))
    BY <1>3, FilesTyped
  <1>8. TypeOK
    <2>1. /\ host \in {"posix", "windows"} /\ pc \in PCs /\ pos \in Nat /\ rest \in Seq(Chars)
          /\ cr \in BOOLEAN /\ continued \in BOOLEAN /\ listed \subseteq Names
          /\ answer \in {"none", "true", "false"} /\ trouble \in BOOLEAN
      BY <1>1 DEF Init, PCs
    <2>2. tries \in 0..MaxTries
      BY AtfFilesAssumption DEF Init
    <2>3. call.op \in Ops \cup {"none"} /\ call.names \in Seq(Names)
      BY <1>1 DEF Init, NoCall
    <2> QED BY <1>4, <1>5, <1>6, <1>7, <2>1, <2>2, <2>3 DEF TypeOK
  <1>9. Shape
    BY <1>1, <1>3 DEF Init, Shape, NoCall, Files, Printed, Rights
  <1> QED BY <1>3, <1>8, <1>9 DEF Init

LEMMA FilesInit == Init => IInv
  <1> SUFFICES ASSUME Init PROVE IInv
    OBVIOUS
  <1>1. TypeOK /\ Shape /\ pc = "idle" /\ call = NoCall
    BY FilesStart DEF Init
  <1>2. pos = 0 /\ rest = <<>> /\ cr = FALSE /\ continued = FALSE /\ printed = <<>>
        /\ listed = {} /\ tries = 0 /\ trouble = FALSE /\ fs = before
    BY DEF Init
  <1>3. Arguments
    BY <1>1 DEF Arguments, NoCall, Ops
  <1>4. Stages
    BY <1>1, <1>2 DEF Stages
  <1>5. Undisturbed /\ Reading /\ Copying /\ Catting /\ Comparing /\ Grepping /\ Looking /\ Making
    BY <1>1, <1>2 DEF Undisturbed, Reading, Copying, Catting, Comparing, Grepping, Looking, Making
  <1>6. Whole
    BY <1>1 DEF Whole
  <1>7. Answers
    BY <1>1 DEF Answers
  <1> QED BY <1>1, <1>3, <1>4, <1>5, <1>6, <1>7 DEF IInv

-----------------------------------------------------------------------------
(* How steps end *)

LEMMA Going ==
    ASSUME pc' \notin {"done", "failed"}
    PROVE  Whole' /\ Answers'
  BY DEF Whole, Answers

LEMMA Ended ==
    ASSUME TypeOK', Shape', Arguments', pc' \in {"done", "failed"}, Whole', Answers'
    PROVE  IInv'
  <1>1. Stages'
    BY DEF Stages
  <1>2. /\ Undisturbed' /\ Reading' /\ Copying' /\ Catting' /\ Comparing' /\ Grepping'
        /\ Looking' /\ Making'
    BY DEF Undisturbed, Reading, Copying, Catting, Comparing, Grepping, Looking, Making
  <1> QED BY <1>1, <1>2 DEF IInv

\* The call that ends is the one that began.
LEMMA EndedSame ==
    ASSUME IInv, TypeOK', Shape', UNCHANGED call, pc' \in {"done", "failed"}, Whole', Answers',
           pc' = "done" => call.op \notin {"mkdtemp", "mkstemp"}
    PROVE  IInv'
  <1>1. Arguments'
    BY DEF IInv, Arguments
  <1> QED BY <1>1, Ended

\* A failure with trouble has nothing to show for it.
LEMMA FailedSo ==
    ASSUME IInv, TypeOK', Shape', UNCHANGED call, pc' = "failed", trouble' = TRUE
    PROVE  IInv'
  <1>1. Whole' /\ Answers'
    BY DEF Whole, Answers
  <1> QED BY <1>1, EndedSame

\* A requirement that fails: of it, only the answer is to be shown.
LEMMA FailedWhole ==
    ASSUME pc' = "failed"
    PROVE  Whole'
  BY DEF Whole

-----------------------------------------------------------------------------
(* Calls begin *)

\* The arguments a call has, and the step it begins with.
Legal(op, l, names, text) ==
    \/ op = "copy" /\ l = "open" /\ Len(names) = 2
    \/ op \in {"cat", "compare"} /\ l = "open" /\ Len(names) = 1
    \/ op = "grep" /\ l = "open" /\ Len(names) = 1 /\ \A i \in 1..Len(text) : text[i] # "lf"
    \/ op \in {"create", "file_exists", "exists", "rmdir", "unlink", "eaccess"} /\ l = op
       /\ Len(names) = 1
    \/ op = "remove" /\ l = "stat" /\ Len(names) = 1
    \/ op \in {"list", "mkdtemp", "mkstemp"} /\ l = op
    \/ op = "executable" /\ l = "look" /\ Len(names) \in 0..MaxTries
    \/ op = "executable" /\ l = "failed" /\ names = <<>>

LEMMA Begun ==
    ASSUME IInv, NEW op, NEW l, NEW names \in Seq(Names), NEW text \in Seq(Chars),
           NEW asked \in Rights, Legal(op, l, names, text), Begin(op, l, names, text, asked)
    PROVE  IInv'
  <1>1. /\ pc = "idle" /\ pc' = l /\ UNCHANGED <<answer, trouble>>
        /\ call' = [op |-> op, names |-> names, text |-> text, asked |-> asked] /\ rest' = text
        /\ UNCHANGED <<host, user, umask, room, fs, before, pos, cr, continued, printed, listed,
                       tries>>
    BY DEF Begin, Goto, looking
  <1>2. /\ pos = 0 /\ cr = FALSE /\ continued = FALSE /\ printed = <<>> /\ listed = {} /\ tries = 0
        /\ trouble = FALSE /\ fs = before
    BY <1>1 DEF IInv, Stages, Undisturbed, TypeOK
  <1>3. op \in Ops /\ l \in PCs /\ AtfFilesAssumption
    BY AtfFilesAssumption DEF Legal, Ops, PCs
  <1>4. TypeOK' /\ Shape'
    <2>1. call' \in Calls
      BY <1>1, <1>3 DEF Calls
    <2> QED BY <1>1, <1>3, <2>1, Typed, TypedNext
  <1>5. Arguments'
    <2>1. Len(<<>>) = 0
      OBVIOUS
    <2>2. call'.op = op /\ call'.names = names /\ call'.text = text
      BY <1>1
    <2>3. MaxTries \in Nat
      BY AtfFilesAssumption
    <2> QED BY <1>1, <1>2, <2>1, <2>2, <2>3 DEF Arguments, Legal, Ops
  <1>6. Stages'
    BY <1>1, <1>2 DEF Stages, Legal
  <1>7. Undisturbed'
    BY <1>1, <1>2 DEF Undisturbed
  <1>8. Looking'
    <2>1. call'.op = op
      BY <1>1
    <2>2. pc' # "access" /\ ~(pc' = "stat" /\ call'.op = "list")
      BY <1>1, <2>1 DEF Legal
    <2>3. \A i \in 1..tries' : FALSE
      BY <1>1, <1>2
    <2>4. \A n \in listed' : FALSE
      BY <1>1, <1>2
    <2> QED BY <2>2, <2>3, <2>4 DEF Looking
  <1>9. Reading' /\ Copying' /\ Catting' /\ Comparing' /\ Grepping' /\ Making'
    BY <1>1 DEF Reading, Copying, Catting, Comparing, Grepping, Making, Legal
  <1>10. Whole'
    BY <1>1 DEF Whole, Legal
  <1>11. Answers'
    <2>1. CASE l = "failed"
      <3>1. op = "executable" /\ names = <<>>
        BY <2>1 DEF Legal
      <3> QED BY <1>1, <2>1, <3>1 DEF Answers
    <2>2. CASE l # "failed"
      BY <1>1, <2>2, Going DEF Legal
    <2> QED BY <2>1, <2>2
  <1> QED BY <1>4, <1>5, <1>6, <1>7, <1>8, <1>9, <1>10, <1>11 DEF IInv

\* The calls of atf_utils begin from the invariant and keep it.
LEMMA CallUtilsKeeps ==
    ASSUME IInv, CallUtils
    PROVE  IInv'
  <1>1. PICK n \in Names :
          \/ \E text \in Texts(MaxText) :
              \/ Begin("compare", "open", <<n>>, text, "r")
              \/ "lf" \notin {text[i] : i \in DOMAIN text} /\ Begin("grep", "open", <<n>>, text, "r")
              \/ fs[n].type # "lnk" /\ Begin("create", "create", <<n>>, text, "w")
          \/ \E d \in Names : fs[d].type # "lnk" /\ Begin("copy", "open", <<n, d>>, <<>>, "r")
          \/ Begin("cat", "open", <<n>>, <<>>, "r")
          \/ Begin("file_exists", "file_exists", <<n>>, <<>>, "r")
    BY DEF CallUtils
  <1>2. /\ <<n>> \in Seq(Names) /\ Len(<<n>>) = 1
        /\ \A d \in Names : <<n, d>> \in Seq(Names) /\ Len(<<n, d>>) = 2
        /\ <<>> \in Seq(Chars) /\ {"r", "w"} \subseteq Rights
    BY DEF Rights
  <1>3. ASSUME NEW text \in Texts(MaxText),
               \/ Begin("compare", "open", <<n>>, text, "r")
               \/ "lf" \notin {text[i] : i \in DOMAIN text} /\ Begin("grep", "open", <<n>>, text, "r")
               \/ fs[n].type # "lnk" /\ Begin("create", "create", <<n>>, text, "w")
        PROVE  IInv'
    <2>1. text \in Seq(Chars) /\ DOMAIN text = 1..Len(text)
      BY TextsTyped, AtfFilesAssumption
    <2>2. CASE Begin("compare", "open", <<n>>, text, "r")
      <3>1. Legal("compare", "open", <<n>>, text)
        BY <1>2 DEF Legal
      <3> QED BY <1>2, <2>1, <2>2, <3>1, Begun
    <2>3. CASE "lf" \notin {text[i] : i \in DOMAIN text} /\ Begin("grep", "open", <<n>>, text, "r")
      <3>1. Legal("grep", "open", <<n>>, text)
        BY <1>2, <2>1, <2>3 DEF Legal
      <3> QED BY <1>2, <2>1, <2>3, <3>1, Begun
    <2>4. CASE Begin("create", "create", <<n>>, text, "w")
      <3>1. Legal("create", "create", <<n>>, text)
        BY <1>2 DEF Legal
      <3> QED BY <1>2, <2>1, <2>4, <3>1, Begun
    <2> QED BY <1>3, <2>2, <2>3, <2>4
  <1>4. ASSUME NEW d \in Names, Begin("copy", "open", <<n, d>>, <<>>, "r")
        PROVE  IInv'
    <2>1. Legal("copy", "open", <<n, d>>, <<>>)
      BY <1>2 DEF Legal
    <2> QED BY <1>2, <1>4, <2>1, Begun
  <1>5. CASE Begin("cat", "open", <<n>>, <<>>, "r")
    <2>1. Legal("cat", "open", <<n>>, <<>>)
      BY <1>2 DEF Legal
    <2> QED BY <1>2, <1>5, <2>1, Begun
  <1>6. CASE Begin("file_exists", "file_exists", <<n>>, <<>>, "r")
    <2>1. Legal("file_exists", "file_exists", <<n>>, <<>>)
      BY <1>2 DEF Legal
    <2> QED BY <1>2, <1>6, <2>1, Begun
  <1> QED BY <1>1, <1>3, <1>4, <1>5, <1>6

LEMMA CallFsKeeps ==
    ASSUME IInv, CallFs
    PROVE  IInv'
  <1>1. /\ <<>> \in Seq(Names) /\ <<>> \in Seq(Chars) /\ "r" \in Rights
        /\ \A n \in Names : <<n>> \in Seq(Names) /\ Len(<<n>>) = 1
    BY DEF Rights
  <1>2. ASSUME NEW n \in Names, NEW op \in {"exists", "rmdir", "unlink"},
               Begin(op, op, <<n>>, <<>>, "r")
        PROVE  IInv'
    <2>1. Legal(op, op, <<n>>, <<>>)
      BY <1>1 DEF Legal
    <2> QED BY <1>1, <1>2, <2>1, Begun
  <1>3. ASSUME NEW n \in Names, NEW right \in Rights, Begin("eaccess", "eaccess", <<n>>, <<>>, right)
        PROVE  IInv'
    <2>1. Legal("eaccess", "eaccess", <<n>>, <<>>)
      BY <1>1 DEF Legal
    <2> QED BY <1>1, <1>3, <2>1, Begun
  <1>4. ASSUME NEW n \in Names, Begin("remove", "stat", <<n>>, <<>>, "r")
        PROVE  IInv'
    <2>1. Legal("remove", "stat", <<n>>, <<>>)
      BY <1>1 DEF Legal
    <2> QED BY <1>1, <1>4, <2>1, Begun
  <1>5. ASSUME NEW op \in {"list", "mkdtemp", "mkstemp"}, Begin(op, op, <<>>, <<>>, "r")
        PROVE  IInv'
    <2>1. Legal(op, op, <<>>, <<>>)
      BY DEF Legal
    <2> QED BY <1>1, <1>5, <2>1, Begun
  <1> QED BY <1>2, <1>3, <1>4, <1>5 DEF CallFs

LEMMA CallLookKeeps ==
    ASSUME IInv, CallLook
    PROVE  IInv'
  <1>1. <<>> \in Seq(Names) /\ <<>> \in Seq(Chars) /\ "x" \in Rights
    BY DEF Rights
  <1>2. ASSUME NEW k \in 1..MaxTries, NEW names \in [1..k -> Names],
               Begin("executable", "look", names, <<>>, "x")
        PROVE  IInv'
    <2>1. names \in Seq(Names) /\ Len(names) = k /\ k \in 0..MaxTries
      BY AtfFilesAssumption
    <2>2. Legal("executable", "look", names, <<>>)
      BY <2>1 DEF Legal
    <2> QED BY <1>1, <1>2, <2>1, <2>2, Begun
  <1>3. CASE Begin("executable", "failed", <<>>, <<>>, "x")
    <2>1. Legal("executable", "failed", <<>>, <<>>)
      BY DEF Legal
    <2> QED BY <1>1, <1>3, <2>1, Begun
  <1> QED BY <1>2, <1>3 DEF CallLook

-----------------------------------------------------------------------------
(* Looks *)

\* A look, once it was taken: the answer stands for what is there.
LEMMA FileExistsKeeps ==
    ASSUME IInv, FileExists
    PROVE  IInv'
  <1>1. /\ pc = "file_exists" /\ call.op = "file_exists" /\ UNCHANGED <<world, room, fs, reading, looking>>
    BY DEF FileExists, Keep, IInv, Stages
  <1>2. TypeOK' /\ Shape'
    BY <1>1, Typed, TypedKeep DEF FileExists, Answer, SystemFails, reading, looking, PCs
  <1>3. CASE SystemFails
    BY <1>1, <1>2, <1>3, FailedSo DEF SystemFails, world
  <1>4. CASE Answer(Here(Name) /\ fs[Name].type # "lnk")
    <2>1. Name = call.names[1]
      BY <1>1, NameTyped DEF Ops
    <2>2. /\ pc' = "done" /\ call' = call /\ fs' = fs
          /\ answer' = "true" <=> Here(call.names[1]) /\ fs[call.names[1]].type # "lnk"
      BY <1>1, <1>4, <2>1 DEF Answer, world
    <2>3. Whole'
      BY <1>1, <2>2 DEF Whole
    <2>4. Answers'
      BY <1>1, <2>2 DEF Answers, Here
    <2> QED BY <1>1, <1>2, <2>2, <2>3, <2>4, EndedSame
  <1> QED BY <1>3, <1>4 DEF FileExists

LEMMA ExistsKeeps ==
    ASSUME IInv, Exists
    PROVE  IInv'
  <1>1. /\ pc = "exists" /\ call.op = "exists" /\ UNCHANGED <<world, room, fs, reading, looking>>
    BY DEF Exists, Keep, IInv, Stages
  <1>2. TypeOK' /\ Shape'
    BY <1>1, Typed, TypedKeep DEF Exists, Answer, SystemFails, reading, looking, PCs
  <1>3. CASE SystemFails
    BY <1>1, <1>2, <1>3, FailedSo DEF SystemFails, world
  <1>4. CASE Answer(Here(Name))
    <2>1. Name = call.names[1]
      BY <1>1, NameTyped DEF Ops
    <2>2. /\ pc' = "done" /\ call' = call /\ fs' = fs
          /\ answer' = "true" <=> Here(call.names[1])
      BY <1>1, <1>4, <2>1 DEF Answer, world
    <2>3. Whole'
      BY <1>1, <2>2 DEF Whole
    <2>4. Answers'
      BY <1>1, <2>2 DEF Answers, Here
    <2> QED BY <1>1, <1>2, <2>2, <2>3, <2>4, EndedSame
  <1> QED BY <1>3, <1>4 DEF Exists

\* What the kernel and the function make of one right to one file.
LEMMA Judged ==
    ASSUME IInv, NEW n \in Names, Here(n), NEW right \in Rights
    PROVE  /\ fs[n].type = "reg" /\ KernelAllows(fs[n], user, right) /\ ~Untold(fs[n], user) =>
                Eaccess(fs[n], user, {right})
           /\ Eaccess(fs[n], user, {right}) =>
                \/ KernelAllows(fs[n], user, right)
                \/ AsGroup(fs[n], user, right) \/ AsOther(fs[n], user, right)
  <1>1. fs[n].mode \subseteq Bits
    BY Typed, FilesTyped
  <1>2. ASSUME fs[n].type = "reg", KernelAllows(fs[n], user, right), ~Untold(fs[n], user)
        PROVE  Eaccess(fs[n], user, {right})
    BY <1>1, <1>2, NothingRefused
  <1>3. ASSUME Eaccess(fs[n], user, {right})
        PROVE  \/ KernelAllows(fs[n], user, right)
               \/ AsGroup(fs[n], user, right) \/ AsOther(fs[n], user, right)
    BY <1>1, <1>3, GrantedInTwoPlaces
  <1> QED BY <1>2, <1>3

LEMMA AskAccessKeeps ==
    ASSUME IInv, AskAccess
    PROVE  IInv'
  <1>1. /\ pc = "eaccess" /\ call.op = "eaccess" /\ UNCHANGED <<world, room, fs, reading, looking>>
        /\ trouble' = trouble /\ pc' \in {"done", "failed"}
    BY DEF AskAccess, Answer, Fails, Keep, IInv, Stages
  <1>2. TypeOK' /\ Shape'
    BY <1>1, Typed, TypedKeep DEF AskAccess, Answer, Fails, reading, looking, PCs
  <1>3. Name = call.names[1] /\ Name \in Names /\ call.asked \in Rights
    BY <1>1, Typed, NameTyped DEF Ops, Calls
  <1>4. CASE Here(Name)
    <2>1. /\ pc' = "done" /\ call' = call /\ fs' = fs /\ user' = user
          /\ answer' = "true" <=> Eaccess(fs[Name], user, {call.asked})
      BY <1>1, <1>4 DEF AskAccess, Answer, world
    <2>2. Whole'
      BY <1>1, <2>1 DEF Whole
    <2>3. Answers'
      BY <1>1, <1>3, <1>4, <2>1, Judged DEF Answers, Here
    <2> QED BY <1>1, <1>2, <2>1, <2>2, <2>3, EndedSame
  <1>5. CASE ~Here(Name)
    <2>1. pc' = "failed" /\ call' = call /\ fs' = fs
      BY <1>1, <1>5 DEF AskAccess, Fails, world
    <2>2. Answers'
      BY <1>1, <1>3, <1>5, <2>1 DEF Answers, Here
    <2> QED BY <1>1, <1>2, <2>1, <2>2, FailedWhole, EndedSame
  <1> QED BY <1>4, <1>5

\* One more directory of PATH.
LEMMA LookKeeps ==
    ASSUME IInv, Look
    PROVE  IInv'
  <1>1. /\ pc = "look" /\ call.op = "executable"
        /\ UNCHANGED <<world, room, fs, reading, listed>>
        /\ tries <= Len(call.names) /\ Len(call.names) <= MaxTries
    BY DEF Look, IInv, Stages, Arguments
  <1>2. /\ tries \in Nat /\ MaxTries \in Nat /\ Len(call.names) \in Nat
        /\ trouble \in BOOLEAN /\ call.names \in Seq(Names)
    BY AtfFilesAssumption, Typed DEF Calls
  <1>3. TypeOK' /\ Shape'
    <2>1. tries' \in 0..MaxTries
      <3>1. tries' = tries \/ (tries' = tries + 1 /\ tries < Len(call.names))
        BY Zenon DEF Look
      <3> QED BY <1>1, <1>2, <3>1
    <2> QED BY <1>1, <2>1, Typed, TypedKeep DEF Look, Answer, SystemFails, Goto, reading, PCs
  <1>4. CASE SystemFails
    BY <1>1, <1>3, <1>4, FailedSo DEF SystemFails, world
  <1>5. ASSUME tries = Len(call.names), Answer(FALSE)
        PROVE  IInv'
    <2>1. pc' = "done" /\ call' = call /\ fs' = fs /\ user' = user /\ answer' = "false"
          /\ trouble' = trouble
      BY <1>1, <1>5 DEF Answer, world
    <2>2. Whole'
      BY <1>1, <2>1 DEF Whole
    <2>3. ASSUME ~trouble, NEW m \in {call.names[i] : i \in DOMAIN call.names}
          PROVE  ~(Here(m) /\ fs[m].type = "reg" /\ KernelAllows(fs[m], user, "x")
                   /\ ~Untold(fs[m], user))
      <3>1. PICK i \in 1..Len(call.names) : m = call.names[i]
        BY <1>2
      <3>2. Refused(m) /\ m \in Names
        BY <1>1, <1>2, <1>5, <2>3, <3>1 DEF IInv, Looking
      <3> QED BY <3>2, Judged DEF Refused, Rights
    <2>4. Answers'
      BY <1>1, <2>1, <2>3 DEF Answers, Here
    <2> QED BY <1>1, <1>3, <2>1, <2>2, <2>4, EndedSame
  <1>6. ASSUME tries < Len(call.names),
               IF Here(Name) THEN Goto("access") /\ UNCHANGED tries
               ELSE Goto("look") /\ tries' = tries + 1
        PROVE  IInv'
    <2>1. /\ pc' \in {"access", "look"} /\ trouble' = trouble /\ call' = call /\ fs' = fs
          /\ user' = user /\ umask' = umask /\ host' = host /\ before' = before /\ listed' = listed
          /\ pos' = pos /\ tries' \in {tries, tries + 1}
          /\ Here(Name) => pc' = "access" /\ tries' = tries
          /\ ~Here(Name) => pc' = "look" /\ tries' = tries + 1
      BY <1>1, <1>6 DEF Goto, world, reading
    <2>2. Arguments'
      BY <1>1, <1>2, <1>6, <2>1 DEF IInv, Arguments
    <2>3. Stages'
      BY <1>1, <2>1 DEF IInv, Stages
    <2>4. Undisturbed'
      BY <1>1, <2>1 DEF IInv, Undisturbed
    <2>5. Reading' /\ Copying' /\ Catting' /\ Comparing' /\ Grepping' /\ Making'
      BY <2>1 DEF Reading, Copying, Catting, Comparing, Grepping, Making
    <2>6. Looking'
      <3>1. Name = call.names[tries + 1]
        BY <1>1, <1>6, NameTyped
      <3>2. ASSUME NEW i \in 1..tries', ~trouble PROVE Refused(call.names[i])
        <4>1. CASE i = tries + 1
          BY <1>2, <2>1, <3>1, <3>2, <4>1 DEF Refused
        <4>2. CASE i # tries + 1
          BY <1>1, <1>2, <2>1, <3>2, <4>2 DEF IInv, Looking
        <4> QED BY <4>1, <4>2
      <3>3. pc' = "access" => Here(Name)'
        BY <2>1 DEF Here, Name
      <3>4. \A i : Refused(call.names[i])' <=> Refused(call.names[i])
        BY <2>1 DEF Refused, Here
      <3> QED BY <2>1, <3>2, <3>3, <3>4 DEF Looking
    <2> QED BY <1>3, <2>1, <2>2, <2>3, <2>4, <2>5, <2>6, Going DEF IInv
  <1> QED BY <1>1, <1>4, <1>5, <1>6 DEF Look

LEMMA SafeAccessKeeps ==
    ASSUME IInv, SafeAccess
    PROVE  IInv'
  <1>1. /\ pc = "access" /\ call.op = "executable"
        /\ UNCHANGED <<world, room, fs, reading, listed>>
        /\ tries < Len(call.names) /\ Len(call.names) <= MaxTries
    BY DEF SafeAccess, IInv, Stages, Arguments
  <1>2. /\ tries \in Nat /\ MaxTries \in Nat /\ Len(call.names) \in Nat
        /\ trouble \in BOOLEAN /\ call.names \in Seq(Names)
    BY AtfFilesAssumption, Typed DEF Calls
  <1>3. TypeOK' /\ Shape'
    <2>1. tries' \in 0..MaxTries
      <3>1. tries' = tries \/ (tries' = tries + 1 /\ tries < Len(call.names))
        BY <1>1, Zenon DEF SafeAccess
      <3> QED BY <1>1, <1>2, <3>1
    <2> QED BY <1>1, <2>1, Typed, TypedKeep DEF SafeAccess, Answer, Fails, Goto, reading, PCs
  <1>4. Name = call.names[tries + 1] /\ Name \in Names /\ "x" \in Rights
    BY <1>1, NameTyped DEF Rights
  <1>5. CASE ~Here(Name)
    <2>1. pc' = "failed" /\ call' = call /\ trouble' = trouble
      BY <1>1, <1>5 DEF SafeAccess, Fails, world
    <2>2. trouble
      BY <1>1, <1>5 DEF IInv, Looking
    <2>3. Answers'
      BY <2>1, <2>2 DEF Answers
    <2> QED BY <1>1, <1>3, <2>1, <2>3, FailedWhole, EndedSame
  <1>6. CASE Here(Name) /\ Eaccess(fs[Name], user, {"x"})
    <2>1. pc' = "done" /\ call' = call /\ fs' = fs /\ user' = user /\ answer' = "true"
      BY <1>1, <1>6 DEF SafeAccess, Answer, world
    <2>2. Whole'
      BY <1>1, <2>1 DEF Whole
    <2>3. Name \in {call.names[i] : i \in DOMAIN call.names}
      BY <1>1, <1>2, <1>4
    <2>4. \/ fs[Name].type # "reg"
          \/ KernelAllows(fs[Name], user, "x")
          \/ AsGroup(fs[Name], user, "x") \/ AsOther(fs[Name], user, "x")
      BY <1>4, <1>6, Judged
    <2>5. Answers'
      <3> DEFINE S == {call.names[i] : i \in DOMAIN call.names}
                 Q(m) == \/ fs[m].type # "reg"
                         \/ Here(m) /\ fs[m].type = "reg" /\ KernelAllows(fs[m], user, "x")
                         \/ Here(m) /\ (AsGroup(fs[m], user, "x") \/ AsOther(fs[m], user, "x"))
      <3>1. \E m \in S : Q(m)
        BY <1>6, <2>3, <2>4
      <3> QED BY <1>1, <2>1, <3>1 DEF Answers, Here
    <2> QED BY <1>1, <1>3, <2>1, <2>2, <2>5, EndedSame
  <1>7. CASE Here(Name) /\ ~Eaccess(fs[Name], user, {"x"})
    <2>1. /\ pc' = "look" /\ trouble' = trouble /\ call' = call /\ fs' = fs
          /\ user' = user /\ umask' = umask /\ host' = host /\ before' = before /\ listed' = listed
          /\ pos' = pos /\ tries' = tries + 1
      BY <1>1, <1>7 DEF SafeAccess, Goto, world, reading
    <2>2. Arguments'
      BY <1>1, <1>2, <2>1 DEF IInv, Arguments
    <2>3. Stages'
      BY <1>1, <2>1 DEF IInv, Stages
    <2>4. Undisturbed'
      BY <1>1, <2>1 DEF IInv, Undisturbed
    <2>5. Reading' /\ Copying' /\ Catting' /\ Comparing' /\ Grepping' /\ Making'
      BY <2>1 DEF Reading, Copying, Catting, Comparing, Grepping, Making
    <2>6. Looking'
      <3>1. ASSUME NEW i \in 1..tries', ~trouble PROVE Refused(call.names[i])
        <4>1. CASE i = tries + 1
          BY <1>2, <1>4, <1>7, <2>1, <3>1, <4>1 DEF Refused
        <4>2. CASE i # tries + 1
          BY <1>1, <1>2, <2>1, <3>1, <4>2 DEF IInv, Looking
        <4> QED BY <4>1, <4>2
      <3>2. \A i : Refused(call.names[i])' <=> Refused(call.names[i])
        BY <2>1 DEF Refused, Here
      <3> QED BY <2>1, <3>1, <3>2 DEF Looking
    <2> QED BY <1>3, <2>1, <2>2, <2>3, <2>4, <2>5, <2>6, Going DEF IInv
  <1> QED BY <1>5, <1>6, <1>7

LEMMA CallChange ==
    ASSUME NEW c \in Calls, NEW names \in Seq(Names)
    PROVE  LET d == [c EXCEPT !.names = names]
           IN  d \in Calls /\ d.op = c.op /\ d.names = names /\ d.text = c.text
  BY DEF Calls

\* A directory is read by a name at a time, and each is looked at.
LEMMA ReadDirKeeps ==
    ASSUME IInv, ReadDir
    PROVE  IInv'
  <1>1. /\ pc = "list" /\ call.op = "list"
        /\ UNCHANGED <<host, user, umask, before, room, fs, reading, looking>>
    BY DEF ReadDir, IInv, Stages
  <1>2. ASSUME NEW n \in Names
        PROVE  /\ <<n>> \in Seq(Names) /\ Len(<<n>>) = 1 /\ <<n>>[1] = n
               /\ [call EXCEPT !.names = <<n>>] \in Calls
               /\ [call EXCEPT !.names = <<n>>].op = call.op
               /\ [call EXCEPT !.names = <<n>>].names = <<n>>
               /\ [call EXCEPT !.names = <<n>>].text = call.text
    <2>1. <<n>> \in Seq(Names) /\ Len(<<n>>) = 1 /\ <<n>>[1] = n
      OBVIOUS
    <2>2. call \in Calls
      BY Typed
    <2> QED BY <2>1, <2>2, CallChange
  <1>3. TypeOK' /\ Shape'
    <2>1. call' \in Calls
      BY <1>2, Typed DEF ReadDir
    <2> QED BY <1>1, <2>1, Typed, TypedNext DEF ReadDir, Goto, Done, SystemFails, reading, looking, PCs
  <1>4. CASE SystemFails /\ UNCHANGED call
    BY <1>1, <1>3, <1>4, FailedSo DEF SystemFails
  <1>5. ASSUME \A n \in Names : Here(n) => n \in listed, Done, UNCHANGED call
        PROVE  IInv'
    <2>1. pc' = "done" /\ fs' = fs /\ listed' = listed /\ trouble' = trouble
      BY <1>1, <1>5 DEF Done, Goto, looking
    <2>2. Whole'
      <3>1. \A m \in listed : Here(m)
        BY <1>1 DEF IInv, Looking
      <3> QED BY <1>1, <1>5, <2>1, <3>1 DEF Whole, Here
    <2>3. Answers'
      BY <1>1, <1>5, <2>1 DEF Answers
    <2> QED BY <1>1, <1>3, <1>5, <2>1, <2>2, <2>3, EndedSame
  <1>7. ASSUME pc' = "done", trouble' = TRUE, UNCHANGED call
        PROVE  IInv'
    <2>1. fs' = fs /\ listed' = listed
      BY <1>1 DEF looking
    <2>2. \A m \in listed : Here(m)
      BY <1>1 DEF IInv, Looking
    <2>3. Whole'
      BY <1>1, <1>7, <2>1, <2>2 DEF Whole, Here
    <2>4. Answers'
      BY <1>7 DEF Answers
    <2> QED BY <1>1, <1>3, <1>7, <2>3, <2>4, EndedSame
  <1>6. ASSUME NEW n \in Names \ listed, Here(n), call' = [call EXCEPT !.names = <<n>>], Goto("stat")
        PROVE  IInv'
    <2>1. /\ pc' = "stat" /\ fs' = fs /\ before' = before /\ listed' = listed /\ trouble' = trouble
          /\ call'.op = "list" /\ call'.names = <<n>> /\ tries' = tries
          /\ pos' = pos /\ cr' = cr
      BY <1>1, <1>2, <1>6 DEF Goto, looking, reading
    <2>2. Arguments'
      BY <1>2, <2>1 DEF Arguments
    <2>3. Stages'
      BY <2>1 DEF Stages
    <2>4. Undisturbed'
      BY <1>1, <2>1 DEF IInv, Undisturbed
    <2>5. Reading' /\ Copying' /\ Catting' /\ Comparing' /\ Grepping' /\ Making'
      BY <2>1 DEF Reading, Copying, Catting, Comparing, Grepping, Making
    <2>6. Looking'
      <3>1. Name' = n
        BY <1>2, <2>1 DEF Name
      <3>2. Here(Name)'
        BY <1>6, <2>1, <3>1 DEF Here
      <3>3. \A m \in listed : Here(m)
        BY <1>1 DEF IInv, Looking
      <3> QED BY <1>6, <2>1, <3>1, <3>2, <3>3 DEF Looking, Here
    <2> QED BY <1>3, <2>1, <2>2, <2>3, <2>4, <2>5, <2>6, Going DEF IInv
  <1> QED BY <1>4, <1>5, <1>6, <1>7 DEF ReadDir

LEMMA StatKeeps ==
    ASSUME IInv, Stat
    PROVE  IInv'
  <1>1. /\ pc = "stat" /\ call.op \in {"list", "remove"}
        /\ UNCHANGED <<world, room, fs, reading, tries>>
        /\ call' = call /\ fs' = fs /\ before' = before /\ tries' = tries /\ pos' = pos
        /\ Len(call.names) = 1
    BY DEF Stat, IInv, Stages, Arguments, world, reading
  <1>2. Name = call.names[1] /\ Name \in Names
    BY <1>1, NameTyped
  <1>3. TypeOK' /\ Shape'
    <2>1. listed' \subseteq Names
      BY <1>2, Typed DEF Stat
    <2>2. pc' \in PCs /\ answer' = answer /\ trouble' = trouble
      <3>1. (Fails \/ Goto("list") \/ Goto("remove"))
        BY DEF Stat
      <3> QED BY <3>1 DEF Fails, Goto, PCs, Ops
    <2> QED BY <1>1, <2>1, <2>2, Typed, TypedKeep DEF reading
  <1>4. ASSUME FileInfo(Name) = {}, Fails
        PROVE  IInv'
    <2>1. pc' = "failed" /\ trouble' = trouble /\ ~Here(Name)
      BY <1>4 DEF Fails, FileInfo
    <2>2. call.op = "list" => trouble
      BY <1>1, <2>1 DEF IInv, Looking
    <2>3. Answers'
      BY <1>1, <1>2, <2>1, <2>2 DEF Answers, Here
    <2> QED BY <1>1, <1>3, <2>1, <2>3, FailedWhole, EndedSame
  <1>5. ASSUME Here(Name), call.op = "list", listed' = listed \cup {Name}, Goto("list")
        PROVE  IInv'
    <2>1. pc' = "list" /\ trouble' = trouble
      BY <1>5 DEF Goto
    <2>2. Arguments'
      BY <1>1, <1>5, <2>1 DEF Arguments
    <2>3. Stages'
      BY <1>1, <1>5, <2>1 DEF Stages
    <2>4. Undisturbed'
      BY <1>1, <2>1 DEF IInv, Undisturbed
    <2>5. Reading' /\ Copying' /\ Catting' /\ Comparing' /\ Grepping' /\ Making'
      BY <2>1 DEF Reading, Copying, Catting, Comparing, Grepping, Making
    <2>6. Looking'
      <3>1. \A m \in listed : Here(m)
        BY <1>1 DEF IInv, Looking
      <3> QED BY <1>1, <1>5, <2>1, <3>1 DEF Looking, Here
    <2> QED BY <1>3, <2>1, <2>2, <2>3, <2>4, <2>5, <2>6, Going DEF IInv
  <1>6. ASSUME Here(Name), call.op = "remove", fs[Name].type = "dir", Fails
        PROVE  IInv'
    <2>1. pc' = "failed" /\ trouble' = trouble
      BY <1>6 DEF Fails
    <2>2. Answers'
      BY <1>1, <1>2, <1>6, <2>1 DEF Answers, Here
    <2> QED BY <1>1, <1>3, <2>1, <2>2, FailedWhole, EndedSame
  <1>7. ASSUME Here(Name), call.op = "remove", Goto("remove"), UNCHANGED listed
        PROVE  IInv'
    <2>1. pc' = "remove" /\ trouble' = trouble
      BY <1>7 DEF Goto
    <2>2. Arguments'
      BY <1>1, <1>7, <2>1 DEF Arguments
    <2>3. Stages'
      BY <1>1, <1>7, <2>1 DEF Stages
    <2>4. Undisturbed'
      BY <1>1, <2>1 DEF IInv, Undisturbed
    <2>5. /\ Reading' /\ Copying' /\ Catting' /\ Comparing' /\ Grepping' /\ Making' /\ Looking'
      BY <2>1 DEF Reading, Copying, Catting, Comparing, Grepping, Making, Looking
    <2> QED BY <1>3, <2>1, <2>2, <2>3, <2>4, <2>5, Going DEF IInv
  <1>8. FileInfo(Name) # {} => Here(Name) /\ FileInfo(Name) = {fs[Name]}
    BY DEF FileInfo
  <1> QED BY <1>4, <1>5, <1>6, <1>7, <1>8 DEF Stat

-----------------------------------------------------------------------------
(* Removals and temporary files *)

LEMMA UnlinkKeeps ==
    ASSUME IInv, Unlink
    PROVE  IInv'
  <1>1. /\ call.op \in {"remove", "unlink"} /\ call' = call
        /\ UNCHANGED <<world, room, reading, looking>> /\ pc' \in {"done", "failed"}
    BY DEF Unlink, IInv, Stages, Done, Goto, Fails, SystemFails, world
  <1>2. Name = call.names[1] /\ Name \in Names
    BY <1>1, NameTyped DEF Ops
  <1>3. TypeOK' /\ Shape'
    <2>1. fs' \in Files
      <3>1. [fs EXCEPT ![Name] = Nothing] \in Files
        BY <1>2, Typed, FilesChange
      <3>2. fs' = fs \/ fs' = [fs EXCEPT ![Name] = Nothing]
        BY DEF Unlink
      <3> QED BY <3>1, <3>2, Typed
    <2>2. pc' \in PCs /\ answer' = answer /\ trouble' \in BOOLEAN
      BY Typed DEF Unlink, Done, Goto, Fails, SystemFails, PCs
    <2> QED BY <1>1, <2>1, <2>2, Typed, TypedFiles DEF world, reading, looking
  <1>4. CASE SystemFails
    BY <1>1, <1>3, <1>4, FailedSo DEF SystemFails
  <1>5. ASSUME fs' = [fs EXCEPT ![Name] = Nothing], Done
        PROVE  IInv'
    <2>1. pc' = "done" /\ fs'[Name] = Nothing
      BY <1>2, <1>5, Typed DEF Done, Goto, Files
    <2>2. Whole'
      BY <1>1, <1>2, <2>1 DEF Whole, Here
    <2>3. Answers'
      BY <1>1, <2>1 DEF Answers
    <2> QED BY <1>1, <1>3, <2>1, <2>2, <2>3, EndedSame
  <1>6. ASSUME ~Here(Name) \/ fs[Name].type = "dir", Fails, UNCHANGED fs
        PROVE  IInv'
    <2>1. pc' = "failed"
      BY <1>6 DEF Fails
    <2>2. Answers'
      BY <1>1, <1>2, <1>6, <2>1 DEF Answers, Here
    <2> QED BY <1>1, <1>3, <2>1, <2>2, FailedWhole, EndedSame
  <1> QED BY <1>4, <1>5, <1>6 DEF Unlink

LEMMA RmdirKeeps ==
    ASSUME IInv, Rmdir
    PROVE  IInv'
  <1>1. /\ call.op = "rmdir" /\ call' = call
        /\ UNCHANGED <<world, room, reading, looking>> /\ pc' \in {"done", "failed"}
    BY DEF Rmdir, IInv, Stages, Done, Goto, Fails, SystemFails, world
  <1>2. Name = call.names[1] /\ Name \in Names
    BY <1>1, NameTyped DEF Ops
  <1>3. TypeOK' /\ Shape'
    <2>1. fs' \in Files
      <3>1. [fs EXCEPT ![Name] = Nothing] \in Files
        BY <1>2, Typed, FilesChange
      <3>2. fs' = fs \/ fs' = [fs EXCEPT ![Name] = Nothing]
        BY DEF Rmdir
      <3> QED BY <3>1, <3>2, Typed
    <2>2. pc' \in PCs /\ answer' = answer /\ trouble' \in BOOLEAN
      BY Typed DEF Rmdir, Done, Goto, Fails, SystemFails, PCs
    <2> QED BY <1>1, <2>1, <2>2, Typed, TypedFiles DEF world, reading, looking
  <1>4. CASE SystemFails
    BY <1>1, <1>3, <1>4, FailedSo DEF SystemFails
  <1>5. ASSUME fs' = [fs EXCEPT ![Name] = Nothing], Done
        PROVE  IInv'
    <2>1. pc' = "done" /\ fs'[Name] = Nothing
      BY <1>2, <1>5, Typed DEF Done, Goto, Files
    <2>2. Whole'
      BY <1>1, <1>2, <2>1 DEF Whole, Here
    <2>3. Answers'
      BY <1>1, <2>1 DEF Answers
    <2> QED BY <1>1, <1>3, <2>1, <2>2, <2>3, EndedSame
  <1>6. ASSUME ~(fs[Name].type = "dir" /\ fs[Name].data = <<>>), Fails, UNCHANGED fs
        PROVE  IInv'
    <2>1. pc' = "failed"
      BY <1>6 DEF Fails
    <2>2. Answers'
      BY <1>1, <1>2, <1>6, <2>1 DEF Answers, Here
    <2> QED BY <1>1, <1>3, <2>1, <2>2, FailedWhole, EndedSame
  <1> QED BY <1>4, <1>5, <1>6 DEF Rmdir

LEMMA TempKeeps ==
    ASSUME IInv, Temp
    PROVE  IInv'
  <1>1. /\ pc \in {"mkdtemp", "mkstemp"} /\ call.op = pc /\ call' = call /\ umask' = umask
        /\ UNCHANGED <<world, room, fs, reading, looking>>
        /\ fs' = fs /\ before' = before /\ trouble' = trouble /\ answer' = answer
    BY DEF Temp, Keep, Goto, Fails, IInv, Stages, world
  <1>2. TypeOK' /\ Shape'
    BY <1>1, Typed, TypedKeep DEF Temp, Goto, Fails, reading, looking, PCs
  <1>3. CheckUmask(umask, OwnerAll, OwnerAll) <=> umask \cap OwnerAll = {}
    BY DEF CheckUmask, Masked
  <1>4. CASE umask \cap OwnerAll = {}
    <2>1. pc' = "template"
      BY <1>3, <1>4 DEF Temp, Goto
    <2>2. Arguments'
      BY <1>1, <2>1 DEF Arguments, Ops
    <2>3. Stages'
      BY <1>1, <2>1 DEF Stages
    <2>4. Undisturbed'
      BY <1>1, <2>1 DEF IInv, Undisturbed
    <2>5. /\ Reading' /\ Copying' /\ Catting' /\ Comparing' /\ Grepping' /\ Looking'
      BY <2>1 DEF Reading, Copying, Catting, Comparing, Grepping, Looking
    <2>6. Making'
      BY <1>1, <1>4 DEF Making
    <2> QED BY <1>2, <2>1, <2>2, <2>3, <2>4, <2>5, <2>6, Going DEF IInv
  <1>5. CASE umask \cap OwnerAll # {}
    <2>1. pc' = "failed"
      BY <1>3, <1>5 DEF Temp, Fails
    <2>2. Answers'
      BY <1>1, <1>5, <2>1 DEF Answers
    <2> QED BY <1>1, <1>2, <2>1, <2>2, FailedWhole, EndedSame
  <1> QED BY <1>4, <1>5

LEMMA TemplateKeeps ==
    ASSUME IInv, Template
    PROVE  IInv'
  <1>1. /\ pc = "template" /\ call' = call /\ umask' = umask
        /\ UNCHANGED <<world, room, fs, reading, looking>>
        /\ fs' = fs /\ before' = before
        /\ call.op \in {"mkdtemp", "mkstemp"} /\ umask \cap OwnerAll = {}
    BY DEF Template, Keep, IInv, Stages, Making, world
  <1>2. TypeOK' /\ Shape'
    BY <1>1, Typed, TypedKeep DEF Template, Goto, SystemFails, reading, looking, PCs, Ops
  <1>3. CASE Goto("make")
    <2>1. pc' = "make" /\ trouble' = trouble
      BY <1>3 DEF Goto
    <2>2. Arguments'
      BY <1>1, <2>1 DEF Arguments, Ops
    <2>3. Stages'
      BY <1>1, <2>1 DEF Stages
    <2>4. Undisturbed'
      BY <1>1, <2>1 DEF IInv, Undisturbed
    <2>5. /\ Reading' /\ Copying' /\ Catting' /\ Comparing' /\ Grepping' /\ Looking'
      BY <2>1 DEF Reading, Copying, Catting, Comparing, Grepping, Looking
    <2>6. Making'
      BY <1>1 DEF Making
    <2> QED BY <1>2, <2>1, <2>2, <2>3, <2>4, <2>5, <2>6, Going DEF IInv
  <1>4. CASE SystemFails
    BY <1>1, <1>2, <1>4, FailedSo DEF SystemFails
  <1> QED BY <1>3, <1>4 DEF Template

\* What is made for a test is its owner's, whatever the umask that was
\* accepted takes from others.
LEMMA TempNodeIs ==
    ASSUME umask \subseteq Bits, user.euid \in Nat, umask \cap OwnerAll = {}
    PROVE  /\ TempNode \in Nodes /\ TempNode.data = <<>> /\ TempNode.uid = user.euid
           /\ OwnerRW \subseteq TempNode.mode
           /\ TempNode.type = "dir" => OwnerAll \subseteq TempNode.mode
  <1> DEFINE mode == IF call.op = "mkdtemp" THEN OwnerAll ELSE OwnerRW
             made == IF host = "posix" THEN Masked(mode, umask) ELSE mode
             type == IF call.op = "mkdtemp" THEN "dir" ELSE "reg"
             node == Node(type, made, <<>>)
  <1>1. OwnerRW \subseteq OwnerAll
    BY DEF OwnerRW, OwnerAll, Rights
  <1>2. /\ made \in SUBSET Bits /\ OwnerRW \subseteq made
        /\ type = "dir" => OwnerAll \subseteq made
    BY <1>1, ModesAreBits DEF Masked
  <1>3. type \in Types /\ <<>> \in Seq(Chars)
    BY DEF Types
  <1>4. TempNode = [node EXCEPT !.uid = user.euid]
    BY DEF TempNode
  <1> HIDE DEF made, type
  <1>5. node \in Nodes
    BY <1>2, <1>3, NodeMade
  <1>6. node.data = <<>> /\ node.mode = made /\ node.type = type
    BY DEF Node
  <1> HIDE DEF node
  <1>7. /\ TempNode \in Nodes /\ TempNode.data = <<>> /\ TempNode.uid = user.euid
        /\ TempNode.mode = made /\ TempNode.type = type
    BY <1>4, <1>5, <1>6, NodeChange
  <1> QED BY <1>2, <1>7

LEMMA MakeTempKeeps ==
    ASSUME IInv, MakeTemp
    PROVE  IInv'
  <1>1. /\ pc = "make" /\ call.op \in {"mkdtemp", "mkstemp"} /\ umask \cap OwnerAll = {}
        /\ UNCHANGED <<host, user, umask, room, before, reading, listed>>
    BY DEF MakeTemp, IInv, Stages, Making
  <1>2. \/ \E n \in Names :
            /\ tries < MaxTries
            /\ IF Here(n)
               THEN tries' = tries + 1 /\ Goto("make") /\ UNCHANGED <<fs, call>>
               ELSE /\ fs' = [fs EXCEPT ![n] = TempNode]
                    /\ call' = [call EXCEPT !.names = <<n>>]
                    /\ Done /\ UNCHANGED tries
        \/ tries = MaxTries /\ Fails /\ UNCHANGED <<fs, call, tries>>
        \/ SystemFails /\ UNCHANGED <<fs, call, tries>>
    BY DEF MakeTemp
  <1>3. tries \in Nat /\ MaxTries \in Nat /\ fs \in Files /\ call \in Calls /\ answer \in {"none", "true", "false"}
        /\ trouble \in BOOLEAN /\ tries <= MaxTries
    BY AtfFilesAssumption, Typed
  <1>4. ASSUME fs' \in Files, call' \in Calls, tries' \in 0..MaxTries, pc' \in PCs,
               answer' = answer, trouble' \in BOOLEAN
        PROVE  TypeOK' /\ Shape'
    BY <1>1, <1>4, Typed, TypedFiles DEF reading
  <1>5. "make" \in PCs /\ "done" \in PCs /\ "failed" \in PCs
    BY DEF PCs
  <1>6. CASE SystemFails /\ UNCHANGED <<fs, call, tries>>
    <2>1. pc' = "failed" /\ trouble' = TRUE /\ answer' = answer
      BY <1>6 DEF SystemFails
    <2>2. TypeOK' /\ Shape'
      BY <1>3, <1>4, <1>5, <1>6, <2>1
    <2> QED BY <1>6, <2>1, <2>2, FailedSo
  <1>9. CASE tries = MaxTries /\ Fails /\ UNCHANGED <<fs, call, tries>>
    <2>1. pc' = "failed" /\ trouble' = trouble /\ answer' = answer
      BY <1>9 DEF Fails
    <2>2. TypeOK' /\ Shape'
      BY <1>3, <1>4, <1>5, <1>9, <2>1
    <2>3. Answers'
      BY <1>1, <1>9, <2>1 DEF Answers
    <2> QED BY <1>9, <2>1, <2>2, <2>3, FailedWhole, EndedSame
  <1>7. CASE tries < MaxTries /\ tries' = tries + 1 /\ Goto("make") /\ UNCHANGED <<fs, call>>
    <2>1. pc' = "make" /\ trouble' = trouble /\ answer' = answer
      BY <1>7 DEF Goto
    <2>2. TypeOK' /\ Shape'
      <3>1. tries' \in 0..MaxTries
        BY <1>3, <1>7
      <3> QED BY <1>3, <1>4, <1>5, <1>7, <2>1, <3>1
    <2>3. Arguments'
      BY <1>1, <1>7, <2>1 DEF Arguments, Ops
    <2>4. Stages'
      BY <1>1, <1>7, <2>1 DEF Stages
    <2>5. Undisturbed'
      BY <1>1, <1>7, <2>1 DEF IInv, Undisturbed
    <2>6. /\ Reading' /\ Copying' /\ Catting' /\ Comparing' /\ Grepping' /\ Looking'
      BY <2>1 DEF Reading, Copying, Catting, Comparing, Grepping, Looking
    <2>7. Making'
      BY <1>1 DEF Making
    <2> QED BY <2>1, <2>2, <2>3, <2>4, <2>5, <2>6, <2>7, Going DEF IInv
  <1>8. ASSUME NEW n \in Names, ~Here(n), fs' = [fs EXCEPT ![n] = TempNode],
               call' = [call EXCEPT !.names = <<n>>], Done, UNCHANGED tries
        PROVE  IInv'
    <2>1. pc' = "done" /\ trouble' = trouble /\ answer' = answer
      BY <1>8 DEF Done, Goto
    <2>2. <<n>> \in Seq(Names) /\ Len(<<n>>) = 1 /\ <<n>>[1] = n
      OBVIOUS
    <2>3. call' \in Calls /\ call'.op = call.op /\ call'.names = <<n>>
      BY <1>3, <1>8, <2>2, CallChange
    <2>4. /\ TempNode \in Nodes /\ TempNode.data = <<>> /\ TempNode.uid = user.euid
          /\ OwnerRW \subseteq TempNode.mode
          /\ TempNode.type = "dir" => OwnerAll \subseteq TempNode.mode
      BY <1>1, Typed, TempNodeIs
    <2>5. fs' \in Files /\ fs'[n] = TempNode
      BY <1>3, <1>8, <2>4, FilesChange DEF Files
    <2>6. TypeOK' /\ Shape'
      BY <1>3, <1>4, <1>5, <1>8, <2>1, <2>3, <2>5, Typed
    <2>7. before'[n] = Nothing
      <3>1. fs = before
        BY <1>1 DEF IInv, Undisturbed
      <3> QED BY <1>1, <1>8, <3>1 DEF Here
    <2>8. Arguments'
      BY <1>1, <2>1, <2>2, <2>3 DEF Arguments, Ops
    <2>9. Whole'
      BY <1>1, <2>1, <2>2, <2>3, <2>4, <2>5, <2>7 DEF Whole
    <2>10. Answers'
      BY <1>1, <2>1, <2>3 DEF Answers
    <2> QED BY <2>1, <2>6, <2>8, <2>9, <2>10, Ended
  <1> QED BY <1>2, <1>6, <1>7, <1>8, <1>9

\* What another process does is between two looks, and is trouble.
LEMMA MeddleKeeps ==
    ASSUME IInv, Meddle
    PROVE  IInv'
  <1>1. /\ pc \in {"access", "stat", "remove"} /\ trouble' = TRUE /\ pc' = pc /\ call' = call
        /\ tries' = tries /\ UNCHANGED <<world, room, pc, reading, looking, answer>>
    BY DEF Meddle, world, looking
  <1>2. Name \in Names
    <2>1. pc = "remove" => call.op = "remove"
      BY DEF IInv, Stages
    <2> QED BY <1>1, <2>1, NameTyped DEF Ops
  <1>3. TypeOK' /\ Shape'
    <2>1. fs' \in Files
      <3>1. PICK type \in {"reg", "dir"} :
              fs' = [fs EXCEPT ![Name] = IF Here(Name) THEN Nothing ELSE Node(type, OwnerAll, <<>>)]
        BY DEF Meddle
      <3>2. Node(type, OwnerAll, <<>>) \in Nodes
        <4>1. type \in Types /\ OwnerAll \in SUBSET Bits /\ <<>> \in Seq(Chars)
          BY ModesAreBits DEF Types
        <4> QED BY <4>1, NodeMade
      <3>3. (IF Here(Name) THEN Nothing ELSE Node(type, OwnerAll, <<>>)) \in Nodes \cup {Nothing}
        BY <3>2
      <3> QED BY <1>2, <3>1, <3>3, Typed, FilesChange
    <2> QED BY <1>1, <2>1, Typed, TypedFiles DEF world, reading, looking
  <1>4. Arguments'
    BY <1>1 DEF IInv, Arguments
  <1>5. Stages'
    BY <1>1 DEF IInv, Stages
  <1>6. Undisturbed' /\ Reading' /\ Copying' /\ Catting' /\ Comparing' /\ Grepping' /\ Making'
    BY <1>1 DEF Undisturbed, Reading, Copying, Catting, Comparing, Grepping, Making
  <1>7. Looking'
    <2>1. \A m \in Names : m # Name => fs'[m] = fs[m]
      BY <1>2, Typed DEF Meddle, Files
    <2>2. Name' = Name /\ listed' = listed
      BY <1>1 DEF Name, looking
    <2>3. pc = "stat" => \A m \in listed : Here(m) /\ m # Name /\ m \in Names
      BY Typed DEF IInv, Looking
    <2> QED BY <1>1, <2>1, <2>2, <2>3 DEF IInv, Looking, Here
  <1> QED BY <1>1, <1>3, <1>4, <1>5, <1>6, <1>7, Going DEF IInv

-----------------------------------------------------------------------------
(* Files are opened, created and copied *)

LEMMA EmptyPrefix == WithPrefix(<<>>) = <<>>
  <1>1. Len(<<>>) = 0 /\ <<>> \in Seq(Chars)
    OBVIOUS
  <1>2. PutOf(<<>>) \in [1..0 -> Seq(Printed)] /\ WithPrefix(<<>>) = FlattenSeq(PutOf(<<>>))
    BY <1>1, PutTyped
  <1>3. PutOf(<<>>) = <<>>
    BY <1>2
  <1> QED BY <1>2, <1>3, FlattenNone

LEMMA OpenKeeps ==
    ASSUME IInv, Open
    PROVE  IInv'
  <1>1. /\ pc = "open" /\ call.op \in {"copy", "cat", "compare", "grep"} /\ call' = call
        /\ UNCHANGED <<world, room, fs, reading, looking>>
        /\ pos = 0 /\ cr = FALSE /\ continued = FALSE /\ printed = <<>> /\ rest = call.text
        /\ fs' = fs /\ before' = before /\ pos' = pos /\ cr' = cr /\ rest' = rest /\ tries' = tries
        /\ printed' = printed /\ continued' = continued /\ host' = host
    BY DEF Open, Keep, IInv, Stages, TypeOK, world, reading, looking
  <1>2. TypeOK' /\ Shape'
    BY <1>1, Typed, TypedKeep DEF Open, Goto, SystemFails, looking, PCs, Ops
  <1>3. CASE SystemFails
    BY <1>1, <1>2, <1>3, FailedSo DEF SystemFails
  <1>4. ASSUME Here(Name), Goto(IF call.op = "copy" THEN "opendest" ELSE call.op)
        PROVE  IInv'
    <2>1. /\ pc' = (IF call.op = "copy" THEN "opendest" ELSE call.op) /\ trouble' = trouble
          /\ Name' = Name /\ Data' = Data
      BY <1>1, <1>4 DEF Goto, Name, Data
    <2>2. Name \in Names
      BY <1>1, NameTyped DEF Ops
    <2>3. Data \in Seq(Chars) /\ Len(Data) \in Nat /\ call.text \in Seq(Chars)
      BY <1>4, <2>2, Typed, FilesTyped DEF Here, Data, Calls
    <2>4. Arguments'
      BY <1>1, <2>1 DEF IInv, Arguments
    <2>5. Stages'
      BY <1>1, <2>1 DEF Stages
    <2>6. Undisturbed'
      BY <1>1, <2>1 DEF IInv, Undisturbed
    <2>7. Reading'
      <3>1. Here(Name)'
        BY <1>1, <1>4, <2>1 DEF Here
      <3>2. pos' <= Len(Data)'
        <4> HIDE DEF Data
        <4> QED BY <1>1, <2>1, <2>3
      <3> QED BY <3>1, <3>2 DEF Reading
    <2>8. Copying' /\ Looking' /\ Making'
      BY <1>1, <2>1 DEF Copying, Looking, Making
    <2>9. Catting'
      <3>1. SubSeq(Data, 1, 0) = <<>>
        BY <2>3
      <3>2. printed = WithPrefix(SubSeq(Data, 1, pos))
        BY <1>1, <3>1, EmptyPrefix
      <3>3. continued <=> pos > 0 /\ Data[pos] # "lf"
        BY <1>1
      <3>4. /\ printed' = WithPrefix(SubSeq(Data', 1, pos'))
            /\ continued' <=> pos' > 0 /\ Data'[pos'] # "lf"
        BY <1>1, <2>1, <3>2, <3>3
      <3> QED BY <3>4 DEF Catting
    <2>10. Comparing'
      <3>1. CASE host = "posix"
        <4>1. Suffix(rest, call.text) /\ Len(call.text) = pos + Len(rest)
              /\ \A i \in 1..pos : call.text[i] = Data[i]
          BY <1>1, <2>3 DEF Suffix
        <4>2. Suffix(rest', call'.text) /\ Len(call'.text) = pos' + Len(rest')
              /\ \A i \in 1..pos' : call'.text[i] = Data'[i]
          BY <1>1, <2>1, <4>1
        <4> QED BY <1>1, <3>1, <4>2 DEF Comparing
      <3>2. CASE host # "posix"
        <4>1. Tracking(Data, call.text, pos, rest, cr)
          BY <1>1, <2>3, MatchStart
        <4>2. Tracking(Data', call'.text, pos', rest', cr')
          BY <1>1, <2>1, <4>1
        <4> QED BY <1>1, <3>2, <4>2 DEF Comparing
      <3> QED BY <3>1, <3>2
    <2>11. Grepping'
      BY <1>1, <2>1 DEF Grepping
    <2>12. pc' \notin {"done", "failed"}
      BY <1>1, <2>1
    <2> QED BY <1>2, <2>4, <2>5, <2>6, <2>7, <2>8, <2>9, <2>10, <2>11, <2>12, Going DEF IInv
  <1> QED BY <1>3, <1>4 DEF Open

LEMMA CreateKeeps ==
    ASSUME IInv, Create
    PROVE  IInv'
  <1>1. /\ pc = "create" /\ call.op = "create" /\ call' = call /\ host' = host /\ before' = before
        /\ UNCHANGED <<world, reading, looking>>
    BY DEF Create, IInv, Stages, world
  <1>2. /\ Name = call.names[1] /\ Name \in Names /\ fs = before /\ fs \in Files
        /\ call.text \in Seq(Chars) /\ Len(call.text) \in Nat /\ room \in Nat
    BY <1>1, NameTyped, Typed DEF IInv, Undisturbed, Ops, Calls
  <1> DEFINE empty == Emptied(Name, CreateMode)
  <1>3. /\ empty \in Files /\ empty[Name] \in Nodes
        /\ \A m \in Names : m # Name => empty[m] = fs[m]
    BY <1>2, Typed, ModesAreBits, EmptiedTyped
  <1>4. ASSUME fs' \in Files, room' \in Nat, pc' \in {"done", "failed"}, answer' = answer,
               trouble' \in BOOLEAN
        PROVE  TypeOK' /\ Shape'
    <2>1. pc' \in PCs
      BY <1>4 DEF PCs
    <2> QED BY <1>1, <1>4, <2>1, Typed, TypedFiles DEF world, reading, looking
  <1>5. CASE SystemFails /\ UNCHANGED <<room, fs>>
    <2>1. pc' = "failed" /\ trouble' = TRUE /\ answer' = answer
      BY <1>5 DEF SystemFails
    <2>2. TypeOK' /\ Shape'
      BY <1>2, <1>4, <1>5, <2>1
    <2> QED BY <1>1, <2>1, <2>2, FailedSo
  <1>6. ASSUME room = 0, fs' = empty, Fails, UNCHANGED room
        PROVE  IInv'
    <2>1. pc' = "failed" /\ trouble' = trouble /\ answer' = answer
      BY <1>6 DEF Fails
    <2>2. TypeOK' /\ Shape'
      BY <1>2, <1>3, <1>4, <1>6, <2>1, Typed
    <2>3. Answers'
      BY <1>1, <1>6, <2>1 DEF Answers
    <2> QED BY <1>1, <2>1, <2>2, <2>3, FailedWhole, EndedSame
  <1>7. ASSUME LET k == Least(Len(call.text), room)
               IN  /\ fs' = [empty EXCEPT ![Name].data = SubSeq(call.text, 1, k)]
                   /\ room' = room - k,
               Done
        PROVE  IInv'
    <2> DEFINE k == Least(Len(call.text), room)
               data == SubSeq(call.text, 1, k)
               node == [empty[Name] EXCEPT !.data = data]
    <2>1. pc' = "done" /\ trouble' = trouble /\ answer' = answer
      BY <1>7 DEF Done, Goto
    <2>2. k \in 0..Len(call.text) /\ k <= room /\ (k = Len(call.text) \/ k = room) /\ k \in Nat
      BY <1>2 DEF Least
    <2>3. fs' = [empty EXCEPT ![Name] = node] /\ room' = room - k
      BY <1>3, <1>7
    <2> HIDE DEF k, empty
    <2>4. /\ data \in Seq(Chars) /\ Len(data) = k /\ SubSeq(data, 1, Len(data)) = data
          /\ k = Len(call.text) => data = call.text
      BY <1>2, <2>2
    <2> HIDE DEF data
    <2>5. node \in Nodes /\ node.data = data
      BY <1>3, <2>4, NodeChange
    <2> HIDE DEF node
    <2>6. fs' \in Files
      BY <1>2, <1>3, <2>3, <2>5, FilesChange
    <2>7. fs'[Name].data = data /\ \A m \in Names : m # Name => fs'[m] = before[m]
      BY <1>2, <1>3, <2>3, <2>5 DEF Files
    <2>8. room' \in Nat /\ (data # call.text => room' = 0)
      BY <1>2, <2>2, <2>3, <2>4
    <2>9. TypeOK' /\ Shape'
      BY <1>4, <2>1, <2>6, <2>8, Typed
    <2>10. IsPrefix(data, call.text)
      BY <2>2, <2>4 DEF IsPrefix, data
    <2>11. Whole'
      BY <1>1, <1>2, <2>1, <2>7, <2>8, <2>10 DEF Whole
    <2>12. Answers'
      BY <1>1, <2>1 DEF Answers
    <2> QED BY <1>1, <2>1, <2>9, <2>11, <2>12, EndedSame
  <1> QED BY <1>5, <1>6, <1>7 DEF Create

LEMMA OpenDestKeeps ==
    ASSUME IInv, OpenDest
    PROVE  IInv'
  <1>1. /\ pc = "opendest" /\ call.op = "copy" /\ call' = call /\ before' = before
        /\ UNCHANGED <<world, room, reading, looking>> /\ pos = 0 /\ pos' = pos /\ tries' = tries
    BY DEF OpenDest, IInv, Stages, world, reading, looking
  <1>2. /\ Name \in Names /\ Dest \in Names /\ fs = before /\ fs \in Files /\ Here(Name)
        /\ Name' = Name /\ Dest' = Dest
    BY <1>1, NameTyped, Typed DEF IInv, Undisturbed, Reading, Ops, Name, Dest
  <1> DEFINE empty == Emptied(Dest, Bits)
  <1>3. /\ empty \in Files /\ empty[Dest] \in Nodes /\ empty[Dest].data = <<>>
        /\ \A m \in Names : m # Dest => empty[m] = fs[m]
    BY <1>2, Typed, ModesAreBits, EmptiedTyped
  <1>4. ASSUME fs' \in Files, pc' \in {"copy", "failed"}, answer' = answer, trouble' \in BOOLEAN
        PROVE  TypeOK' /\ Shape'
    <2>1. pc' \in PCs
      BY <1>4 DEF PCs, Ops
    <2> QED BY <1>1, <1>4, <2>1, Typed, TypedFiles DEF world, reading, looking
  <1>5. CASE SystemFails /\ UNCHANGED fs
    <2>1. pc' = "failed" /\ trouble' = TRUE /\ answer' = answer
      BY <1>5 DEF SystemFails
    <2>2. TypeOK' /\ Shape'
      BY <1>2, <1>4, <1>5, <2>1
    <2> QED BY <1>1, <2>1, <2>2, FailedSo
  <1>6. ASSUME fs' = empty, Goto("copy")
        PROVE  IInv'
    <2>1. pc' = "copy" /\ trouble' = trouble /\ answer' = answer
      BY <1>6 DEF Goto
    <2>2. TypeOK' /\ Shape'
      BY <1>3, <1>4, <1>6, <2>1, Typed
    <2>3. Arguments'
      BY <1>1, <2>1 DEF IInv, Arguments
    <2>4. Stages'
      BY <1>1, <2>1 DEF Stages
    <2>5. Undisturbed'
      BY <1>1, <2>1 DEF IInv, Undisturbed
    <2>6. fs'[Name] # Nothing /\ fs'[Dest] # Nothing /\ Data' \in Seq(Chars)
      <3>1. fs'[Dest] \in Nodes /\ fs'[Dest] # Nothing
        BY <1>3, <1>6, NodeIsThere
      <3>2. fs'[Name] # Nothing
        BY <1>2, <1>3, <1>6, <3>1 DEF Here
      <3>3. fs'[Name].data \in Seq(Chars)
        BY <1>2, <1>3, <1>6, <3>2, FilesTyped
      <3> QED BY <1>2, <3>1, <3>2, <3>3 DEF Data
    <2>7. Reading'
      <3>1. pos' <= Len(Data')
        BY <1>1, <2>6
      <3> QED BY <1>2, <2>6, <3>1 DEF Reading, Here
    <2>8. Copying'
      <3>1. Len(<<>>) = 0
        OBVIOUS
      <3>2. Begins(fs'[Dest].data, Data', pos')
        BY <1>1, <1>3, <1>6, <3>1 DEF Begins
      <3> QED BY <1>1, <1>2, <1>3, <1>6, <2>1, <2>6, <3>2 DEF Copying, Here
    <2>9. /\ Catting' /\ Comparing' /\ Grepping' /\ Looking' /\ Making'
      BY <2>1 DEF Catting, Comparing, Grepping, Looking, Making
    <2> QED BY <2>1, <2>2, <2>3, <2>4, <2>5, <2>7, <2>8, <2>9, Going DEF IInv
  <1> QED BY <1>5, <1>6 DEF OpenDest

LEMMA CopyKeeps ==
    ASSUME IInv, Copy
    PROVE  IInv'
  <1>1. /\ pc = "copy" /\ call.op = "copy" /\ call' = call /\ before' = before
        /\ UNCHANGED <<world, rest, cr, continued, printed, looking>> /\ tries' = tries
    BY DEF Copy, IInv, Stages, world, looking
  <1>2. /\ Name \in Names /\ Dest \in Names /\ fs \in Files /\ Here(Name) /\ Here(Dest)
        /\ Name' = Name /\ Dest' = Dest /\ pos \in Nat /\ room \in Nat
    BY <1>1, NameTyped, Typed DEF IInv, Reading, Copying, Ops, Name, Dest
  <1>3. /\ fs[Name] \in Nodes /\ fs[Dest] \in Nodes
        /\ Data \in Seq(Chars) /\ fs[Dest].data \in Seq(Chars) /\ Len(Data) \in Nat
        /\ pos <= Len(Data)
    BY <1>1, <1>2, FilesTyped DEF Here, Data, IInv, Reading
  <1>4. ASSUME fs' \in Files, room' \in Nat, pos' \in Nat, pc' \in {"copy", "mode", "failed"},
               answer' = answer, trouble' \in BOOLEAN
        PROVE  TypeOK' /\ Shape'
    <2>1. pc' \in PCs
      BY <1>4 DEF PCs, Ops
    <2> QED BY <1>1, <1>4, <2>1, Typed, TypedFiles DEF world, looking
  <1>5. ASSUME pc' \in {"copy", "mode"}, trouble' = trouble
        PROVE  /\ Arguments' /\ Stages' /\ Undisturbed'
               /\ Catting' /\ Comparing' /\ Grepping' /\ Looking' /\ Making'
    <2>1. Arguments'
      BY <1>1, <1>5 DEF IInv, Arguments
    <2>2. Stages'
      BY <1>1, <1>5 DEF Stages
    <2>3. Undisturbed'
      BY <1>1, <1>5 DEF IInv, Undisturbed
    <2> QED BY <1>5, <2>1, <2>2, <2>3 DEF Catting, Comparing, Grepping, Looking, Making
  <1>6. CASE SystemFails /\ UNCHANGED <<room, fs, pos>>
    <2>1. pc' = "failed" /\ trouble' = TRUE /\ answer' = answer
      BY <1>6 DEF SystemFails
    <2>2. TypeOK' /\ Shape'
      BY <1>2, <1>4, <1>6, <2>1
    <2> QED BY <1>1, <2>1, <2>2, FailedSo
  <1>7. CASE Left = 0 /\ Goto("mode") /\ UNCHANGED <<room, fs, pos>>
    <2>1. pc' = "mode" /\ trouble' = trouble /\ answer' = answer
      BY <1>7 DEF Goto
    <2>2. TypeOK' /\ Shape'
      BY <1>2, <1>4, <1>7, <2>1, Typed
    <2>3. Data' = Data /\ fs' = fs /\ pos' = pos
      BY <1>2, <1>7 DEF Data
    <2>4. pos = Len(Data)
      BY <1>2, <1>3, <1>7 DEF Left
    <2>5. Reading'
      BY <1>2, <1>3, <2>3 DEF Reading, Here
    <2>6. Copying'
      BY <1>1, <1>2, <2>1, <2>3, <2>4 DEF IInv, Copying, Here
    <2>7. Arguments' /\ Stages' /\ Undisturbed'
           /\ Catting' /\ Comparing' /\ Grepping' /\ Looking' /\ Making'
      BY <1>5, <2>1
    <2> QED BY <2>1, <2>2, <2>5, <2>6, <2>7, Going DEF IInv
  <1>8. ASSUME NEW piece \in Pieces, Len(piece) <= room, Take(piece),
               fs' = [fs EXCEPT ![Dest].data = @ \o piece], room' = room - Len(piece), Goto("copy")
        PROVE  IInv'
    <2>1. pc' = "copy" /\ trouble' = trouble /\ answer' = answer /\ pos' = pos + Len(piece)
      BY <1>8 DEF Goto, Take
    <2>2. PICK k \in 1..(Len(Data) - pos) :
            piece = SubSeq(Data, pos + 1, pos + k) /\ Len(piece) = k
      BY <1>1, PieceRead
    <2>3. piece \in Seq(Chars) /\ k \in Nat /\ pos' = pos + k /\ pos + k <= Len(Data)
      BY <1>1, <1>2, <1>3, <2>1, <2>2, PieceRead
    <2> DEFINE old == fs[Dest].data
               new == old \o piece
               node == [fs[Dest] EXCEPT !.data = new]
    <2>4. /\ new \in Seq(Chars) /\ Len(new) = Len(old) + k
          /\ \A j \in 1..Len(old) : new[j] = old[j]
          /\ \A j \in 1..k : new[Len(old) + j] = piece[j]
      <3> HIDE DEF old
      <3>1. old \in Seq(Chars)
        BY <1>3 DEF old
      <3>2. new \in Seq(Chars)
        BY <2>3, <3>1
      <3> QED BY <2>2, <2>3, <3>1, <3>2, Concat
    <2>5. fs' = [fs EXCEPT ![Dest] = node]
      BY <1>2, <1>8 DEF Files
    <2>6. \A j \in 1..k : piece[j] = Data[pos + j]
      <3>1. pos + 1 \in 1..(Len(Data) + 1) /\ pos + k \in ((pos + 1) - 1)..Len(Data)
            /\ (pos + k) - (pos + 1) + 1 = k
        BY <1>2, <1>3, <2>2
      <3>2. \A j \in 1..k : piece[j] = Data[(pos + 1) + j - 1]
        <4> HIDE DEF Data
        <4> QED BY <1>3, <2>2, <3>1, SubSeqOf
      <3>3. \A j \in 1..k : (pos + 1) + j - 1 = pos + j
        BY <1>2, <2>3
      <3> QED BY <3>2, <3>3
    <2> HIDE DEF new
    <2>7. node \in Nodes /\ node.data = new
      BY <1>3, <2>4, NodeChange
    <2> HIDE DEF node
    <2>8. /\ fs' \in Files /\ fs'[Dest] = node /\ fs'[Dest] # Nothing
          /\ \A m \in Names : m # Dest => fs'[m] = fs[m]
      BY <1>2, <2>5, <2>7, FilesChange, NodeIsThere DEF Files
    <2>9. TypeOK' /\ Shape'
      <3>1. room' \in Nat /\ pos' \in Nat
        <4>1. room' = room - k /\ k <= room
          BY <1>8, <2>2, Zenon
        <4> QED BY <1>2, <2>3, <4>1
      <3> QED BY <1>4, <2>1, <2>8, <3>1, Typed
    <2>10. fs'[Name] # Nothing
      BY <1>2, <2>8 DEF Here
    <2>11. pos' <= Len(Data')
      <3>1. CASE Name = Dest
        <4>1. Data' = new /\ Data = old
          BY <1>2, <2>7, <2>8, <3>1 DEF Data
        <4>2. Len(new) = Len(Data) + k /\ Len(Data) \in Nat
          BY <1>3, <2>4, <4>1
        <4> HIDE DEF Data
        <4> QED BY <1>2, <1>3, <2>3, <4>1, <4>2
      <3>2. CASE Name # Dest
        <4>1. Data' = Data
          BY <1>2, <2>8, <3>2 DEF Data
        <4> QED BY <2>3, <4>1
      <3> QED BY <3>1, <3>2
    <2>12. Reading'
      BY <1>2, <2>10, <2>11 DEF Reading, Here
    <2>13. Copying'
      <3>1. ASSUME Name # Dest
            PROVE  /\ \A m \in Names : m # Dest => fs'[m] = before'[m]
                   /\ Begins(fs'[Dest].data, Data', pos')
        <4>1. Data' = Data
          BY <1>2, <2>8, <3>1 DEF Data
        <4>2. /\ \A m \in Names : m # Dest => fs[m] = before[m]
              /\ Len(old) = pos /\ \A i \in 1..pos : old[i] = Data[i]
          BY <1>1, <3>1 DEF IInv, Copying, Begins
        <4>3. ASSUME NEW i \in 1..(pos + k) PROVE new[i] = Data[i]
          <5>1. CASE i \in 1..pos
            BY <2>4, <4>2, <5>1
          <5>2. CASE i \notin 1..pos
            <6>1. i - pos \in 1..k /\ pos + (i - pos) = i
              BY <1>2, <2>3, <5>2
            <6> HIDE DEF old, Data
            <6> QED BY <2>4, <2>6, <4>2, <6>1
          <5> QED BY <5>1, <5>2
        <4>4. Len(new) = pos + k
          BY <2>4, <4>2
        <4>5. Begins(new, Data, pos + k)
          BY <4>3, <4>4 DEF Begins
        <4> QED BY <1>1, <2>3, <2>7, <2>8, <4>1, <4>2, <4>5
      <3> QED BY <1>2, <2>1, <2>8, <3>1 DEF Copying, Here
    <2>14. Arguments' /\ Stages' /\ Undisturbed'
           /\ Catting' /\ Comparing' /\ Grepping' /\ Looking' /\ Making'
      BY <1>5, <2>1
    <2> QED BY <2>1, <2>9, <2>12, <2>13, <2>14, Going DEF IInv
  <1> QED BY <1>6, <1>7, <1>8 DEF Copy

LEMMA CopyModeKeeps ==
    ASSUME IInv, CopyMode
    PROVE  IInv'
  <1>1. /\ pc = "mode" /\ call.op = "copy" /\ call' = call /\ before' = before /\ host' = host
        /\ UNCHANGED <<world, room, reading, looking>>
    BY DEF CopyMode, IInv, Stages, world
  <1>2. /\ Name \in Names /\ Dest \in Names /\ fs \in Files /\ Here(Name) /\ Here(Dest)
        /\ Dest' = Dest /\ Name = call.names[1]
    BY <1>1, NameTyped, Typed DEF IInv, Reading, Copying, Ops, Dest
  <1>3. /\ fs[Name] \in Nodes /\ fs[Dest] \in Nodes
        /\ Data \in Seq(Chars) /\ fs[Dest].data \in Seq(Chars)
    BY <1>1, <1>2, FilesTyped DEF Here, Data
  <1>4. ASSUME fs' \in Files, pc' \in {"done", "failed"}, answer' = answer, trouble' \in BOOLEAN
        PROVE  TypeOK' /\ Shape'
    <2>1. pc' \in PCs
      BY <1>4 DEF PCs, Ops
    <2> QED BY <1>1, <1>4, <2>1, Typed, TypedFiles DEF world, looking, reading
  <1>5. CASE SystemFails /\ UNCHANGED fs
    <2>1. pc' = "failed" /\ trouble' = TRUE /\ answer' = answer
      BY <1>5 DEF SystemFails
    <2>2. TypeOK' /\ Shape'
      BY <1>2, <1>4, <1>5, <2>1
    <2> QED BY <1>1, <2>1, <2>2, FailedSo
  <1>6. ASSUME fs' = [fs EXCEPT ![Dest].mode = IF host = "posix" THEN fs[Name].mode ELSE @], Done
        PROVE  IInv'
    <2>1. pc' = "done" /\ trouble' = trouble /\ answer' = answer
      BY <1>6 DEF Done, Goto
    <2> DEFINE mode == IF host = "posix" THEN fs[Name].mode ELSE fs[Dest].mode
               node == [fs[Dest] EXCEPT !.mode = mode]
    <2>2. fs' = [fs EXCEPT ![Dest] = node]
      BY <1>2, <1>6 DEF Files
    <2>3. mode \in SUBSET Bits
      BY <1>3 DEF Nodes
    <2> HIDE DEF mode
    <2>4. node \in Nodes /\ node.data = fs[Dest].data /\ node.mode = mode
      BY <1>3, <2>3, NodeChange
    <2> HIDE DEF node
    <2>5. /\ fs' \in Files /\ fs'[Dest] = node
          /\ \A m \in Names : m # Dest => fs'[m] = fs[m]
      BY <1>2, <2>2, <2>4, FilesChange DEF Files
    <2>6. TypeOK' /\ Shape'
      BY <1>4, <2>1, <2>5, Typed
    <2>7. ASSUME Name # Dest
          PROVE  /\ fs'[Dest].data = before[Name].data
                 /\ host = "posix" => fs'[Dest].mode = before[Name].mode
                 /\ \A m \in Names : m # Dest => fs'[m] = before[m]
      <3>1. /\ \A m \in Names : m # Dest => fs[m] = before[m]
            /\ Len(fs[Dest].data) = Len(Data) /\ \A i \in 1..Len(Data) : fs[Dest].data[i] = Data[i]
        BY <1>1, <2>7 DEF IInv, Copying, Begins
      <3>2. fs[Dest].data = Data
        BY <1>3, <3>1, SeqEqual
      <3>3. Data = before[Name].data /\ fs[Name] = before[Name]
        BY <1>2, <2>7, <3>1 DEF Data
      <3> QED BY <2>4, <2>5, <3>1, <3>2, <3>3 DEF mode
    <2>8. Whole'
      BY <1>1, <1>2, <2>1, <2>7 DEF Whole
    <2>9. Answers'
      BY <1>1, <2>1 DEF Answers
    <2> QED BY <1>1, <2>1, <2>6, <2>8, <2>9, EndedSame
  <1> QED BY <1>5, <1>6 DEF CopyMode

-----------------------------------------------------------------------------
(* Files are printed, compared and searched *)

\* The file that is read, and the piece that comes next.
LEMMA FileRead ==
    ASSUME IInv, pc \in {"cat", "compare", "grep"}
    PROVE  /\ call.op = pc /\ Name \in Names /\ Name = call.names[1] /\ Here(Name)
           /\ fs \in Files /\ fs = before /\ ~trouble
           /\ Data \in Seq(Chars) /\ Len(Data) \in Nat /\ pos \in 0..Len(Data)
           /\ call.text \in Seq(Chars) /\ Len(call.text) \in Nat
  <1>1. call.op = pc /\ fs = before /\ ~trouble
    BY DEF IInv, Stages, Undisturbed
  <1>2. Name \in Names /\ Name = call.names[1] /\ Here(Name) /\ pos <= Len(Data)
    BY <1>1, NameTyped DEF Ops, IInv, Reading
  <1>3. Data \in Seq(Chars) /\ pos \in Nat /\ call.text \in Seq(Chars) /\ fs \in Files
    BY <1>2, Typed, FilesTyped DEF Here, Data, Calls
  <1>4. Len(Data) \in Nat /\ Len(call.text) \in Nat
    BY <1>3
  <1> QED BY <1>1, <1>2, <1>3, <1>4

LEMMA PieceIs ==
    ASSUME IInv, pc \in {"cat", "compare"}, NEW piece \in Pieces
    PROVE  \E k \in 1..(Len(Data) - pos) :
              /\ piece = SubSeq(Data, pos + 1, pos + k) /\ Len(piece) = k /\ piece \in Seq(Chars)
              /\ \A i \in 1..k : piece[i] = Data[pos + i]
  <1>1. Data \in Seq(Chars) /\ Len(Data) \in Nat /\ pos \in 0..Len(Data)
    BY FileRead
  <1>2. PICK k \in 1..(Len(Data) - pos) :
          piece = SubSeq(Data, pos + 1, pos + k) /\ Len(piece) = k
    BY PieceRead
  <1>3. piece \in Seq(Chars)
    BY PieceRead
  <1>4. k \in 0..(Len(Data) - pos)
    BY <1>1, <1>2
  <1>5. \A i \in 1..k : SubSeq(Data, pos + 1, pos + k)[i] = Data[pos + i]
    <2> HIDE DEF Data
    <2> QED BY <1>1, <1>4, CutOf
  <1> QED BY <1>2, <1>3, <1>5

\* A step that reads on: what is left to show is how far it came.
LEMMA ReadsOn ==
    ASSUME IInv, pc \in {"cat", "compare", "grep"}, UNCHANGED <<world, room, fs, looking, answer, trouble>>,
           pc' = pc, pos' \in 0..Len(Data), rest' \in Seq(Chars), cr' \in BOOLEAN,
           continued' \in BOOLEAN, printed' \in Seq(Printed),
           Catting', Comparing', Grepping'
    PROVE  IInv'
  <1>1. /\ fs' = fs /\ before' = before /\ call' = call /\ tries' = tries
        /\ trouble' = trouble /\ answer' = answer /\ listed' = listed
    BY DEF world, looking
  <1>2. Data \in Seq(Chars) /\ Len(Data) \in Nat /\ Here(Name) /\ call.op = pc
    BY FileRead
  <1>3. TypeOK' /\ Shape'
    <2>1. pos' \in Nat
      BY <1>2
    <2> QED BY <1>1, <2>1, Typed, TypedKeep
  <1>4. Arguments'
    BY <1>1 DEF IInv, Arguments
  <1>5. Stages'
    BY <1>1, <1>2 DEF Stages
  <1>6. Undisturbed'
    BY <1>1 DEF IInv, Undisturbed
  <1>7. Reading'
    <2>1. Name' = Name /\ Data' = Data
      BY <1>1 DEF Name, Data
    <2>2. pos' <= Len(Data)
      BY <1>2
    <2> QED BY <1>1, <1>2, <2>1, <2>2 DEF Reading, Here
  <1>8. Copying' /\ Looking' /\ Making'
    BY DEF Copying, Looking, Making
  <1> QED BY <1>3, <1>4, <1>5, <1>6, <1>7, <1>8, Going DEF IInv

\* A step of reading that ends, with its answer or without.
LEMMA ReadEnds ==
    ASSUME IInv, pc \in {"cat", "compare", "grep"}, UNCHANGED <<world, room, fs, looking>>,
           pc' \in {"done", "failed"}, pos' \in 0..Len(Data), rest' \in Seq(Chars), cr' \in BOOLEAN,
           continued' \in BOOLEAN, printed' \in Seq(Printed),
           answer' \in {"none", "true", "false"}, trouble' \in BOOLEAN, Whole', Answers'
    PROVE  IInv'
  <1>1. call' = call /\ tries' = tries /\ listed' = listed
    BY DEF world, looking
  <1>2. call.op \notin {"mkdtemp", "mkstemp"} /\ pos' \in Nat /\ pc' \in PCs
    BY FileRead DEF PCs
  <1>3. TypeOK' /\ Shape'
    BY <1>1, <1>2, Typed, TypedKeep
  <1> QED BY <1>1, <1>2, <1>3, EndedSame

LEMMA ReadFails ==
    ASSUME IInv, pc \in {"cat", "grep"}, UNCHANGED <<world, room, fs, looking, reading>>, SystemFails
    PROVE  IInv'
  <1>1. pc' = "failed" /\ trouble' = TRUE /\ answer' = answer /\ UNCHANGED <<world, room, fs, looking>>
    BY DEF SystemFails
  <1>2. pos' \in 0..Len(Data) /\ rest' \in Seq(Chars) /\ cr' \in BOOLEAN
        /\ continued' \in BOOLEAN /\ printed' \in Seq(Printed) /\ answer' \in {"none", "true", "false"}
    BY <1>1, FileRead, Typed DEF reading
  <1>3. Whole' /\ Answers'
    BY <1>1 DEF Whole, Answers
  <1> QED BY <1>1, <1>2, <1>3, ReadEnds

LEMMA CatKeeps ==
    ASSUME IInv, Cat
    PROVE  IInv'
  <1>1. /\ pc = "cat" /\ UNCHANGED <<world, room, fs, rest, cr, looking>>
        /\ fs' = fs /\ before' = before /\ call' = call /\ rest' = rest /\ cr' = cr /\ tries' = tries
        /\ printed = WithPrefix(SubSeq(Data, 1, pos)) /\ (continued <=> pos > 0 /\ Data[pos] # "lf")
    BY DEF Cat, world, looking, IInv, Catting
  <1>2. /\ Data \in Seq(Chars) /\ Len(Data) \in Nat /\ pos \in 0..Len(Data) /\ fs = before
        /\ call.op = "cat" /\ Name = call.names[1] /\ Name \in Names
    BY <1>1, FileRead
  <1>3. CASE SystemFails /\ UNCHANGED <<pos, continued, printed>>
    BY <1>1, <1>3, ReadFails DEF reading
  <1>4. CASE Left = 0 /\ Done /\ UNCHANGED <<pos, continued, printed>>
    <2>1. pc' = "done" /\ answer' = answer /\ trouble' = trouble
      BY <1>4 DEF Done, Goto
    <2>2. SubSeq(Data, 1, pos) = Data
      <3>1. pos = Len(Data)
        BY <1>2, <1>4 DEF Left
      <3> HIDE DEF Data
      <3> QED BY <1>2, <3>1
    <2>3. printed' = WithPrefix(before'[Name].data)
      BY <1>1, <1>2, <1>4, <2>2 DEF Data
    <2>4. Whole'
      BY <1>1, <1>2, <2>1, <2>3 DEF Whole
    <2>5. Answers'
      BY <1>1, <1>2, <2>1 DEF Answers
    <2> QED BY <1>1, <1>2, <1>4, <2>1, <2>4, <2>5, ReadEnds, Typed
  <1>5. ASSUME NEW piece \in Pieces, Take(piece), printed' = PrintedPiece(piece),
               continued' = (piece[Len(piece)] # "lf"), Goto("cat")
        PROVE  IInv'
    <2>1. pc' = pc /\ answer' = answer /\ trouble' = trouble /\ pos' = pos + Len(piece)
      BY <1>1, <1>5 DEF Goto, Take
    <2>2. PICK k \in 1..(Len(Data) - pos) :
              /\ piece = SubSeq(Data, pos + 1, pos + k) /\ Len(piece) = k /\ piece \in Seq(Chars)
              /\ \A i \in 1..k : piece[i] = Data[pos + i]
      BY <1>1, PieceIs
    <2>3. pos' = pos + k /\ pos' \in 0..Len(Data) /\ pos' > 0
      BY <1>2, <2>1, <2>2
    <2>4. PrintedPiece(piece) = WithPrefix(SubSeq(Data, 1, pos + k))
      <3> HIDE DEF Data
      <3> QED BY <1>1, <1>2, <2>2, CatPiece
    <2>5. printed' = WithPrefix(SubSeq(Data, 1, pos')) /\ printed' \in Seq(Printed)
      <3>1. SubSeq(Data, 1, pos') \in Seq(Chars)
        <4> HIDE DEF Data
        <4> QED BY <1>2, <2>3
      <3> QED BY <1>5, <2>3, <2>4, <3>1, PutTyped
    <2>6. continued' <=> pos' > 0 /\ Data[pos'] # "lf"
      <3>1. piece[k] = Data[pos'] /\ pos' > 0
        BY <2>2, <2>3
      <3>2. continued' = (piece[k] # "lf")
        BY <1>5, <2>2, Zenon
      <3> QED BY <3>1, <3>2, Zenon
    <2>7. Catting' /\ Comparing' /\ Grepping'
      <3>1. Data' = Data
        BY <1>1 DEF Data, Name
      <3> QED BY <1>1, <2>1, <2>5, <2>6, <3>1 DEF Catting, Comparing, Grepping
    <2>8. continued' \in BOOLEAN /\ rest' \in Seq(Chars) /\ cr' \in BOOLEAN
      BY <1>1, <1>5, Typed
    <2> QED BY <1>1, <2>1, <2>3, <2>5, <2>7, <2>8, ReadsOn
  <1> QED BY <1>3, <1>4, <1>5 DEF Cat

LEMMA CompareFailsKeeps ==
    ASSUME IInv, CompareFails
    PROVE  IInv'
  <1>1. /\ pc = "compare" /\ pc' = "done" /\ answer' = "false" /\ trouble' = TRUE
        /\ UNCHANGED <<world, room, fs, looking>> /\ UNCHANGED reading /\ call' = call
    BY DEF CompareFails, Keep, world
  <1>2. pos' \in 0..Len(Data) /\ rest' \in Seq(Chars) /\ cr' \in BOOLEAN
        /\ continued' \in BOOLEAN /\ printed' \in Seq(Printed)
    BY <1>1, FileRead, Typed DEF reading
  <1>3. call.op = "compare"
    BY <1>1, FileRead
  <1>4. Whole' /\ Answers'
    BY <1>1, <1>3 DEF Whole, Answers
  <1> QED BY <1>1, <1>2, <1>4, ReadEnds

LEMMA DropOf ==
    ASSUME NEW S, NEW s \in Seq(S), NEW k \in 0..Len(s)
    PROVE  LET d == SubSeq(s, k + 1, Len(s))
           IN  d \in Seq(S) /\ Len(d) = Len(s) - k /\ \A i \in 1..(Len(s) - k) : d[i] = s[k + i]
  <1>1. Len(s) - k \in 0..(Len(s) - k) /\ Len(s) = k + (Len(s) - k)
    OBVIOUS
  <1> DEFINE n == Len(s) - k
             d == SubSeq(s, k + 1, Len(s))
  <1>2. n \in 0..(Len(s) - k) /\ Len(s) = k + n
    BY <1>1
  <1> HIDE DEF n
  <1>3. d \in Seq(S) /\ Len(d) = n /\ \A i \in 1..n : d[i] = s[k + i]
    BY <1>2, CutOf
  <1> HIDE DEF d
  <1>4. d \in Seq(S) /\ Len(d) = Len(s) - k /\ \A i \in 1..(Len(s) - k) : d[i] = s[k + i]
    BY <1>3 DEF n
  <1> QED BY <1>4 DEF d

LEMMA PrefixIs ==
    ASSUME NEW s \in Seq(Chars), NEW t \in Seq(Chars)
    PROVE  IsPrefix(s, t) <=> Len(s) <= Len(t) /\ \A i \in 1..Len(s) : s[i] = t[i]
  <1>1. Len(s) \in Nat /\ Len(t) \in Nat /\ SubSeq(s, 1, Len(s)) = s
    OBVIOUS
  <1>2. CASE Len(s) <= Len(t)
    <2> DEFINE u == SubSeq(t, 1, Len(s))
    <2>1. u \in Seq(Chars) /\ Len(u) = Len(s) /\ \A i \in 1..Len(s) : u[i] = t[i]
      <3>1. 1 \in 1..(Len(t) + 1) /\ Len(s) \in (1 - 1)..Len(t) /\ Len(s) - 1 + 1 = Len(s)
        BY <1>1, <1>2
      <3>2. \A i \in 1..Len(s) : 1 + i - 1 = i
        BY <1>1
      <3> QED BY <1>1, <3>1, <3>2, SubSeqOf
    <2> HIDE DEF u
    <2>2. s = u <=> \A i \in 1..Len(s) : s[i] = u[i]
      BY <2>1, SeqEqual
    <2>3. IsPrefix(s, t) <=> s = u
      BY <1>1, <1>2 DEF IsPrefix, u
    <2> QED BY <1>2, <2>1, <2>2, <2>3
  <1>3. CASE ~(Len(s) <= Len(t))
    BY <1>3 DEF IsPrefix
  <1> QED BY <1>2, <1>3

\* A comparison that ends has the answer.
LEMMA CompareAnswers ==
    ASSUME IInv, pc = "compare", UNCHANGED <<world, room, fs, looking>>, NEW b \in BOOLEAN, Answer(b),
           pos' = pos, rest' = rest, cr' = cr, continued' = continued, printed' = printed,
           b <=> Data \in Holding(call.text)
    PROVE  IInv'
  <1>1. /\ pc' = "done" /\ trouble' = trouble /\ (answer' = "true" <=> b)
        /\ answer' \in {"true", "false"}
    BY DEF Answer
  <1>2. call' = call /\ fs' = fs /\ host' = host
    BY DEF world
  <1>3. /\ Data \in Seq(Chars) /\ Len(Data) \in Nat /\ pos \in 0..Len(Data)
        /\ call.op = "compare" /\ Name = call.names[1]
    BY FileRead
  <1>4. Whole'
    BY <1>1, <1>2, <1>3 DEF Whole
  <1>5. Holding(call.text)' = Holding(call.text)
    BY <1>2 DEF Holding
  <1>6. Answers'
    BY <1>1, <1>2, <1>3, <1>5 DEF Answers, Data
  <1> QED BY <1>1, <1>3, <1>4, <1>6, Typed, ReadEnds

LEMMA CompareKeeps ==
    ASSUME IInv, Compare
    PROVE  IInv'
  <1> DEFINE text == call.text
  <1>1. /\ pc = "compare" /\ host = "posix" /\ UNCHANGED <<world, room, fs, looking>>
        /\ UNCHANGED <<cr, continued, printed>> /\ fs' = fs /\ call' = call /\ host' = host
        /\ tries' = tries /\ Data' = Data
    BY DEF Compare, world, looking, Data, Name
  <1>2. /\ Data \in Seq(Chars) /\ Len(Data) \in Nat /\ pos \in 0..Len(Data)
        /\ text \in Seq(Chars) /\ Len(text) \in Nat /\ rest \in Seq(Chars) /\ Len(rest) \in Nat
    <2>1. rest \in Seq(Chars) /\ Len(rest) \in Nat
      BY Typed
    <2> QED BY <1>1, <2>1, FileRead
  <1>3. /\ Len(text) = pos + Len(rest) /\ \A i \in 1..pos : text[i] = Data[i]
        /\ \A i \in 1..Len(rest) : rest[i] = text[Len(text) - Len(rest) + i]
    BY <1>1 DEF IInv, Comparing, Suffix
  <1>4. \A i \in 1..Len(rest) : rest[i] = text[pos + i]
    <2>1. Len(text) - Len(rest) = pos
      BY <1>2, <1>3
    <2> QED BY <1>3, <2>1
  <1>5. Data \in Holding(text) <=> Data = text
    BY <1>1 DEF Holding
  <1> HIDE DEF text, Data
  <1>6. ASSUME Left = 0, Answer(rest = <<>>), UNCHANGED <<pos, rest>>
        PROVE  IInv'
    <2>1. pos = Len(Data)
      BY <1>2, <1>6 DEF Left
    <2>2. rest = <<>> <=> Data = text
      <3>1. rest = <<>> => Len(text) = Len(Data)
        BY <1>2, <1>3, <2>1
      <3>2. Len(text) = Len(Data) => Data = text
        BY <1>2, <1>3, <2>1, SeqEqual
      <3>3. Data = text => Len(rest) = 0
        BY <1>2, <1>3, <2>1
      <3>4. Len(rest) = 0 => rest = <<>>
        BY <1>2
      <3> QED BY <3>1, <3>2, <3>3, <3>4
    <2>3. (rest = <<>>) \in BOOLEAN /\ ((rest = <<>>) <=> Data \in Holding(text))
      BY <1>5, <2>2
    <2> QED BY <1>1, <1>6, <2>3, CompareAnswers DEF text
  <1>7. ASSUME NEW piece \in Pieces, IsPrefix(piece, rest), Take(piece),
               rest' = SubSeq(rest, Len(piece) + 1, Len(rest)), Goto("compare")
        PROVE  IInv'
    <2>1. pc' = pc /\ answer' = answer /\ trouble' = trouble /\ pos' = pos + Len(piece)
      BY <1>1, <1>7 DEF Goto, Take
    <2>2. PICK k \in 1..(Len(Data) - pos) :
              /\ piece = SubSeq(Data, pos + 1, pos + k) /\ Len(piece) = k /\ piece \in Seq(Chars)
              /\ \A i \in 1..k : piece[i] = Data[pos + i]
      BY <1>1, PieceIs
    <2>3. pos' = pos + k /\ pos' \in 0..Len(Data) /\ k \in Nat
      BY <1>2, <2>1, <2>2
    <2>4. k <= Len(rest) /\ \A i \in 1..k : rest[i] = Data[pos + i]
      <3>1. Len(piece) <= Len(rest) /\ \A i \in 1..Len(piece) : piece[i] = rest[i]
        BY <1>2, <1>7, <2>2, PrefixIs
      <3> QED BY <2>2, <3>1
    <2>5. rest' \in Seq(Chars) /\ Len(rest') = Len(rest) - k
          /\ \A i \in 1..(Len(rest) - k) : rest'[i] = rest[k + i]
      <3>1. k \in 0..Len(rest) /\ rest' = SubSeq(rest, k + 1, Len(rest))
        BY <1>2, <1>7, <2>2, <2>3, <2>4
      <3> QED BY <1>2, <3>1, DropOf
    <2>6. Suffix(rest', text)
      <3>1. ASSUME NEW i \in 1..Len(rest')
            PROVE  rest'[i] = text[Len(text) - Len(rest') + i]
        <4>1. k + i \in 1..Len(rest) /\ i \in 1..(Len(rest) - k)
              /\ Len(text) - Len(rest') + i = pos + (k + i)
          BY <1>2, <1>3, <2>3, <2>4, <2>5, <3>1
        <4> QED BY <1>4, <2>5, <4>1
      <3>2. Len(rest') <= Len(text)
        BY <1>2, <1>3, <2>3, <2>4, <2>5
      <3> QED BY <3>1, <3>2 DEF Suffix
    <2>7. Len(text) = pos' + Len(rest')
      BY <1>2, <1>3, <2>3, <2>4, <2>5
    <2>8. ASSUME NEW i \in 1..pos' PROVE text[i] = Data[i]
      <3>1. CASE i \in 1..pos
        BY <1>3, <3>1
      <3>2. CASE i \notin 1..pos
        <4>1. i - pos \in 1..k /\ pos + (i - pos) = i /\ i - pos \in 1..Len(rest)
          BY <1>2, <2>3, <2>4, <3>2
        <4> QED BY <1>4, <2>4, <4>1
      <3> QED BY <3>1, <3>2
    <2>9. Comparing'
      BY <1>1, <2>6, <2>7, <2>8 DEF Comparing, text
    <2>10. Catting' /\ Grepping'
      BY <1>1, <2>1 DEF Catting, Grepping
    <2> QED BY <1>1, <2>1, <2>3, <2>5, <2>9, <2>10, Typed, ReadsOn
  <1>8. ASSUME NEW piece \in Pieces, ~IsPrefix(piece, rest), Answer(FALSE), UNCHANGED <<pos, rest>>
        PROVE  IInv'
    <2>1. PICK k \in 1..(Len(Data) - pos) :
              /\ piece = SubSeq(Data, pos + 1, pos + k) /\ Len(piece) = k /\ piece \in Seq(Chars)
              /\ \A i \in 1..k : piece[i] = Data[pos + i]
      BY <1>1, PieceIs
    <2>2. ASSUME Data = text PROVE FALSE
      <3>1. k <= Len(rest)
        BY <1>2, <1>3, <2>1, <2>2
      <3>2. ASSUME NEW i \in 1..k PROVE piece[i] = rest[i]
        <4>1. i \in 1..Len(rest)
          BY <1>2, <2>1, <3>1
        <4> QED BY <1>4, <2>1, <2>2, <4>1
      <3> QED BY <1>2, <1>8, <2>1, <3>1, <3>2, PrefixIs
    <2>3. FALSE <=> Data \in Holding(text)
      BY <1>5, <2>2
    <2> QED BY <1>1, <1>8, <2>3, CompareAnswers DEF text
  <1> QED BY <1>6, <1>7, <1>8 DEF Compare

LEMMA CompareWindowsKeeps ==
    ASSUME IInv, CompareWindows
    PROVE  IInv'
  <1> DEFINE text == call.text
             after(piece) == FoldLeft(Matched, [rest |-> rest, cr |-> cr, same |-> TRUE], piece)
  <1>1. /\ pc = "compare" /\ host # "posix" /\ UNCHANGED <<world, room, fs, looking>>
        /\ UNCHANGED <<continued, printed>> /\ fs' = fs /\ call' = call /\ host' = host
        /\ tries' = tries /\ Data' = Data
    BY DEF CompareWindows, world, looking, Data, Name
  <1>2. /\ Data \in Seq(Chars) /\ Len(Data) \in Nat /\ pos \in 0..Len(Data)
        /\ text \in Seq(Chars) /\ rest \in Seq(Chars) /\ cr \in BOOLEAN
    BY <1>1, FileRead, Typed
  <1>3. Tracking(Data, text, pos, rest, cr)
    BY <1>1 DEF IInv, Comparing
  <1> HIDE DEF text, Data, after
  <1>4. Data \in Holding(text) <=> Aligned(Data, text, Len(text), Len(Data))
    BY <1>1, <1>2, HoldingIs
  <1>5. ASSUME Left = 0, Answer(rest = <<>> /\ ~cr), UNCHANGED <<pos, rest, cr>>
        PROVE  IInv'
    <2>1. pos = Len(Data)
      BY <1>2, <1>5 DEF Left
    <2>2. rest = <<>> /\ ~cr <=> Aligned(Data, text, Len(text), Len(Data))
      BY <1>2, <1>3, <2>1, MatchEnd
    <2>3. (rest = <<>> /\ ~cr) \in BOOLEAN /\ ((rest = <<>> /\ ~cr) <=> Data \in Holding(text))
      BY <1>4, <2>2
    <2> QED BY <1>1, <1>5, <2>3, CompareAnswers DEF text
  <1>6. ASSUME NEW piece \in Pieces
        PROVE  \E k \in 1..(Len(Data) - pos) :
                  Len(piece) = k /\ after(piece) \in States /\ On(Data, text, pos + k, after(piece))
    <2>1. PICK k \in 1..(Len(Data) - pos) : piece = SubSeq(Data, pos + 1, pos + k) /\ Len(piece) = k
      BY <1>1, PieceIs
    <2>2. after(piece) \in States /\ On(Data, text, pos + k, after(piece))
      BY <1>2, <1>3, <2>1, MatchPiece DEF after
    <2> QED BY <2>1, <2>2
  <1>7. ASSUME NEW piece \in Pieces, after(piece).same, Take(piece), rest' = after(piece).rest,
               cr' = after(piece).cr, Goto("compare")
        PROVE  IInv'
    <2>1. PICK k \in 1..(Len(Data) - pos) :
            Len(piece) = k /\ after(piece) \in States /\ On(Data, text, pos + k, after(piece))
      BY <1>6
    <2>2. pc' = pc /\ answer' = answer /\ trouble' = trouble /\ pos' = pos + k /\ pos' \in 0..Len(Data)
      BY <1>1, <1>2, <1>7, <2>1 DEF Goto, Take
    <2>3. rest' \in Seq(Chars) /\ cr' \in BOOLEAN
      BY <1>7, <2>1 DEF States
    <2>4. Tracking(Data, text, pos', rest', cr')
      BY <1>7, <2>1, <2>2 DEF On
    <2>5. Comparing'
      BY <1>1, <2>4 DEF Comparing, text
    <2>6. Catting' /\ Grepping'
      BY <1>1, <2>2 DEF Catting, Grepping
    <2> QED BY <1>1, <2>2, <2>3, <2>5, <2>6, Typed, ReadsOn
  <1>8. ASSUME NEW piece \in Pieces, ~after(piece).same, Answer(FALSE), UNCHANGED <<pos, rest, cr>>
        PROVE  IInv'
    <2>1. Mismatch(Data, text)
      BY <1>6, <1>8 DEF On
    <2>2. FALSE <=> Data \in Holding(text)
      BY <1>4, <2>1 DEF Mismatch
    <2> QED BY <1>1, <1>8, <2>2, CompareAnswers DEF text
  <1> QED BY <1>5, <1>7, <1>8 DEF CompareWindows, after

\* The next line ends at the first end of line, or where the file does.
LEMMA LineEndIs ==
    ASSUME Data \in Seq(Chars), pos \in 0..Len(Data), pos < Len(Data)
    PROVE  /\ LineEnd \in (pos + 1)..(Len(Data) + 1)
           /\ \A i \in (pos + 1)..(LineEnd - 1) : Data[i] # "lf"
           /\ LineEnd <= Len(Data) => Data[LineEnd] = "lf"
  <1> DEFINE ends == {i \in (pos + 1)..Len(Data) : Data[i] = "lf"}
  <1>1. Len(Data) \in Nat /\ pos \in Nat
    OBVIOUS
  <1>2. LineEnd = IF ends = {} THEN Len(Data) + 1
                  ELSE CHOOSE i \in ends : \A j \in ends : i <= j
    BY DEF LineEnd
  <1> HIDE DEF Data
  <1>3. CASE ends = {}
    <2>1. LineEnd = Len(Data) + 1
      BY <1>2, <1>3
    <2> QED BY <1>1, <1>3, <2>1
  <1>4. CASE ends # {}
    <2>1. ends \subseteq Nat
      BY <1>1
    <2>2. \E i \in ends : \A j \in ends : i <= j
      <3> HIDE DEF ends
      <3>1. PICK i \in ends : \A j \in ends : <<j, i>> \notin OpToRel(<, Nat)
        BY <1>4, <2>1, NatLessThanWellFounded, WFMin
      <3>2. \A j \in ends : ~(j < i)
        BY <2>1, <3>1 DEF OpToRel
      <3> QED BY <2>1, <3>2
    <2>3. LineEnd \in ends /\ \A j \in ends : LineEnd <= j
      <3> HIDE DEF ends
      <3> QED BY <1>2, <1>4, <2>2
    <2>4. ASSUME NEW i \in (pos + 1)..(LineEnd - 1) PROVE Data[i] # "lf"
      <3>1. i \in (pos + 1)..Len(Data) /\ ~(LineEnd <= i)
        BY <1>1, <2>3
      <3> QED BY <2>3, <3>1
    <2> QED BY <1>1, <2>3, <2>4
  <1> QED BY <1>3, <1>4

\* The line that is read is the only line that begins in what was read.
LEMMA OneLine ==
    ASSUME NEW data \in Seq(Chars), NEW p \in 0..Len(data), NEW e \in (p + 1)..(Len(data) + 1),
           \A i \in (p + 1)..(e - 1) : data[i] # "lf", e <= Len(data) => data[e] = "lf",
           p < Len(data), NEW text \in Seq(Chars), \A i \in 1..Len(text) : text[i] # "lf",
           NEW i \in (p + 1)..Len(data), i <= e, NEW j \in 0..Len(data), LineAt(data, i, j, text)
    PROVE  i = p + 1 /\ j = e - 1
  <1>1. Len(data) \in Nat /\ p \in Nat /\ e \in Nat /\ i \in Nat /\ j \in Nat
    OBVIOUS
  <1>2. i = p + 1
    <2>1. CASE i > p + 1
      <3>1. data[i - 1] = "lf"
        BY <1>1, <2>1 DEF LineAt
      <3>2. i - 1 \in (p + 1)..(e - 1)
        BY <1>1, <2>1
      <3> QED BY <3>1, <3>2
    <2> QED BY <1>1, <2>1
  <1>3. SubSeq(data, i, j) = text
    BY DEF LineAt
  <1>4. j >= p
    BY <1>1, <1>2 DEF LineAt
  <1>5. Len(text) = j - p /\ \A m \in 1..(j - p) : text[m] = data[p + m]
    <2>1. j - p \in 0..(Len(data) - p) /\ j = p + (j - p)
      BY <1>1, <1>4
    <2>2. SubSeq(data, p + 1, j) = text
      BY <1>2, <1>3
    <2> DEFINE d == SubSeq(data, p + 1, j)
    <2>3. Len(d) = j - p /\ \A m \in 1..(j - p) : d[m] = data[p + m]
      BY <2>1, CutOf
    <2> HIDE DEF d
    <2>4. d = text
      BY <2>2 DEF d
    <2> QED BY <2>3, <2>4
  <1>6. ~(e <= j)
    <2>1. ASSUME e <= j PROVE FALSE
      <3>1. e - p \in 1..(j - p) /\ p + (e - p) = e /\ e <= Len(data)
        BY <1>1, <2>1
      <3>2. text[e - p] = "lf"
        BY <1>5, <3>1
      <3> QED BY <1>5, <3>1, <3>2
    <2> QED BY <2>1
  <1>7. ~(j < e - 1)
    <2>1. ASSUME j < e - 1 PROVE FALSE
      <3>1. j < Len(data)
        BY <1>1, <2>1
      <3>2. data[j + 1] = "lf"
        BY <1>1, <3>1 DEF LineAt
      <3>3. j + 1 \in (p + 1)..(e - 1)
        BY <1>1, <1>4, <2>1
      <3> QED BY <3>2, <3>3
    <2> QED BY <2>1
  <1> QED BY <1>1, <1>2, <1>6, <1>7

LEMMA GrepKeeps ==
    ASSUME IInv, Grep
    PROVE  IInv'
  <1> DEFINE text == call.text
  <1>1. /\ pc = "grep" /\ UNCHANGED <<world, room, fs, rest, cr, continued, printed, looking>>
        /\ fs' = fs /\ call' = call /\ Data' = Data
    BY DEF Grep, world, looking, Data, Name
  <1>2. /\ Data \in Seq(Chars) /\ Len(Data) \in Nat /\ pos \in 0..Len(Data) /\ text \in Seq(Chars)
        /\ call.op = "grep" /\ Name = call.names[1]
    BY <1>1, FileRead
  <1>3. \A i \in 1..Len(text) : text[i] # "lf"
    BY <1>2 DEF IInv, Arguments
  <1>4. /\ pos = 0 \/ pos = Len(Data) \/ Data[pos] = "lf"
        /\ \A i \in 1..pos : \A j \in 0..Len(Data) : ~ LineAt(Data, i, j, text)
    BY <1>1 DEF IInv, Grepping
  <1>5. ASSUME NEW b \in BOOLEAN, Answer(b), b <=> HasLine(Data, text), pos' \in 0..Len(Data)
        PROVE  IInv'
    <2>1. /\ pc' = "done" /\ trouble' = trouble /\ (answer' = "true" <=> b)
          /\ answer' \in {"true", "false"}
      BY <1>5 DEF Answer
    <2>2. Whole'
      BY <1>1, <1>2, <2>1 DEF Whole
    <2>3. Answers'
      BY <1>1, <1>2, <1>5, <2>1 DEF Answers, Data
    <2> QED BY <1>1, <1>5, <2>1, <2>2, <2>3, Typed, ReadEnds
  <1>6. HasLine(Data, text) <=> \E i \in 1..Len(Data), j \in 0..Len(Data) : LineAt(Data, i, j, text)
    BY DEF HasLine, LineAt
  <1> HIDE DEF text, Data
  <1>7. CASE Left = 0 /\ Answer(FALSE) /\ UNCHANGED pos
    <2>1. pos = Len(Data)
      BY <1>2, <1>7 DEF Left
    <2>2. FALSE <=> HasLine(Data, text)
      BY <1>4, <1>6, <2>1
    <2> QED BY <1>2, <1>5, <1>7, <2>2
  <1>8. CASE SystemFails /\ UNCHANGED pos
    BY <1>1, <1>8, ReadFails DEF reading
  <1>9. ASSUME Left > 0, pos' = IF LineEnd > Len(Data) THEN Len(Data) ELSE LineEnd,
               IF Line = text THEN Answer(TRUE) ELSE Goto("grep")
        PROVE  IInv'
    <2> DEFINE e == LineEnd
    <2>1. pos < Len(Data)
      BY <1>2, <1>9 DEF Left
    <2>2. /\ e \in (pos + 1)..(Len(Data) + 1) /\ \A i \in (pos + 1)..(e - 1) : Data[i] # "lf"
          /\ e <= Len(Data) => Data[e] = "lf"
      BY <1>2, <2>1, LineEndIs
    <2>3. /\ pos' = IF e > Len(Data) THEN Len(Data) ELSE e
          /\ Line = SubSeq(Data, pos + 1, e - 1)
      BY <1>9 DEF Line
    <2> HIDE DEF e
    <2>4. pos' \in 0..Len(Data) /\ pos' <= e /\ e \in Nat
      BY <1>2, <2>2, <2>3
    <2>5. CASE Line = text
      <3>1. LineAt(Data, pos + 1, e - 1, text)
        <4>1. pos + 1 = 1 \/ Data[(pos + 1) - 1] = "lf"
          <5>1. (pos + 1) - 1 = pos
            BY <1>2
          <5> QED BY <1>2, <1>4, <2>1, <5>1
        <4>2. CASE e = Len(Data) + 1
          <5>1. e - 1 = Len(Data) /\ pos + 1 \in 1..(Len(Data) + 1)
                /\ e - 1 \in ((pos + 1) - 1)..Len(Data) /\ (e - 1) - (pos + 1) + 1 > 0
            BY <1>2, <2>1, <4>2
          <5>2. Len(text) > 0
            BY <1>2, <2>3, <2>5, <5>1, SubSeqOf
          <5>3. text # <<>>
            BY <5>2
          <5> QED BY <2>3, <2>5, <4>1, <5>1, <5>3 DEF LineAt
        <4>3. CASE e # Len(Data) + 1
          <5>1. e - 1 < Len(Data) /\ (e - 1) + 1 = e /\ e <= Len(Data) /\ e - 1 >= (pos + 1) - 1
            BY <1>2, <2>2, <2>4, <4>3
          <5> QED BY <2>2, <2>3, <2>5, <4>1, <5>1 DEF LineAt
        <4> QED BY <4>2, <4>3
      <3>2. pos + 1 \in 1..Len(Data) /\ e - 1 \in 0..Len(Data)
        BY <1>2, <2>1, <2>2, <2>4
      <3>3. TRUE <=> HasLine(Data, text)
        BY <1>6, <3>1, <3>2
      <3> QED BY <1>5, <1>9, <2>4, <2>5, <3>3
    <2>6. CASE Line # text
      <3>1. pc' = pc /\ answer' = answer /\ trouble' = trouble
        BY <1>1, <1>9, <2>6 DEF Goto
      <3>2. pos' = 0 \/ pos' = Len(Data) \/ Data[pos'] = "lf"
        BY <2>2, <2>3, <2>4
      <3>3. ASSUME NEW i \in 1..pos', NEW j \in 0..Len(Data), LineAt(Data, i, j, text) PROVE FALSE
        <4>1. CASE i \in 1..pos
          BY <1>4, <3>3, <4>1
        <4>2. CASE i \notin 1..pos
          <5>1. i \in (pos + 1)..Len(Data) /\ i <= e
            BY <1>2, <2>4, <4>2
          <5>2. i = pos + 1 /\ j = e - 1
            BY <1>2, <1>3, <2>1, <2>2, <3>3, <5>1, OneLine
          <5> QED BY <2>3, <2>6, <3>3, <5>2 DEF LineAt
        <4> QED BY <4>1, <4>2
      <3>4. Grepping'
        BY <1>1, <3>2, <3>3 DEF Grepping, text
      <3>5. Catting' /\ Comparing'
        BY <1>1, <3>1 DEF Catting, Comparing
      <3> QED BY <1>1, <2>4, <3>1, <3>4, <3>5, Typed, ReadsOn
    <2> QED BY <2>5, <2>6
  <1> QED BY <1>7, <1>8, <1>9 DEF Grep, text

-----------------------------------------------------------------------------
(* Theorems *)

LEMMA FilesNext ==
    ASSUME IInv, [Next]_vars
    PROVE  IInv'
  <1>1. CASE UNCHANGED vars
    <2>1. (TypeOK /\ Shape /\ Arguments /\ Stages /\ Undisturbed)'
      BY <1>1 DEF vars, IInv, TypeOK, Shape, Arguments, Stages, Undisturbed
    <2>2. (Reading /\ Copying /\ Catting /\ Comparing /\ Grepping)'
      BY <1>1 DEF vars, IInv, Reading, Copying, Catting, Comparing, Grepping, Here, Name, Dest, Data
    <2>3. (Looking /\ Making)'
      BY <1>1 DEF vars, IInv, Looking, Making, Refused, Here, Name
    <2>4. Whole'
      BY <1>1 DEF vars, IInv, Whole, Here, Dest
    <2>5. Answers'
      BY <1>1 DEF vars, IInv, Answers, Here, Holding
    <2> QED BY <2>1, <2>2, <2>3, <2>4, <2>5 DEF IInv
  <1>2. CASE Next
    BY <1>2, CallUtilsKeeps, CallFsKeeps, CallLookKeeps, OpenKeeps, CreateKeeps, OpenDestKeeps,
       CopyKeeps, CopyModeKeeps, CatKeeps, CompareFailsKeeps, CompareKeeps, CompareWindowsKeeps,
       GrepKeeps, FileExistsKeeps, ExistsKeeps, AskAccessKeeps, LookKeeps, SafeAccessKeeps,
       ReadDirKeeps, StatKeeps, UnlinkKeeps, RmdirKeeps, TempKeeps, TemplateKeeps, MakeTempKeeps,
       MeddleKeeps DEF Next
  <1> QED BY <1>1, <1>2

\* The inductive invariant holds throughout.
THEOREM FilesInvariant == Spec => []IInv
  BY FilesInit, FilesNext, PTL DEF Spec

\* Every state has its types, and no more names are tried than there may be
\* (mkdtemp and mkstemp of the Windows shims end).
THEOREM FilesTypeOK == Spec => []TypeOK
  <1>1. IInv => TypeOK
    BY DEF IInv
  <1> QED BY <1>1, FilesInvariant, PTL

\* A call that comes back without an error has done all of it and to nothing else,
\* whatever the pieces its files were read in (atf_utils_copy_file,
\* atf_utils_cat_file, atf_fs_mkdtemp).
THEOREM FilesWhole == Spec => []Whole
  <1>1. IInv => Whole
    BY DEF IInv
  <1> QED BY <1>1, FilesInvariant, PTL

\* What is asked is answered as it is, whatever the length of file and text and of
\* the pieces read, for every user and mode; and a call fails only for a reason of
\* the system's, of another process or of what was asked (atf_utils_compare_file,
\* atf_utils_grep_file, atf_fs_eaccess, safe_access).
THEOREM FilesAnswers == Spec => []Answers
  <1>1. IInv => Answers
    BY DEF IInv
  <1> QED BY <1>1, FilesInvariant, PTL
=============================================================================
