-------------------------- MODULE AtfProgramProofs --------------------------
(***************************************************************************)
(* Proofs about AtfProgram, for any requests, programs, directories and    *)
(* test cases.                                                             *)
(*                                                                         *)
(* Words are split, joined and entered into maps by folds.  A fold is      *)
(* unfolded into the chain of its intermediate results (Chains), and what  *)
(* holds of every result of a chain is shown from one to the next.         *)
(***************************************************************************)
EXTENDS AtfProgram, WellFoundedInduction, SequenceTheorems, TLAPS

-----------------------------------------------------------------------------
(* Chains of steps, and the folds that are one *)

\* What holds of 0 and goes from each number to the next holds of all.
LEMMA NatSteps ==
    ASSUME NEW S \in SUBSET Nat, 0 \in S, \A i \in S : i + 1 \in S
    PROVE  S = Nat
  <1>1. SUFFICES ASSUME Nat \ S # {} PROVE FALSE
    OBVIOUS
  <1>2. \E x \in Nat \ S : \A y \in Nat \ S : ~ (<<y, x>> \in OpToRel(<, Nat))
    BY <1>1, NatLessThanWellFounded, WFMin, Zenon
  <1>3. PICK x \in Nat \ S : \A y \in Nat \ S : ~ (y < x)
    BY <1>2 DEF OpToRel
  <1>4. x # 0 /\ x - 1 \in Nat /\ x - 1 < x /\ (x - 1) + 1 = x
    OBVIOUS
  <1> QED BY <1>3, <1>4

\* ... and the same up to n.
LEMMA StepsUpTo ==
    ASSUME NEW n \in Nat, NEW S, 0 \in S, \A i \in 0..n : i \in S /\ i < n => i + 1 \in S
    PROVE  \A i \in 0..n : i \in S
  <1> DEFINE T == {i \in Nat : i <= n => i \in S}
  <1>1. 0 \in T
    OBVIOUS
  <1>2. ASSUME NEW i \in T PROVE i + 1 \in T
    OBVIOUS
  <1>3. T = Nat
    BY <1>1, <1>2, NatSteps
  <1> QED BY <1>3

\* A function that each step makes of the last, up to n.
Chains(S, base, n, F) ==
    {c \in [0..n -> S] : c[0] = base /\ \A i \in 1..n : c[i] = F[i][c[i - 1]]}

\* There is such a function, for any steps.
LEMMA Chain ==
    ASSUME NEW S, NEW base \in S, NEW n \in Nat, NEW F \in [1..n -> [S -> S]]
    PROVE  Chains(S, base, n, F) # {}
  <1> DEFINE Good(m) == \E c \in [0..m -> S] : c[0] = base /\ \A i \in 1..m : c[i] = F[i][c[i - 1]]
             T == {m \in 0..n : Good(m)}
  <1>1. 0 \in T
    <2> DEFINE c == [i \in 0..0 |-> base]
    <2>1. c \in [0..0 -> S] /\ c[0] = base /\ \A i \in 1..0 : c[i] = F[i][c[i - 1]]
      OBVIOUS
    <2>2. Good(0)
      <3> HIDE DEF c
      <3> QED BY <2>1
    <2> QED BY <2>2
  <1>2. ASSUME NEW m \in 0..n, m \in T, m < n PROVE m + 1 \in T
    <2>1. PICK c \in [0..m -> S] : c[0] = base /\ \A i \in 1..m : c[i] = F[i][c[i - 1]]
      BY <1>2
    <2> DEFINE d == [i \in 0..(m + 1) |-> IF i <= m THEN c[i] ELSE F[m + 1][c[m]]]
    <2>2. F[m + 1] \in [S -> S] /\ c[m] \in S
      BY <1>2
    <2>3. d \in [0..(m + 1) -> S]
      BY <2>2
    <2>4. d[0] = base
      BY <2>1
    <2>5. \A i \in 1..(m + 1) : d[i] = F[i][d[i - 1]]
      <3>1. \A i \in 1..m : d[i] = c[i] /\ d[i - 1] = c[i - 1]
        OBVIOUS
      <3>2. d[m + 1] = F[m + 1][c[m]] /\ d[m] = c[m]
        OBVIOUS
      <3>3. \A i \in 1..(m + 1) : i \in 1..m \/ i = m + 1
        OBVIOUS
      <3>4. (m + 1) - 1 = m
        OBVIOUS
      <3> HIDE DEF d
      <3> QED BY <2>1, <3>1, <3>2, <3>3, <3>4
    <2>6. m + 1 \in 0..n
      BY <1>2
    <2> HIDE DEF d
    <2> QED BY <2>3, <2>4, <2>5, <2>6
  <1>3. \A m \in 0..n : m \in T
    <2> HIDE DEF T
    <2> QED BY <1>1, <1>2, StepsUpTo
  <1> QED BY <1>3 DEF Chains

LargestFirst(S, base, n, F) ==
    {g \in [SUBSET (1..n) -> S] :
        \A s \in SUBSET (1..n) : g[s] = IF s = {} THEN base ELSE F[Max(s)][g[s \ {Max(s)}]]}

\* The maximum that the folds of sequences pick.
LEMMA MaxIs ==
    ASSUME NEW n \in Nat, NEW s \in SUBSET (1..n), n \in s
    PROVE  Max(s) = n
  <1>1. \A y \in s : n >= y
    OBVIOUS
  <1>2. ASSUME NEW x \in s, \A y \in s : x >= y PROVE x = n
    BY <1>2
  <1> QED BY <1>1, <1>2 DEF Max

LEMMA MaxIn ==
    ASSUME NEW n \in Nat, NEW s \in SUBSET (1..n), s # {}
    PROVE  Max(s) \in s /\ \A y \in s : y <= Max(s)
  <1> DEFINE Largest(t) == Max(t) \in t /\ \A y \in t : y <= Max(t)
             T == {m \in 0..n : \A t \in SUBSET (1..m) : t # {} => Largest(t)}
  <1>1. 0 \in T
    <2>1. \A t \in SUBSET (1..0) : t = {}
      OBVIOUS
    <2>2. \A t \in SUBSET (1..0) : t # {} => Largest(t)
      BY <2>1, Zenon
    <2>3. 0 \in 0..n
      OBVIOUS
    <2> QED BY <2>2, <2>3, Zenon
  <1>2. ASSUME NEW m \in 0..n, m \in T, m < n PROVE m + 1 \in T
    <2>1. ASSUME NEW t \in SUBSET (1..(m + 1)), t # {} PROVE Largest(t)
      <3>1. CASE m + 1 \in t
        <4>1. Max(t) = m + 1
          BY <3>1, MaxIs
        <4>2. \A y \in t : y <= m + 1
          OBVIOUS
        <4> QED BY <3>1, <4>1, <4>2
      <3>2. CASE m + 1 \notin t
        <4>1. t \in SUBSET (1..m)
          BY <3>2
        <4> QED BY <1>2, <2>1, <4>1
      <3> QED BY <3>1, <3>2
    <2> QED BY <1>2, <2>1
  <1> HIDE DEF T
  <1>3. n \in T
    BY <1>1, <1>2, StepsUpTo
  <1> QED BY <1>3 DEF T

LEMMA MinIn ==
    ASSUME NEW n \in Nat, NEW s \in SUBSET (1..n), s # {}
    PROVE  Min(s) \in s /\ \A y \in s : Min(s) <= y
  <1>1. s \in SUBSET Nat
    OBVIOUS
  <1>2. \E x \in s : \A y \in s : ~ (<<y, x>> \in OpToRel(<, Nat))
    BY <1>1, NatLessThanWellFounded, WFMin, Zenon
  <1>3. PICK x \in s : \A y \in s : ~ (y < x)
    BY <1>1, <1>2 DEF OpToRel
  <1>4. \A y \in s : x <= y
    BY <1>1, <1>3
  <1> QED BY <1>4 DEF Min

\* The recursion on sets of indices by which the folds are defined has a solution.
LEMMA SubsetRecursion ==
    ASSUME NEW S, NEW base \in S, NEW n \in Nat, NEW F \in [1..n -> [S -> S]]
    PROVE  LargestFirst(S, base, n, F) # {}
  <1> DEFINE T == {m \in 0..n : LargestFirst(S, base, m, F) # {}}
  <1>1. 0 \in T
    <2> DEFINE g == [s \in {{}} |-> base]
    <2>1. SUBSET (1..0) = {{}}
      OBVIOUS
    <2>2. g \in LargestFirst(S, base, 0, F)
      BY <2>1 DEF LargestFirst
    <2> QED BY <2>2
  <1>2. ASSUME NEW m \in 0..n, m \in T, m < n PROVE m + 1 \in T
    <2>1. PICK g \in LargestFirst(S, base, m, F) : TRUE
      BY <1>2
    <2>2. /\ g \in [SUBSET (1..m) -> S]
          /\ \A s \in SUBSET (1..m) : g[s] = IF s = {} THEN base ELSE F[Max(s)][g[s \ {Max(s)}]]
      BY <2>1 DEF LargestFirst
    <2> DEFINE N == m + 1
               h == [s \in SUBSET (1..N) |-> IF N \in s THEN F[N][g[s \ {N}]] ELSE g[s]]
    <2>3. N \in 1..n /\ F[N] \in [S -> S]
      BY <1>2
    <2>4. \A s \in SUBSET (1..N) : s \ {N} \in SUBSET (1..m)
      OBVIOUS
    <2>5. h \in [SUBSET (1..N) -> S]
      <3> SUFFICES ASSUME NEW s \in SUBSET (1..N)
                   PROVE  (IF N \in s THEN F[N][g[s \ {N}]] ELSE g[s]) \in S
        OBVIOUS
      <3>1. g[s \ {N}] \in S
        BY <2>2, <2>4
      <3>2. N \notin s => s \ {N} = s
        OBVIOUS
      <3> QED BY <2>3, <3>1, <3>2
    <2>6. ASSUME NEW s \in SUBSET (1..N)
          PROVE  h[s] = IF s = {} THEN base ELSE F[Max(s)][h[s \ {Max(s)}]]
      <3>1. CASE N \in s
        <4>1. Max(s) = N
          BY <3>1, <1>2, MaxIs
        <4>2. h[s \ {N}] = g[s \ {N}]
          BY <2>4
        <4>3. h[s] = F[N][g[s \ {N}]]
          BY <3>1
        <4> HIDE DEF h, N
        <4> QED BY <3>1, <4>1, <4>2, <4>3
      <3>2. CASE N \notin s
        <4>1. s \in SUBSET (1..m)
          BY <3>2
        <4>2. h[s] = g[s] /\ \A t \in SUBSET s : t \in SUBSET (1..N) /\ h[t] = g[t]
          BY <3>2
        <4>3. h[s \ {Max(s)}] = g[s \ {Max(s)}]
          <5> HIDE DEF h, N
          <5> QED BY <4>2
        <4> HIDE DEF h, N
        <4> QED BY <2>2, <4>1, <4>2, <4>3
      <3> QED BY <3>1, <3>2
    <2> HIDE DEF h
    <2>7. h \in LargestFirst(S, base, N, F)
      BY <2>5, <2>6 DEF LargestFirst
    <2> QED BY <1>2, <2>7
  <1> HIDE DEF T
  <1>3. \A m \in 0..n : m \in T
    BY <1>1, <1>2, StepsUpTo
  <1> QED BY <1>3 DEF T

\* A function that goes as the folds do.
FoldsTo(S, base, n, F, iter) ==
    /\ iter[{}] = base
    /\ \A s \in SUBSET (1..n) : s # {} /\ iter[s \ {Max(s)}] \in S =>
            iter[s] = F[Max(s)][iter[s \ {Max(s)}]]

ChainsOf(S, base, n, F, last) == {c \in Chains(S, base, n, F) : c[n] = last}

\* It has at 1..n the end of the chain.
LEMMA FoldChain ==
    ASSUME NEW S, NEW base \in S, NEW n \in Nat, NEW F \in [1..n -> [S -> S]], NEW iter,
           FoldsTo(S, base, n, F, iter)
    PROVE  ChainsOf(S, base, n, F, iter[1..n]) # {}
  <1>1. PICK c \in Chains(S, base, n, F) : TRUE
    BY Chain
  <1>2. /\ c \in [0..n -> S] /\ c[0] = base
        /\ \A i \in 1..n : c[i] = F[i][c[i - 1]]
    BY <1>1 DEF Chains
  <1>0. /\ iter[{}] = base
        /\ \A s \in SUBSET (1..n) : s # {} /\ iter[s \ {Max(s)}] \in S =>
                iter[s] = F[Max(s)][iter[s \ {Max(s)}]]
    BY DEF FoldsTo
  <1> DEFINE T == {i \in 0..n : iter[1..i] = c[i]}
  <1>3. 0 \in T
    <2>1. 1..0 = {} /\ 0 \in 0..n
      OBVIOUS
    <2>2. iter[1..0] = c[0]
      BY <1>0, <1>2, <2>1, Zenon
    <2> QED BY <2>1, <2>2
  <1>4. ASSUME NEW i \in 0..n, i \in T, i < n PROVE i + 1 \in T
    <2> DEFINE s == 1..(i + 1)
    <2>1. /\ s \in SUBSET (1..n) /\ s # {} /\ i + 1 \in s /\ i + 1 \in Nat
          /\ s \in SUBSET (1..(i + 1)) /\ s \ {i + 1} = 1..i /\ i + 1 \in 1..n
          /\ (i + 1) - 1 = i
      <3>1. i \in Nat /\ i + 1 <= n
        BY <1>4
      <3>2. \A j \in s : j \in 1..n
        BY <3>1
      <3>3. i + 1 \in s /\ i + 1 \in Nat /\ s \ {i + 1} = 1..i /\ i + 1 \in 1..n
            /\ (i + 1) - 1 = i
        BY <3>1
      <3> QED BY <3>2, <3>3
    <2>2. Max(s) = i + 1
      <3> HIDE DEF s
      <3> QED BY <2>1, MaxIs
    <2>3. iter[1..i] = c[i] /\ c[i] \in S
      BY <1>2, <1>4
    <2>4. iter[s] = F[i + 1][iter[1..i]]
      <3> HIDE DEF s
      <3>1. iter[s \ {Max(s)}] \in S
        BY <2>1, <2>2, <2>3, Zenon
      <3> QED BY <1>0, <2>1, <2>2, <3>1, Zenon
    <2>5. c[i + 1] = F[i + 1][c[i]]
      BY <1>2, <2>1
    <2>6. iter[1..(i + 1)] = c[i + 1]
      BY <2>3, <2>4, <2>5, Zenon
    <2> QED BY <1>4, <2>6
  <1> HIDE DEF T
  <1>5. \A i \in 0..n : i \in T
    BY <1>3, <1>4, StepsUpTo
  <1>6. n \in T
    BY <1>5
  <1> QED BY <1>1, <1>6 DEF T, ChainsOf

-----------------------------------------------------------------------------
(* Sequences *)

LEMMA Typed ==
    ASSUME NEW S, NEW s \in Seq(S)
    PROVE  Len(s) \in Nat /\ DOMAIN s = 1..Len(s) /\ \A i \in 1..Len(s) : s[i] \in S
  OBVIOUS

\* u is s, then t.
Joins(S, s, t, u) ==
    /\ u \in Seq(S) /\ Len(u) = Len(s) + Len(t)
    /\ \A i \in 1..Len(s) : u[i] = s[i]
    /\ \A i \in 1..Len(t) : u[Len(s) + i] = t[i]

LEMMA Concat ==
    ASSUME NEW S, NEW s \in Seq(S), NEW t \in Seq(S)
    PROVE  Joins(S, s, t, s \o t)
  BY DEF Joins

LEMMA Appended ==
    ASSUME NEW S, NEW s \in Seq(S), NEW x \in S
    PROVE  /\ Append(s, x) \in Seq(S) /\ Len(Append(s, x)) = Len(s) + 1
           /\ \A i \in 1..Len(s) : Append(s, x)[i] = s[i]
           /\ Append(s, x)[Len(s) + 1] = x
  OBVIOUS

LEMMA Cut ==
    ASSUME NEW S, NEW s \in Seq(S), NEW p \in 0..Len(s), NEW q \in p..Len(s)
    PROVE  LET d == SubSeq(s, p + 1, q)
           IN  d \in Seq(S) /\ Len(d) = q - p /\ \A i \in 1..(q - p) : d[i] = s[p + i]
  <1> DEFINE d == SubSeq(s, p + 1, q)
  <1>1. p + 1 \in Nat /\ q \in Nat /\ p \in Nat /\ Len(s) \in Nat
    OBVIOUS
  <1>2. d \in Seq(S) /\ Len(d) = q - p
    BY <1>1
  <1>3. \A i \in 1..(q - p) : d[i] = s[p + i]
    BY <1>1
  <1> QED BY <1>2, <1>3

\* Sequences with the same elements are the same.
LEMMA Same ==
    ASSUME NEW S, NEW s \in Seq(S), NEW t \in Seq(S), Len(s) = Len(t),
           \A i \in 1..Len(s) : s[i] = t[i]
    PROVE  s = t
  OBVIOUS

LEMMA OnlyOne ==
    ASSUME NEW S, NEW s \in Seq(S), Len(s) = 1
    PROVE  s = <<s[1]>>
  <1>1. s[1] \in S
    OBVIOUS
  <1>2. <<s[1]>> \in Seq(S) /\ Len(<<s[1]>>) = 1 /\ <<s[1]>>[1] = s[1]
    BY <1>1
  <1>3. \A i \in 1..1 : i = 1
    OBVIOUS
  <1> DEFINE t == <<s[1]>>
  <1>4. t \in Seq(S) /\ Len(t) = Len(s) /\ \A i \in 1..Len(s) : s[i] = t[i]
    BY <1>2, <1>3
  <1> HIDE DEF t
  <1>5. s = t
    BY <1>4, Same
  <1> QED BY <1>5 DEF t

LEMMA Associative ==
    ASSUME NEW S, NEW s \in Seq(S), NEW t \in Seq(S), NEW u \in Seq(S)
    PROVE  (s \o t) \o u = s \o (t \o u)
  OBVIOUS

\* The last element replaced.
LEMMA LastReplaced ==
    ASSUME NEW S, NEW s \in Seq(S), s # <<>>, NEW x \in S
    PROVE  LET d == Front(s) \o <<x>>
           IN  /\ d \in Seq(S) /\ Len(d) = Len(s) /\ d[Len(s)] = x
               /\ \A i \in 1..(Len(s) - 1) : d[i] = s[i]
  <1>1. Len(s) \in Nat /\ Len(s) >= 1 /\ <<x>> \in Seq(S) /\ Len(<<x>>) = 1 /\ <<x>>[1] = x
    OBVIOUS
  <1>2. Front(s) = SubSeq(s, 1, Len(s) - 1)
    BY DEF Front
  <1>3. /\ SubSeq(s, 1, Len(s) - 1) \in Seq(S) /\ Len(SubSeq(s, 1, Len(s) - 1)) = Len(s) - 1
        /\ \A i \in 1..(Len(s) - 1) : SubSeq(s, 1, Len(s) - 1)[i] = s[i]
    <2>1. 0 \in 0..Len(s) /\ Len(s) - 1 \in 0..Len(s) /\ 0 + 1 = 1 /\ (Len(s) - 1) - 0 = Len(s) - 1
          /\ \A i \in 1..(Len(s) - 1) : 0 + i = i
      BY <1>1
    <2> QED BY <2>1, Cut
  <1> DEFINE f == SubSeq(s, 1, Len(s) - 1)
             e == <<x>>
             d == f \o e
  <1>4. Joins(S, f, e, d)
    <2> HIDE DEF f, e
    <2> QED BY <1>1, <1>3, Concat DEF f, e
  <1>5. /\ d \in Seq(S) /\ Len(d) = Len(s) /\ d[Len(s)] = x
        /\ \A i \in 1..(Len(s) - 1) : d[i] = s[i]
    <2> HIDE DEF d, f, e
    <2>1. Len(f) = Len(s) - 1 /\ Len(e) = 1 /\ e[1] = x /\ \A i \in 1..(Len(s) - 1) : f[i] = s[i]
      BY <1>1, <1>3 DEF f, e
    <2> QED BY <1>1, <1>4, <2>1 DEF Joins
  <1> QED BY <1>2, <1>5

LEMMA FrontTyped ==
    ASSUME NEW S, NEW s \in Seq(S), s # <<>>
    PROVE  /\ Front(s) \in Seq(S) /\ Len(Front(s)) = Len(s) - 1
           /\ \A i \in 1..(Len(s) - 1) : Front(s)[i] = s[i]
           /\ Last(s) \in S /\ Last(s) = s[Len(s)]
  <1>1. Len(s) \in Nat /\ Len(s) >= 1
    OBVIOUS
  <1>2. 0 \in 0..Len(s) /\ Len(s) - 1 \in 0..Len(s) /\ 0 + 1 = 1 /\ (Len(s) - 1) - 0 = Len(s) - 1
        /\ \A i \in 1..(Len(s) - 1) : 0 + i = i
    BY <1>1
  <1>3. /\ SubSeq(s, 1, Len(s) - 1) \in Seq(S) /\ Len(SubSeq(s, 1, Len(s) - 1)) = Len(s) - 1
        /\ \A i \in 1..(Len(s) - 1) : SubSeq(s, 1, Len(s) - 1)[i] = s[i]
    BY <1>2, Cut
  <1> QED BY <1>1, <1>3 DEF Front, Last

\* What is put before a sequence leaves its end.
LEMMA FrontAfter ==
    ASSUME NEW S, NEW p \in Seq(S), NEW s \in Seq(S), s # <<>>
    PROVE  /\ p \o s \in Seq(S) /\ p \o s # <<>>
           /\ Last(p \o s) = Last(s) /\ Front(p \o s) = p \o Front(s)
  <1> DEFINE u == p \o s
             m == Len(p)
             n == Len(s)
  <1>1. /\ u \in Seq(S) /\ Len(u) = m + n /\ m \in Nat /\ n \in Nat /\ n >= 1 /\ u # <<>>
        /\ \A i \in 1..m : u[i] = p[i]
        /\ \A i \in 1..n : u[m + i] = s[i]
    <2>1. Joins(S, p, s, u) /\ m \in Nat /\ n \in Nat /\ n >= 1
      BY Concat
    <2> HIDE DEF u
    <2> QED BY <2>1 DEF Joins
  <1> HIDE DEF u
  <1>2. /\ Front(s) \in Seq(S) /\ Len(Front(s)) = n - 1
        /\ \A i \in 1..(n - 1) : Front(s)[i] = s[i]
        /\ Last(s) = s[n]
    BY FrontTyped
  <1>3. /\ Front(u) \in Seq(S) /\ Len(Front(u)) = m + n - 1
        /\ \A i \in 1..(m + n - 1) : Front(u)[i] = u[i]
        /\ Last(u) = u[m + n]
    <2>1. /\ Front(u) \in Seq(S) /\ Len(Front(u)) = Len(u) - 1
          /\ \A i \in 1..(Len(u) - 1) : Front(u)[i] = u[i]
          /\ Last(u) = u[Len(u)]
      BY <1>1, FrontTyped
    <2> QED BY <1>1, <2>1
  <1> DEFINE v == p \o Front(s)
  <1>4. /\ v \in Seq(S) /\ Len(v) = m + (n - 1)
        /\ \A i \in 1..m : v[i] = p[i]
        /\ \A i \in 1..(n - 1) : v[m + i] = s[i]
    <2> DEFINE f == Front(s)
    <2>1. Joins(S, p, f, v)
      <3> HIDE DEF f
      <3> QED BY <1>2, Concat DEF f
    <2> HIDE DEF v
    <2> QED BY <1>2, <2>1 DEF Joins
  <1> HIDE DEF v
  <1>5. ASSUME NEW i \in 1..(m + n - 1) PROVE Front(u)[i] = v[i]
    <2>1. Front(u)[i] = u[i]
      BY <1>3
    <2>2. CASE i <= m
      BY <1>1, <1>4, <2>1, <2>2
    <2>3. CASE i > m
      <3>1. i - m \in 1..(n - 1) /\ i - m \in 1..n /\ m + (i - m) = i
        BY <1>1, <2>3
      <3>2. u[i] = s[i - m] /\ v[i] = s[i - m]
        BY <1>1, <1>4, <3>1
      <3> QED BY <2>1, <3>2
    <2> QED BY <1>1, <2>2, <2>3
  <1>6. Front(u) = v
    BY <1>1, <1>3, <1>4, <1>5, Same
  <1>7. Last(u) = Last(s)
    BY <1>1, <1>2, <1>3
  <1> QED BY <1>1, <1>6, <1>7 DEF u, v

-----------------------------------------------------------------------------
(* Words *)

\* What c separates: names without it.
NamesOf(c) == {w \in Texts : w # <<>> /\ \A i \in 1..Len(w) : w[i] # c}

\* The words so far: only the last may be empty.
Halves(c) ==
    {ws \in Seq(Texts) :
        /\ Len(ws) > 0
        /\ \A i \in 1..Len(ws) :
            /\ i < Len(ws) => ws[i] # <<>>
            /\ \A j \in 1..Len(ws[i]) : ws[i][j] # c}

LEMMA HalvesAre ==
    ASSUME NEW c, NEW ws \in Halves(c)
    PROVE  /\ ws \in Seq(Texts) /\ Len(ws) \in Nat /\ Len(ws) > 0 /\ ws # <<>>
           /\ \A i \in 1..Len(ws) : ws[i] \in Texts
           /\ \A i \in 1..Len(ws) : i < Len(ws) => ws[i] # <<>>
           /\ \A i \in 1..Len(ws) : \A j \in 1..Len(ws[i]) : ws[i][j] # c
           /\ ws[Len(ws)] \in Texts /\ Len(ws[Len(ws)]) \in Nat
  <1>1. /\ ws \in Seq(Texts) /\ Len(ws) > 0
        /\ \A i \in 1..Len(ws) :
                /\ i < Len(ws) => ws[i] # <<>>
                /\ \A j \in 1..Len(ws[i]) : ws[i][j] # c
    BY DEF Halves
  <1>2. Len(ws) \in Nat /\ Len(ws) \in 1..Len(ws) /\ ws # <<>> /\ \A i \in 1..Len(ws) : ws[i] \in Texts
    BY <1>1
  <1>3. Len(ws[Len(ws)]) \in Nat
    <2> DEFINE u == ws[Len(ws)]
    <2>1. u \in Seq(Tokens)
      BY <1>2 DEF Texts
    <2> HIDE DEF u
    <2>2. Len(u) \in Nat
      BY <2>1
    <2> QED BY <2>2 DEF u
  <1> QED BY <1>1, <1>2, <1>3, Zenon

LEMMA PutTyped ==
    ASSUME NEW c
    PROVE  /\ <<Empty>> \in Halves(c)
           /\ \A ws \in Halves(c) : \A t \in Tokens : PutToken(c, ws, t) \in Halves(c)
  <1>0. Empty \in Texts /\ Empty = <<>> /\ Len(Empty) = 0
    BY DEF Empty, Texts
  <1>1. <<Empty>> \in Halves(c)
    BY <1>0 DEF Halves
  <1>2. ASSUME NEW ws \in Halves(c), NEW t \in Tokens PROVE PutToken(c, ws, t) \in Halves(c)
    <2> DEFINE m == Len(ws)
    <2>1. /\ ws \in Seq(Texts) /\ m \in Nat /\ m > 0 /\ ws # <<>>
          /\ \A i \in 1..m : ws[i] \in Texts
          /\ \A i \in 1..m : i < m => ws[i] # <<>>
          /\ \A i \in 1..m : \A j \in 1..Len(ws[i]) : ws[i][j] # c
          /\ ws[m] \in Texts /\ Len(ws[m]) \in Nat
      BY HalvesAre
    <2>2. CASE t # c
      <3> DEFINE old == ws[m]
                 word == Append(old, t)
                 longer == Front(ws) \o <<word>>
      <3>1. /\ word \in Texts /\ Len(word) = Len(old) + 1
            /\ \A j \in 1..Len(old) : word[j] = old[j]
            /\ word[Len(old) + 1] = t
        <4>1. old \in Seq(Tokens)
          BY <2>1 DEF Texts
        <4> HIDE DEF old
        <4> QED BY <4>1, Appended DEF Texts
      <3>2. \A j \in 1..Len(word) : word[j] # c
        <4>1. Len(old) \in Nat /\ \A j \in 1..Len(old) : old[j] # c
          BY <2>1
        <4> HIDE DEF word, old
        <4>2. \A j \in 1..Len(word) : j \in 1..Len(old) \/ j = Len(old) + 1
          BY <3>1, <4>1
        <4> QED BY <2>2, <3>1, <4>1, <4>2
      <3> HIDE DEF word
      <3>3. /\ longer \in Seq(Texts) /\ Len(longer) = m /\ longer[m] = word
            /\ \A i \in 1..(m - 1) : longer[i] = ws[i]
        BY <2>1, <3>1, LastReplaced
      <3> HIDE DEF longer
      <3>4. longer \in Halves(c)
        <4>1. \A i \in 1..m : i = m \/ i \in 1..(m - 1)
          BY <2>1
        <4> QED BY <2>1, <3>2, <3>3, <4>1 DEF Halves
      <3> QED BY <2>2, <3>4 DEF PutToken, longer, word, Last
    <2>3. CASE t = c /\ ws[m] = <<>>
      BY <2>3 DEF PutToken, Last, Empty
    <2>4. CASE t = c /\ ws[m] # <<>>
      <3> DEFINE more == Append(ws, Empty)
      <3>1. /\ more \in Seq(Texts) /\ Len(more) = m + 1
            /\ \A i \in 1..m : more[i] = ws[i]
            /\ more[m + 1] = <<>>
        BY <1>0, <2>1, Appended
      <3> HIDE DEF more
      <3>2. \A i \in 1..(m + 1) : i = m + 1 \/ i \in 1..m
        BY <2>1
      <3>3. \A i \in 1..m : more[i] # <<>> /\ \A j \in 1..Len(more[i]) : more[i][j] # c
        <4>1. \A i \in 1..m : ws[i] # <<>> /\ \A j \in 1..Len(ws[i]) : ws[i][j] # c
          <5> TAKE i \in 1..m
          <5>1. i < m \/ i = m
            BY <2>1
          <5>2. ws[i] # <<>>
            BY <2>1, <2>4, <5>1
          <5> QED BY <2>1, <5>2, Zenon
        <4> QED BY <3>1, <4>1, Zenon
      <3>4. \A j \in 1..Len(more[m + 1]) : more[m + 1][j] # c
        BY <3>1
      <3>5. more \in Halves(c)
        BY <2>1, <3>1, <3>2, <3>3, <3>4 DEF Halves
      <3> QED BY <2>4, <3>5 DEF PutToken, more, Last, Empty
    <2> QED BY <2>2, <2>3, <2>4
  <1> QED BY <1>1, <1>2

\* The words of a text, of which the last may be empty.
Halved(w, b) == FoldLeft(LAMBDA ws, t : PutToken(b, ws, t), <<Empty>>, w)

Putting(b, w) ==
    {c \in [0..Len(w) -> Halves(b)] :
        c[0] = <<Empty>> /\ \A i \in 1..Len(w) : c[i] = PutToken(b, c[i - 1], w[i])}

\* They are what its tokens put together one by one.
LEMMA PutChain ==
    ASSUME NEW b, NEW w \in Texts
    PROVE  \E c \in Putting(b, w) : Halved(w, b) = c[Len(w)]
  <1> DEFINE n == Len(w)
             start == <<Empty>>
             D == Halves(b)
             F == [i \in 1..n |-> [s \in D |-> PutToken(b, s, w[i])]]
             fold == Halved(w, b)
  <1>1. n \in Nat /\ DOMAIN w = 1..n /\ start \in D /\ \A i \in 1..n : w[i] \in Tokens
    <2>1. start \in D
      BY PutTyped
    <2>2. w \in Seq(Tokens)
      BY DEF Texts
    <2> QED BY <2>1, <2>2, Typed
  <1>2. \A i \in 1..n : \A s \in D : PutToken(b, s, w[i]) \in D
    BY <1>1, PutTyped
  <1>3. F \in [1..n -> [D -> D]]
    BY <1>2
  <1>4. \A i \in 1..n : \A s \in D : F[i][s] = PutToken(b, s, w[i])
    OBVIOUS
  <1> DEFINE iter[s \in SUBSET (1..n)] ==
               IF s = {} THEN start
               ELSE LET x == Max(s) IN PutToken(b, iter[s \ {x}], w[x])
  <1>5. fold = iter[1..n]
    BY <1>1 DEF Halved, FoldLeft, MapThenFoldSet
  <1> HIDE DEF F, start, D, n
  <1>6. PICK g \in LargestFirst(D, start, n, F) : TRUE
    BY <1>1, <1>3, SubsetRecursion
  <1>7. /\ g \in [SUBSET (1..n) -> D]
        /\ \A s \in SUBSET (1..n) : g[s] = IF s = {} THEN start ELSE F[Max(s)][g[s \ {Max(s)}]]
    BY <1>6 DEF LargestFirst
  <1>8. ASSUME NEW s \in SUBSET (1..n)
        PROVE  g[s] = IF s = {} THEN start ELSE PutToken(b, g[s \ {Max(s)}], w[Max(s)])
    <2>1. CASE s = {}
      BY <1>7, <2>1
    <2>2. CASE s # {}
      <3>1. Max(s) \in 1..n
        BY <1>1, <2>2, MaxIn
      <3>2. g[s \ {Max(s)}] \in D
        BY <1>7
      <3>3. g[s] = F[Max(s)][g[s \ {Max(s)}]]
        BY <1>7, <2>2, Zenon
      <3> QED BY <1>4, <2>2, <3>1, <3>2, <3>3, Zenon
    <2> QED BY <2>1, <2>2
  <1>9. g = [s \in SUBSET (1..n) |->
                IF s = {} THEN start ELSE PutToken(b, g[s \ {Max(s)}], w[Max(s)])]
    BY <1>7, <1>8, Zenon
  <1>10. iter = [s \in SUBSET (1..n) |->
                    IF s = {} THEN start ELSE PutToken(b, iter[s \ {Max(s)}], w[Max(s)])]
    BY <1>9 DEF iter
  <1> HIDE DEF iter
  <1>11. iter[{}] = start
    BY <1>10, Zenon
  <1>12. ASSUME NEW s \in SUBSET (1..n), s # {}, iter[s \ {Max(s)}] \in D
         PROVE  iter[s] = F[Max(s)][iter[s \ {Max(s)}]]
    <2>1. Max(s) \in 1..n
      BY <1>1, <1>12, MaxIn
    <2>2. iter[s] = PutToken(b, iter[s \ {Max(s)}], w[Max(s)])
      BY <1>10, <1>12, Zenon
    <2> QED BY <1>4, <1>12, <2>1, <2>2, Zenon
  <1>13. PICK c \in Chains(D, start, n, F) : iter[1..n] = c[n]
    <2>1. FoldsTo(D, start, n, F, iter)
      BY <1>11, <1>12 DEF FoldsTo
    <2>2. ChainsOf(D, start, n, F, iter[1..n]) # {}
      BY <1>1, <1>3, <2>1, FoldChain
    <2> QED BY <2>2 DEF ChainsOf
  <1>14. c \in [0..n -> D] /\ c[0] = start /\ \A i \in 1..n : c[i] = F[i][c[i - 1]]
    BY <1>13 DEF Chains
  <1>15. ASSUME NEW i \in 1..n PROVE c[i] = PutToken(b, c[i - 1], w[i])
    <2>1. c[i - 1] \in D
      BY <1>1, <1>14
    <2> QED BY <1>4, <1>14, <2>1, Zenon
  <1> HIDE DEF fold
  <1>16. c \in Putting(b, w)
    BY <1>14, <1>15, Zenon DEF Putting, D, n, start
  <1> QED BY <1>5, <1>13, <1>16, Zenon DEF fold, start, n

\* Its words without the last when that is empty.
Done(ws) == IF Last(ws) = Empty THEN Front(ws) ELSE ws

LEMMA SplitIs == ASSUME NEW w, NEW b PROVE Split(w, b) = Done(Halved(w, b))
  BY DEF Split, Done, Halved

LEMMA DoneTyped ==
    ASSUME NEW b, NEW ws \in Halves(b)
    PROVE  Done(ws) \in Seq(NamesOf(b))
  <1> DEFINE m == Len(ws)
  <1>1. /\ ws \in Seq(Texts) /\ m \in Nat /\ m > 0 /\ ws # <<>>
        /\ \A i \in 1..m : ws[i] \in Texts
        /\ \A i \in 1..m : i < m => ws[i] # <<>>
        /\ \A i \in 1..m : \A j \in 1..Len(ws[i]) : ws[i][j] # b
    BY HalvesAre
  <1>2. CASE ws[m] = <<>>
    <2> DEFINE d == SubSeq(ws, 1, m - 1)
    <2>1. d \in Seq(Texts) /\ Len(d) = m - 1 /\ \A i \in 1..(m - 1) : d[i] = ws[i]
      <3>1. 0 \in 0..m /\ m - 1 \in 0..m /\ 0 + 1 = 1 /\ (m - 1) - 0 = m - 1
            /\ \A i \in 1..(m - 1) : 0 + i = i
        BY <1>1
      <3> QED BY <1>1, <3>1, Cut
    <2> HIDE DEF d
    <2>2. \A i \in 1..(m - 1) : i \in 1..m /\ i < m
      BY <1>1
    <2>3. \A i \in 1..Len(d) : d[i] \in NamesOf(b)
      <3> TAKE i \in 1..Len(d)
      <3>1. i \in 1..(m - 1) /\ i \in 1..m /\ i < m /\ d[i] = ws[i]
        BY <2>1, <2>2
      <3> QED BY <1>1, <3>1, Zenon DEF NamesOf
    <2>4. d \in Seq(NamesOf(b))
      BY <2>1, <2>3
    <2> QED BY <1>2, <2>4 DEF Done, Last, Front, Empty, d
  <1>3. CASE ws[m] # <<>>
    <2>1. \A i \in 1..m : ws[i] \in NamesOf(b)
      <3> TAKE i \in 1..m
      <3>1. i < m \/ i = m
        BY <1>1
      <3>2. ws[i] # <<>>
        BY <1>1, <1>3, <3>1
      <3> QED BY <1>1, <3>2, Zenon DEF NamesOf
    <2>2. ws \in Seq(NamesOf(b))
      BY <1>1, <2>1
    <2> QED BY <1>3, <2>2 DEF Done, Last, Empty
  <1> QED BY <1>2, <1>3

LEMMA HalvedTyped ==
    ASSUME NEW b, NEW w \in Texts
    PROVE  Halved(w, b) \in Halves(b)
  <1>1. PICK c \in Putting(b, w) : Halved(w, b) = c[Len(w)]
    BY PutChain
  <1>2. c \in [0..Len(w) -> Halves(b)] /\ Len(w) \in 0..Len(w)
    BY <1>1 DEF Putting
  <1> QED BY <1>1, <1>2

\* What Split returns are names.
LEMMA SplitTyped ==
    ASSUME NEW b, NEW w \in Texts
    PROVE  Split(w, b) \in Seq(NamesOf(b))
  BY SplitIs, DoneTyped, HalvedTyped

LEMMA PutAfter ==
    ASSUME NEW b, NEW p \in Seq(Texts), NEW ws \in Halves(b), NEW t \in Tokens
    PROVE  PutToken(b, p \o ws, t) = p \o PutToken(b, ws, t)
  <1>1. ws \in Seq(Texts) /\ ws # <<>> /\ Empty \in Texts
    BY DEF Halves, Empty, Texts
  <1>2. Last(p \o ws) = Last(ws) /\ Front(p \o ws) = p \o Front(ws) /\ p \o ws \in Seq(Texts)
    BY <1>1, FrontAfter
  <1>3. CASE t # b
    <2> DEFINE word == <<Append(Last(ws), t)>>
    <2>1. Front(ws) \in Seq(Texts) /\ word \in Seq(Texts)
      <3>1. Front(ws) \in Seq(Texts) /\ Last(ws) \in Texts
        BY <1>1, FrontTyped
      <3>2. Append(Last(ws), t) \in Texts
        BY <3>1, Appended DEF Texts
      <3>3. \A x \in Texts : <<x>> \in Seq(Texts)
        OBVIOUS
      <3> QED BY <3>1, <3>2, <3>3
    <2>2. (p \o Front(ws)) \o word = p \o (Front(ws) \o word)
      <3> HIDE DEF word
      <3> QED BY <2>1, Associative
    <2> QED BY <1>2, <1>3, <2>2 DEF PutToken
  <1>4. CASE t = b /\ Last(ws) = Empty
    BY <1>2, <1>4 DEF PutToken
  <1>5. CASE t = b /\ Last(ws) # Empty
    <2>1. \A q \in Seq(Texts) : Append(q, Empty) = q \o <<Empty>>
      BY <1>1
    <2>2. <<Empty>> \in Seq(Texts)
      BY <1>1
    <2>3. (p \o ws) \o <<Empty>> = p \o (ws \o <<Empty>>)
      BY <1>1, <2>2, Associative
    <2>4. Append(p \o ws, Empty) = p \o Append(ws, Empty)
      BY <1>1, <1>2, <2>1, <2>3, Zenon
    <2> QED BY <1>2, <1>5, <2>4 DEF PutToken
  <1> QED BY <1>3, <1>4, <1>5

LEMMA DoneAfter ==
    ASSUME NEW b, NEW p \in Seq(Texts), NEW ws \in Halves(b)
    PROVE  Done(p \o ws) = p \o Done(ws)
  <1>1. ws \in Seq(Texts) /\ ws # <<>>
    BY DEF Halves
  <1>2. Last(p \o ws) = Last(ws) /\ Front(p \o ws) = p \o Front(ws)
    BY <1>1, FrontAfter
  <1> QED BY <1>2 DEF Done

\* What separates ends a word.
LEMMA PutEnd ==
    ASSUME NEW b, NEW ws \in Halves(b)
    PROVE  PutToken(b, ws, b) = Done(ws) \o <<Empty>>
  <1>1. ws \in Seq(Texts) /\ ws # <<>> /\ Empty \in Texts
    BY DEF Halves, Empty, Texts
  <1>2. CASE Last(ws) = Empty
    <2>1. ws = Front(ws) \o <<Last(ws)>>
      <3> DEFINE d == Front(ws) \o <<Last(ws)>>
      <3>1. Last(ws) \in Texts /\ Last(ws) = ws[Len(ws)] /\ Len(ws) \in Nat /\ Len(ws) >= 1
        BY <1>1, FrontTyped
      <3>2. /\ d \in Seq(Texts) /\ Len(d) = Len(ws) /\ d[Len(ws)] = Last(ws)
            /\ \A i \in 1..(Len(ws) - 1) : d[i] = ws[i]
        BY <1>1, <3>1, LastReplaced
      <3> HIDE DEF d
      <3>3. \A i \in 1..Len(ws) : i = Len(ws) \/ i \in 1..(Len(ws) - 1)
        BY <3>1
      <3>4. \A i \in 1..Len(ws) : ws[i] = d[i]
        BY <3>1, <3>2, <3>3
      <3>5. ws = d
        BY <1>1, <3>2, <3>4, Same
      <3> QED BY <3>5 DEF d
    <2> QED BY <1>2, <2>1 DEF PutToken, Done
  <1>3. CASE Last(ws) # Empty
    <2>1. Append(ws, Empty) = ws \o <<Empty>>
      BY <1>1
    <2> QED BY <1>3, <2>1 DEF PutToken, Done
  <1> QED BY <1>2, <1>3

\* A separator in a text separates the words of what is before it from
\* those of what is after it.
THEOREM SplitConcat ==
    ASSUME NEW b \in Tokens, NEW v \in Texts, NEW w \in Texts
    PROVE  /\ (v \o <<b>>) \o w \in Texts
           /\ Split((v \o <<b>>) \o w, b) = Split(v, b) \o Split(w, b)
  <1> DEFINE h == v \o <<b>>
             x == h \o w
             m == Len(v)
             n == Len(w)
  <1>1. /\ h \in Seq(Tokens) /\ Len(h) = m + 1 /\ h[m + 1] = b
        /\ \A i \in 1..m : h[i] = v[i]
        /\ m \in Nat /\ n \in Nat
    <2> DEFINE e == <<b>>
    <2>1. e \in Seq(Tokens) /\ Len(e) = 1 /\ e[1] = b /\ v \in Seq(Tokens) /\ w \in Seq(Tokens)
      BY DEF Texts
    <2>2. m \in Nat /\ n \in Nat
      BY <2>1
    <2>3. Joins(Tokens, v, e, h)
      <3> HIDE DEF e
      <3> QED BY <2>1, Concat DEF e
    <2> HIDE DEF h, e
    <2> QED BY <2>1, <2>2, <2>3 DEF Joins
  <1> HIDE DEF h
  <1>2. /\ x \in Seq(Tokens) /\ Len(x) = m + 1 + n /\ x[m + 1] = b
        /\ \A i \in 1..m : x[i] = v[i]
        /\ \A i \in 1..n : x[m + 1 + i] = w[i]
    <2>1. Joins(Tokens, h, w, x)
      BY <1>1, Concat DEF Texts
    <2> HIDE DEF x
    <2> QED BY <1>1, <2>1 DEF Joins
  <1>0. m \in 0..m /\ 0 \in 0..m /\ n \in 0..n /\ 0 \in 0..n /\ x \in Texts
    BY <1>1, <1>2 DEF Texts
  <1> HIDE DEF x
  <1>3. PICK cv \in Putting(b, v) : Halved(v, b) = cv[m]
    BY PutChain
  <1>4. PICK cw \in Putting(b, w) : Halved(w, b) = cw[n]
    BY PutChain
  <1>5. PICK cx \in Putting(b, x) : Halved(x, b) = cx[Len(x)]
    BY <1>0, PutChain
  <1>6. /\ cv \in [0..m -> Halves(b)] /\ cv[0] = <<Empty>>
        /\ \A i \in 1..m : cv[i] = PutToken(b, cv[i - 1], v[i])
    BY <1>3 DEF Putting
  <1>7. /\ cw \in [0..n -> Halves(b)] /\ cw[0] = <<Empty>>
        /\ \A i \in 1..n : cw[i] = PutToken(b, cw[i - 1], w[i])
    BY <1>4 DEF Putting
  <1>8. /\ cx \in [0..(m + 1 + n) -> Halves(b)] /\ cx[0] = <<Empty>>
        /\ \A i \in 1..(m + 1 + n) : cx[i] = PutToken(b, cx[i - 1], x[i])
    BY <1>2, <1>5, Zenon DEF Putting
  <1> HIDE DEF m, n
  <1> DEFINE P == Done(cv[m])
             T == {i \in 0..m : cx[i] = cv[i]}
             U == {i \in 0..n : cx[m + 1 + i] = P \o cw[i]}
  <1>9. cx[m] = cv[m]
    <2>1. 0 \in T
      <3>1. 0 \in 0..(m + 1 + n)
        BY <1>1
      <3> QED BY <1>0, <1>6, <1>8, <3>1
    <2>2. ASSUME NEW i \in 0..m, i \in T, i < m PROVE i + 1 \in T
      <3>1. i + 1 \in 1..m /\ i + 1 \in 1..(m + 1 + n) /\ (i + 1) - 1 = i /\ i + 1 \in 0..m
        BY <1>1, <2>2
      <3>2. cx[i] = cv[i]
        BY <2>2
      <3>3. cx[i + 1] = PutToken(b, cx[i], x[i + 1]) /\ x[i + 1] = v[i + 1]
        BY <1>2, <1>8, <3>1
      <3>4. cv[i + 1] = PutToken(b, cv[i], v[i + 1])
        BY <1>6, <3>1
      <3>5. cx[i + 1] = cv[i + 1]
        BY <3>2, <3>3, <3>4, Zenon
      <3> QED BY <3>1, <3>5
    <2> HIDE DEF T
    <2>3. \A i \in 0..m : i \in T
      BY <1>1, <2>1, <2>2, StepsUpTo
    <2>4. m \in T
      BY <1>1, <2>3
    <2> QED BY <2>4 DEF T
  <1>10. P \in Seq(Texts)
    <2>1. cv[m] \in Halves(b)
      BY <1>0, <1>6
    <2>2. P \in Seq(NamesOf(b))
      BY <2>1, DoneTyped
    <2>3. NamesOf(b) \subseteq Texts
      BY DEF NamesOf
    <2> HIDE DEF P
    <2> QED BY <2>2, <2>3
  <1>11. cx[m + 1] = P \o <<Empty>>
    <2>1. m + 1 \in 1..(m + 1 + n) /\ (m + 1) - 1 = m
      BY <1>1
    <2>2. cx[m + 1] = PutToken(b, cx[m], x[m + 1])
      BY <1>8, <2>1
    <2>3. cv[m] \in Halves(b)
      BY <1>0, <1>6
    <2>4. PutToken(b, cv[m], b) = P \o <<Empty>>
      BY <2>3, PutEnd
    <2> HIDE DEF P
    <2> QED BY <1>2, <1>9, <2>2, <2>4, Zenon
  <1> HIDE DEF P
  <1>12. cx[m + 1 + n] = P \o cw[n]
    <2>1. 0 \in U
      <3>1. m + 1 + 0 = m + 1
        BY <1>1
      <3> QED BY <1>0, <1>7, <1>11, <3>1
    <2>2. ASSUME NEW i \in 0..n, i \in U, i < n PROVE i + 1 \in U
      <3>1. /\ i + 1 \in 1..n /\ m + 1 + (i + 1) \in 1..(m + 1 + n) /\ (i + 1) - 1 = i
            /\ (m + 1 + (i + 1)) - 1 = m + 1 + i /\ i + 1 \in 0..n
        BY <1>1, <2>2
      <3>2. cx[m + 1 + i] = P \o cw[i] /\ cw[i] \in Halves(b)
        BY <1>7, <2>2
      <3>3. cx[m + 1 + (i + 1)] = PutToken(b, cx[m + 1 + i], x[m + 1 + (i + 1)])
        BY <1>8, <3>1
      <3>4. x[m + 1 + (i + 1)] = w[i + 1] /\ w[i + 1] \in Tokens
        BY <1>2, <3>1
      <3>5. cw[i + 1] = PutToken(b, cw[i], w[i + 1])
        BY <1>7, <3>1
      <3>6. PutToken(b, P \o cw[i], w[i + 1]) = P \o PutToken(b, cw[i], w[i + 1])
        BY <1>10, <3>2, <3>4, PutAfter
      <3>7. cx[m + 1 + (i + 1)] = P \o cw[i + 1]
        BY <3>2, <3>3, <3>4, <3>5, <3>6, Zenon
      <3> QED BY <3>1, <3>7
    <2> HIDE DEF U
    <2>3. \A i \in 0..n : i \in U
      BY <1>1, <2>1, <2>2, StepsUpTo
    <2>4. n \in U
      BY <1>1, <2>3
    <2> QED BY <2>4 DEF U
  <1>13. Split(x, b) = Done(P \o cw[n])
    BY <1>2, <1>5, <1>12, SplitIs
  <1>14. Done(P \o cw[n]) = P \o Done(cw[n])
    <2>1. cw[n] \in Halves(b)
      BY <1>0, <1>7
    <2> QED BY <1>10, <2>1, DoneAfter
  <1>15. Split(v, b) = P /\ Split(w, b) = Done(cw[n])
    BY <1>3, <1>4, SplitIs DEF P
  <1>16. Split(x, b) = Split(v, b) \o Split(w, b)
    BY <1>13, <1>14, <1>15, Zenon
  <1> QED BY <1>0, <1>16 DEF x, h

\* No text has no words.
LEMMA SplitEmpty == ASSUME NEW b PROVE Split(Empty, b) = <<>>
  <1>1. Empty \in Texts /\ Len(Empty) = 0
    BY DEF Empty, Texts
  <1>2. PICK c \in Putting(b, Empty) : Halved(Empty, b) = c[Len(Empty)]
    BY <1>1, PutChain
  <1>3. Halved(Empty, b) = <<Empty>>
    BY <1>1, <1>2 DEF Putting
  <1>4. Done(<<Empty>>) = <<>>
    BY DEF Done, Last, Front
  <1> QED BY <1>3, <1>4, SplitIs

\* A name is its only word.
LEMMA SplitOne ==
    ASSUME NEW b, NEW w \in NamesOf(b)
    PROVE  Split(w, b) = <<w>>
  <1> DEFINE n == Len(w)
  <1>1. w \in Texts /\ w # <<>> /\ \A i \in 1..n : w[i] # b
    BY DEF NamesOf
  <1>2. w \in Seq(Tokens) /\ n \in Nat /\ n > 0 /\ DOMAIN w = 1..n /\ \A i \in 1..n : w[i] \in Tokens
    BY <1>1 DEF Texts
  <1>3. PICK c \in Putting(b, w) : Halved(w, b) = c[n]
    BY <1>1, PutChain
  <1>4. /\ c \in [0..n -> Halves(b)] /\ c[0] = <<Empty>>
        /\ \A i \in 1..n : c[i] = PutToken(b, c[i - 1], w[i])
    BY <1>3 DEF Putting
  <1> DEFINE cut(i) == SubSeq(w, 1, i)
             T == {i \in 0..n : c[i] = <<cut(i)>>}
  <1>5. \A i \in 0..n : cut(i) \in Seq(Tokens) /\ Len(cut(i)) = i /\ \A j \in 1..i : cut(i)[j] = w[j]
    <2> TAKE i \in 0..n
    <2>1. 0 \in 0..n /\ i \in 0..n /\ 0 + 1 = 1 /\ i - 0 = i /\ \A j \in 1..i : 0 + j = j
      BY <1>2
    <2> QED BY <1>2, <2>1, Cut
  <1>6. cut(0) = Empty
    BY <1>2, <1>5 DEF Empty
  <1>7. cut(n) = w
    <2>1. n \in 0..n
      BY <1>2
    <2>2. cut(n) \in Seq(Tokens) /\ Len(cut(n)) = n /\ \A j \in 1..n : cut(n)[j] = w[j]
      BY <1>5, <2>1
    <2> HIDE DEF cut
    <2> QED BY <1>2, <2>2, Same
  <1>8. ASSUME NEW i \in 0..n, i < n PROVE Append(cut(i), w[i + 1]) = cut(i + 1)
    <2> DEFINE u == Append(cut(i), w[i + 1])
    <2>1. i + 1 \in 0..n /\ i + 1 \in 1..n /\ i \in Nat /\ i \in 0..n
      BY <1>2, <1>8
    <2>2. cut(i + 1) \in Seq(Tokens) /\ Len(cut(i + 1)) = i + 1 /\ \A j \in 1..(i + 1) : cut(i + 1)[j] = w[j]
      BY <1>5, <2>1
    <2>3. cut(i) \in Seq(Tokens) /\ Len(cut(i)) = i /\ \A j \in 1..i : cut(i)[j] = w[j]
      BY <1>5, <2>1
    <2> HIDE DEF cut
    <2>4. u \in Seq(Tokens) /\ Len(u) = i + 1 /\ (\A j \in 1..i : u[j] = w[j]) /\ u[i + 1] = w[i + 1]
      <3>1. w[i + 1] \in Tokens
        BY <1>2, <2>1
      <3>2. /\ u \in Seq(Tokens) /\ Len(u) = Len(cut(i)) + 1
            /\ \A j \in 1..Len(cut(i)) : u[j] = cut(i)[j]
            /\ u[Len(cut(i)) + 1] = w[i + 1]
        BY <2>3, <3>1, Appended
      <3> HIDE DEF u
      <3> QED BY <2>3, <3>2
    <2> HIDE DEF u
    <2>5. \A j \in 1..(i + 1) : u[j] = cut(i + 1)[j]
      <3>1. \A j \in 1..(i + 1) : j \in 1..i \/ j = i + 1
        BY <2>1
      <3>2. \A j \in 1..(i + 1) : u[j] = w[j]
        BY <2>4, <3>1
      <3> QED BY <2>2, <3>2
    <2>6. u = cut(i + 1)
      BY <2>2, <2>4, <2>5, Same
    <2> QED BY <2>6 DEF u
  <1> HIDE DEF cut
  <1>9. 0 \in T
    BY <1>2, <1>4, <1>6
  <1>10. ASSUME NEW i \in 0..n, i \in T, i < n PROVE i + 1 \in T
    <2>1. i + 1 \in 0..n /\ i + 1 \in 1..n /\ (i + 1) - 1 = i
      BY <1>2, <1>10
    <2>2. c[i] = <<cut(i)>>
      BY <1>10
    <2>3. c[i + 1] = PutToken(b, <<cut(i)>>, w[i + 1]) /\ w[i + 1] # b
      BY <1>1, <1>4, <2>1, <2>2
    <2>4. PutToken(b, <<cut(i)>>, w[i + 1]) = <<Append(cut(i), w[i + 1])>>
      <3>1. \A x : Last(<<x>>) = x
        BY DEF Last
      <3>2. \A x : Front(<<x>>) = <<>>
        BY DEF Front
      <3>3. \A x : <<>> \o <<x>> = <<x>>
        OBVIOUS
      <3> QED BY <2>3, <3>1, <3>2, <3>3 DEF PutToken
    <2>5. c[i + 1] = <<cut(i + 1)>>
      BY <1>8, <1>10, <2>3, <2>4
    <2> QED BY <2>1, <2>5
  <1> HIDE DEF T
  <1>11. \A i \in 0..n : i \in T
    BY <1>2, <1>9, <1>10, StepsUpTo
  <1>12. c[n] = <<w>>
    <2>1. n \in T
      BY <1>2, <1>11
    <2> QED BY <1>7, <2>1 DEF T
  <1>13. Done(<<w>>) = <<w>>
    BY <1>1 DEF Done, Last, Empty
  <1> QED BY <1>3, <1>12, <1>13, SplitIs

\* What a text begins with, its first word does.
Leads(ws, x) == ws[1] # <<>> /\ ws[1][1] = x

LEMMA PutLeads ==
    ASSUME NEW b, NEW ws \in Halves(b), NEW t \in Tokens, NEW x, Leads(ws, x)
    PROVE  Leads(PutToken(b, ws, t), x)
  <1> DEFINE m == Len(ws)
             old == ws[m]
             word == Append(old, t)
  <1>1. ws \in Seq(Texts) /\ m \in Nat /\ m > 0 /\ ws # <<>> /\ 1 \in 1..m /\ ws[1] # <<>> /\ ws[1][1] = x
        /\ old \in Seq(Tokens)
    BY HalvesAre DEF Leads, Texts
  <1>2. /\ word \in Texts /\ Len(word) = Len(old) + 1 /\ \A j \in 1..Len(old) : word[j] = old[j]
    <2> HIDE DEF old
    <2> QED BY <1>1, Appended DEF Texts
  <1>3. CASE t # b
    <2> DEFINE longer == Front(ws) \o <<word>>
    <2> HIDE DEF word
    <2>1. /\ longer[m] = word /\ \A i \in 1..(m - 1) : longer[i] = ws[i]
      BY <1>1, <1>2, LastReplaced
    <2> HIDE DEF longer
    <2>2. CASE m = 1
      <3>1. old = ws[1]
        BY <2>2
      <3> HIDE DEF old, m
      <3>2. Len(old) \in Nat /\ Len(old) > 0 /\ 1 \in 1..Len(old)
        BY <1>1, <3>1
      <3>3. longer[1] = word /\ word # <<>> /\ word[1] = x
        <4>1. word[1] = old[1]
          BY <1>2, <3>2
        <4>2. Len(word) > 0
          BY <1>2, <3>2
        <4>3. Len(<<>>) = 0
          OBVIOUS
        <4> QED BY <1>1, <2>1, <2>2, <3>1, <4>1, <4>2, <4>3
      <3>4. Leads(longer, x)
        BY <3>3 DEF Leads
      <3> QED BY <1>3, <3>4 DEF PutToken, Last, longer, word, old, m
    <2>3. CASE m > 1
      <3>1. 1 \in 1..(m - 1)
        BY <1>1, <2>3
      <3>2. Leads(longer, x)
        BY <1>1, <2>1, <3>1 DEF Leads
      <3> QED BY <1>3, <3>2 DEF PutToken, Last, longer, word
    <2>4. m = 1 \/ m > 1
      <3>1. m \in Nat /\ m > 0
        BY <1>1
      <3> HIDE DEF m
      <3> QED BY <3>1
    <2> QED BY <2>2, <2>3, <2>4
  <1>4. CASE t = b /\ Last(ws) = Empty
    BY <1>4 DEF PutToken
  <1>5. CASE t = b /\ Last(ws) # Empty
    <2>1. Append(ws, Empty)[1] = ws[1]
      BY <1>1 DEF Empty, Texts
    <2> QED BY <1>1, <1>5, <2>1 DEF PutToken, Leads
  <1> QED BY <1>3, <1>4, <1>5

LEMMA SplitLeads ==
    ASSUME NEW b, NEW w \in Texts, w # <<>>, w[1] # b
    PROVE  Split(w, b) # <<>> /\ Leads(Split(w, b), w[1])
  <1> DEFINE n == Len(w)
             x == w[1]
  <1>1. w \in Seq(Tokens) /\ n \in Nat /\ n > 0 /\ DOMAIN w = 1..n /\ \A i \in 1..n : w[i] \in Tokens
    BY DEF Texts
  <1>2. PICK c \in Putting(b, w) : Halved(w, b) = c[n]
    BY PutChain
  <1>3. /\ c \in [0..n -> Halves(b)] /\ c[0] = <<Empty>>
        /\ \A i \in 1..n : c[i] = PutToken(b, c[i - 1], w[i])
    BY <1>2 DEF Putting
  <1> DEFINE T == {i \in 0..n : i = 0 \/ Leads(c[i], x)}
  <1>4. 0 \in T
    BY <1>1
  <1>5. ASSUME NEW i \in 0..n, i \in T, i < n PROVE i + 1 \in T
    <2>1. i + 1 \in 0..n /\ i + 1 \in 1..n /\ (i + 1) - 1 = i
      BY <1>1, <1>5
    <2>2. c[i + 1] = PutToken(b, c[i], w[i + 1]) /\ w[i + 1] \in Tokens /\ c[i] \in Halves(b)
      BY <1>1, <1>3, <2>1
    <2>3. CASE i = 0
      <3>1. c[i + 1] = PutToken(b, <<Empty>>, x)
        <4>1. i + 1 = 1 /\ c[i] = <<Empty>>
          BY <1>3, <2>3
        <4> QED BY <2>2, <4>1
      <3>2. PutToken(b, <<Empty>>, x) = <<(<<x>>)>>
        <4>1. \A y : Last(<<y>>) = y
          BY DEF Last
        <4>2. \A y : Front(<<y>>) = <<>>
          BY DEF Front
        <4>3. (\A y : <<>> \o <<y>> = <<y>>) /\ Append(Empty, x) = <<x>>
          BY DEF Empty
        <4> QED BY <4>1, <4>2, <4>3 DEF PutToken
      <3>3. Leads(<<(<<x>>)>>, x)
        BY DEF Leads
      <3> QED BY <2>1, <3>1, <3>2, <3>3
    <2>4. CASE i # 0
      <3>1. Leads(c[i], x)
        BY <1>5, <2>4
      <3>2. Leads(c[i + 1], x)
        BY <2>2, <3>1, PutLeads
      <3> QED BY <2>1, <3>2
    <2> QED BY <2>3, <2>4
  <1> HIDE DEF T
  <1>6. \A i \in 0..n : i \in T
    BY <1>1, <1>4, <1>5, StepsUpTo
  <1>7. Leads(c[n], x) /\ c[n] \in Halves(b)
    <2>1. n \in 0..n /\ n # 0
      BY <1>1
    <2>2. n \in T
      BY <1>6, <2>1
    <2> QED BY <1>3, <2>1, <2>2 DEF T
  <1> DEFINE ws == c[n]
             m == Len(ws)
  <1>8. ws \in Seq(Texts) /\ m \in Nat /\ m > 0 /\ ws # <<>>
    BY <1>7, HalvesAre
  <1> HIDE DEF ws
  <1>9. Done(ws) # <<>> /\ Leads(Done(ws), x)
    <2>1. CASE Last(ws) = Empty
      <3>1. m > 1
        <4>1. m = 1 => Last(ws) = ws[1]
          BY DEF Last
        <4>2. ws[1] # Empty
          BY <1>7 DEF Leads, Empty, ws
        <4>3. m # 1
          BY <2>1, <4>1, <4>2
        <4> HIDE DEF m
        <4> QED BY <1>8, <4>3
      <3>2. Len(Front(ws)) = m - 1 /\ Front(ws)[1] = ws[1]
        <4>1. 1 \in 1..(m - 1)
          BY <1>8, <3>1
        <4> QED BY <1>8, <4>1, FrontTyped
      <3>3. Len(<<>>) = 0 /\ m - 1 > 0
        BY <1>8, <3>1
      <3>4. Front(ws) # <<>>
        BY <3>2, <3>3
      <3> QED BY <1>7, <2>1, <3>2, <3>4 DEF Done, Leads, ws
    <2>2. CASE Last(ws) # Empty
      BY <1>7, <1>8, <2>2 DEF Done, ws
    <2> QED BY <2>1, <2>2
  <1> QED BY <1>2, <1>9, SplitIs DEF ws

-----------------------------------------------------------------------------
(* Paths *)

\* The names of a path.
PathNames == NamesOf("/")

LEMMA JoinTyped ==
    /\ Empty \in Texts
    /\ \A p \in Texts : \A leaf \in PathNames : Join(p, leaf) \in Texts
  <1>1. "/" \in Tokens
    BY AtfProgramAssumption
  <1>2. ASSUME NEW p \in Texts, NEW leaf \in PathNames PROVE Join(p, leaf) \in Texts
    <2>1. leaf \in Texts
      BY DEF PathNames, NamesOf
    <2>2. \A s, t \in Texts : s \o t \in Texts
      BY DEF Texts
    <2>3. <<"/">> \in Texts
      BY <1>1 DEF Texts
    <2>4. (p \o <<"/">>) \o leaf \in Texts
      BY <2>1, <2>2, <2>3
    <2> QED BY <2>1, <2>4 DEF Join
  <1> QED BY <1>2 DEF Empty, Texts

\* The names put together again.
Joined(ns) == FoldLeft(Join, Empty, ns)

Joining(ns) ==
    {c \in [0..Len(ns) -> Texts] :
        c[0] = Empty /\ \A i \in 1..Len(ns) : c[i] = Join(c[i - 1], ns[i])}

\* One name after the other.
LEMMA JoinChain ==
    ASSUME NEW ns \in Seq(PathNames)
    PROVE  \E c \in Joining(ns) : Joined(ns) = c[Len(ns)]
  <1> DEFINE n == Len(ns)
             start == Empty
             D == Texts
             F == [i \in 1..n |-> [s \in D |-> Join(s, ns[i])]]
             fold == Joined(ns)
  <1>1. n \in Nat /\ DOMAIN ns = 1..n /\ start \in D /\ \A i \in 1..n : ns[i] \in PathNames
    <2>1. start \in D
      BY JoinTyped
    <2>2. ns \in Seq(PathNames)
      BY DEF Texts, Maps
    <2> QED BY <2>1, <2>2, Typed
  <1>2. \A i \in 1..n : \A s \in D : Join(s, ns[i]) \in D
    BY <1>1, JoinTyped
  <1>3. F \in [1..n -> [D -> D]]
    BY <1>2
  <1>4. \A i \in 1..n : \A s \in D : F[i][s] = Join(s, ns[i])
    OBVIOUS
  <1> DEFINE iter[s \in SUBSET (1..n)] ==
               IF s = {} THEN start
               ELSE LET x == Max(s) IN Join(iter[s \ {x}], ns[x])
  <1>5. fold = iter[1..n]
    BY <1>1 DEF Joined, FoldLeft, MapThenFoldSet
  <1> HIDE DEF F, start, D, n
  <1>6. PICK g \in LargestFirst(D, start, n, F) : TRUE
    BY <1>1, <1>3, SubsetRecursion
  <1>7. /\ g \in [SUBSET (1..n) -> D]
        /\ \A s \in SUBSET (1..n) : g[s] = IF s = {} THEN start ELSE F[Max(s)][g[s \ {Max(s)}]]
    BY <1>6 DEF LargestFirst
  <1>8. ASSUME NEW s \in SUBSET (1..n)
        PROVE  g[s] = IF s = {} THEN start ELSE Join(g[s \ {Max(s)}], ns[Max(s)])
    <2>1. CASE s = {}
      BY <1>7, <2>1
    <2>2. CASE s # {}
      <3>1. Max(s) \in 1..n
        BY <1>1, <2>2, MaxIn
      <3>2. g[s \ {Max(s)}] \in D
        BY <1>7
      <3>3. g[s] = F[Max(s)][g[s \ {Max(s)}]]
        BY <1>7, <2>2, Zenon
      <3> QED BY <1>4, <2>2, <3>1, <3>2, <3>3, Zenon
    <2> QED BY <2>1, <2>2
  <1>9. g = [s \in SUBSET (1..n) |->
                IF s = {} THEN start ELSE Join(g[s \ {Max(s)}], ns[Max(s)])]
    BY <1>7, <1>8, Zenon
  <1>10. iter = [s \in SUBSET (1..n) |->
                    IF s = {} THEN start ELSE Join(iter[s \ {Max(s)}], ns[Max(s)])]
    BY <1>9 DEF iter
  <1> HIDE DEF iter
  <1>11. iter[{}] = start
    BY <1>10, Zenon
  <1>12. ASSUME NEW s \in SUBSET (1..n), s # {}, iter[s \ {Max(s)}] \in D
         PROVE  iter[s] = F[Max(s)][iter[s \ {Max(s)}]]
    <2>1. Max(s) \in 1..n
      BY <1>1, <1>12, MaxIn
    <2>2. iter[s] = Join(iter[s \ {Max(s)}], ns[Max(s)])
      BY <1>10, <1>12, Zenon
    <2> QED BY <1>4, <1>12, <2>1, <2>2, Zenon
  <1>13. PICK c \in Chains(D, start, n, F) : iter[1..n] = c[n]
    <2>1. FoldsTo(D, start, n, F, iter)
      BY <1>11, <1>12 DEF FoldsTo
    <2>2. ChainsOf(D, start, n, F, iter[1..n]) # {}
      BY <1>1, <1>3, <2>1, FoldChain
    <2> QED BY <2>2 DEF ChainsOf
  <1>14. c \in [0..n -> D] /\ c[0] = start /\ \A i \in 1..n : c[i] = F[i][c[i - 1]]
    BY <1>13 DEF Chains
  <1>15. ASSUME NEW i \in 1..n PROVE c[i] = Join(c[i - 1], ns[i])
    <2>1. c[i - 1] \in D
      BY <1>1, <1>14
    <2> QED BY <1>4, <1>14, <2>1, Zenon
  <1> HIDE DEF fold
  <1>16. c \in Joining(ns)
    BY <1>14, <1>15, Zenon DEF Joining, D, n, start
  <1> QED BY <1>5, <1>13, <1>16, Zenon DEF fold, start, n

LEMMA Slash == "/" \in Tokens /\ <<"/">> \in Texts /\ Empty \in Texts /\ Empty = <<>>
  <1>1. "/" \in Tokens
    BY AtfProgramAssumption
  <1> QED BY <1>1 DEF Texts, Empty

LEMMA TextConcat == \A v, w \in Texts : v \o w \in Texts
  BY DEF Texts

\* Names put together are told apart again.
LEMMA JoinedSplit ==
    ASSUME NEW ns \in Seq(PathNames)
    PROVE  Joined(ns) \in Texts /\ Split(Joined(ns), "/") = ns
  <1> DEFINE n == Len(ns)
             cut(i) == SubSeq(ns, 1, i)
  <1>1. n \in Nat /\ n \in 0..n /\ \A i \in 1..n : ns[i] \in PathNames
    OBVIOUS
  <1>2. PICK c \in Joining(ns) : Joined(ns) = c[n]
    BY JoinChain
  <1>3. /\ c \in [0..n -> Texts] /\ c[0] = Empty
        /\ \A i \in 1..n : c[i] = Join(c[i - 1], ns[i])
    BY <1>2 DEF Joining
  <1>4. \A i \in 0..n : cut(i) \in Seq(PathNames) /\ Len(cut(i)) = i /\ \A j \in 1..i : cut(i)[j] = ns[j]
    <2> TAKE i \in 0..n
    <2>1. 0 \in 0..n /\ i \in 0..n /\ 0 + 1 = 1 /\ i - 0 = i /\ \A j \in 1..i : 0 + j = j
      BY <1>1
    <2> QED BY <2>1, Cut
  <1>5. cut(0) = <<>>
    BY <1>1, <1>4
  <1>6. cut(n) = ns
    <2>1. cut(n) \in Seq(PathNames) /\ Len(cut(n)) = n /\ \A j \in 1..n : cut(n)[j] = ns[j]
      BY <1>1, <1>4
    <2> HIDE DEF cut
    <2> QED BY <2>1, Same
  <1>7. ASSUME NEW i \in 0..n, i < n PROVE cut(i) \o <<ns[i + 1]>> = cut(i + 1)
    <2> DEFINE leaf == <<ns[i + 1]>>
               u == cut(i) \o leaf
    <2>1. i + 1 \in 0..n /\ i + 1 \in 1..n /\ i \in Nat
      BY <1>1, <1>7
    <2>2. leaf \in Seq(PathNames) /\ Len(leaf) = 1 /\ leaf[1] = ns[i + 1]
      BY <1>1, <2>1
    <2>3. cut(i) \in Seq(PathNames) /\ Len(cut(i)) = i /\ \A j \in 1..i : cut(i)[j] = ns[j]
      BY <1>4
    <2>4. cut(i + 1) \in Seq(PathNames) /\ Len(cut(i + 1)) = i + 1 /\ \A j \in 1..(i + 1) : cut(i + 1)[j] = ns[j]
      BY <1>4, <2>1
    <2> HIDE DEF cut, leaf
    <2>5. Joins(PathNames, cut(i), leaf, u)
      BY <2>2, <2>3, Concat
    <2> HIDE DEF u
    <2>6. u \in Seq(PathNames) /\ Len(u) = i + 1 /\ (\A j \in 1..i : u[j] = ns[j]) /\ u[i + 1] = ns[i + 1]
      BY <2>1, <2>2, <2>3, <2>5 DEF Joins
    <2>7. \A j \in 1..(i + 1) : u[j] = cut(i + 1)[j]
      <3>1. \A j \in 1..(i + 1) : j \in 1..i \/ j = i + 1
        BY <2>1
      <3>2. \A j \in 1..(i + 1) : u[j] = ns[j]
        BY <2>6, <3>1
      <3> QED BY <2>4, <3>2
    <2>8. u = cut(i + 1)
      BY <2>4, <2>6, <2>7, Same
    <2> QED BY <2>8 DEF u, leaf
  <1> HIDE DEF cut, n
  <1> DEFINE T == {i \in 0..n : Split(c[i], "/") = cut(i)}
  <1>8. 0 \in T
    BY <1>1, <1>3, <1>5, SplitEmpty
  <1>9. ASSUME NEW i \in 0..n, i \in T, i < n PROVE i + 1 \in T
    <2>1. i + 1 \in 0..n /\ i + 1 \in 1..n /\ (i + 1) - 1 = i
      BY <1>1, <1>9
    <2> DEFINE leaf == ns[i + 1]
               p == c[i]
    <2>2. leaf \in PathNames /\ leaf \in Texts /\ p \in Texts /\ c[i + 1] = Join(p, leaf)
      BY <1>1, <1>3, <2>1 DEF PathNames, NamesOf
    <2>3. Split(leaf, "/") = <<leaf>> /\ Split(p, "/") = cut(i)
      BY <1>9, <2>2, SplitOne DEF PathNames
    <2>4. cut(i) \o <<leaf>> = cut(i + 1)
      BY <1>7, <1>9
    <2> HIDE DEF leaf, p
    <2>5. CASE p = Empty
      <3>1. cut(i) = <<>>
        BY <2>3, <2>5, SplitEmpty
      <3>2. <<>> \o <<leaf>> = <<leaf>>
        OBVIOUS
      <3>3. Join(p, leaf) = leaf
        BY <2>5 DEF Join
      <3>4. Split(c[i + 1], "/") = cut(i + 1)
        BY <2>2, <2>3, <2>4, <3>1, <3>2, <3>3, Zenon
      <3> QED BY <2>1, <3>4
    <2>6. CASE p # Empty
      <3>1. Join(p, leaf) = (p \o <<"/">>) \o leaf
        BY <2>6 DEF Join
      <3>2. Split((p \o <<"/">>) \o leaf, "/") = Split(p, "/") \o Split(leaf, "/")
        BY <2>2, Slash, SplitConcat
      <3>3. Split(c[i + 1], "/") = cut(i + 1)
        BY <2>2, <2>3, <2>4, <3>1, <3>2, Zenon
      <3> QED BY <2>1, <3>3
    <2> QED BY <2>5, <2>6
  <1> HIDE DEF T
  <1>10. \A i \in 0..n : i \in T
    BY <1>1, <1>8, <1>9, StepsUpTo
  <1>11. Split(c[n], "/") = cut(n) /\ c[n] \in Texts
    BY <1>1, <1>3, <1>10 DEF T
  <1> QED BY <1>2, <1>6, <1>11

\* u is how w begins.
Begins(u, w) == Len(u) <= Len(w) /\ \A i \in 1..Len(u) : w[i] = u[i]

LEMMA BeginsConcat ==
    ASSUME NEW u \in Texts, NEW v \in Texts, NEW w \in Texts, Begins(u, v)
    PROVE  Begins(u, v \o w) /\ Begins(u, u \o w)
  <1>1. Joins(Tokens, v, w, v \o w) /\ Joins(Tokens, u, w, u \o w)
    BY Concat DEF Texts
  <1>2. Len(u) \in Nat /\ Len(v) \in Nat /\ Len(w) \in Nat
    BY DEF Texts
  <1> DEFINE x == v \o w
             y == u \o w
  <1> HIDE DEF x, y
  <1>3. Begins(u, x)
    <2>1. Len(x) = Len(v) + Len(w) /\ \A i \in 1..Len(v) : x[i] = v[i]
      BY <1>1 DEF Joins, x
    <2>2. Len(u) <= Len(v) /\ \A i \in 1..Len(u) : v[i] = u[i]
      BY DEF Begins
    <2>3. \A i \in 1..Len(u) : i \in 1..Len(v)
      BY <1>2, <2>2
    <2>4. Len(u) <= Len(x)
      BY <1>2, <2>1, <2>2
    <2> QED BY <2>1, <2>2, <2>3, <2>4 DEF Begins
  <1>4. Begins(u, y)
    <2>1. Len(y) = Len(u) + Len(w) /\ \A i \in 1..Len(u) : y[i] = u[i]
      BY <1>1 DEF Joins, y
    <2> QED BY <1>2, <2>1 DEF Begins
  <1> QED BY <1>3, <1>4 DEF x, y

\* Names put together begin with the first and, unless it is the only one, a
\* slash.
LEMMA JoinedBegins ==
    ASSUME NEW ns \in Seq(PathNames), ns # <<>>
    PROVE  /\ Begins(ns[1], Joined(ns))
           /\ Len(ns) > 1 => Begins(ns[1] \o <<"/">>, Joined(ns))
  <1> DEFINE n == Len(ns)
             top == ns[1]
             root == top \o <<"/">>
  <1>1. n \in Nat /\ n >= 1 /\ n \in 0..n /\ \A i \in 1..n : ns[i] \in PathNames
    OBVIOUS
  <1>2. PICK c \in Joining(ns) : Joined(ns) = c[n]
    BY JoinChain
  <1>3. /\ c \in [0..n -> Texts] /\ c[0] = Empty
        /\ \A i \in 1..n : c[i] = Join(c[i - 1], ns[i])
    BY <1>2 DEF Joining
  <1>4. top \in Texts /\ top # <<>> /\ root \in Texts /\ Begins(top, top)
    <2>1. top \in PathNames
      BY <1>1
    <2>2. top \in Texts /\ top # <<>>
      BY <2>1 DEF PathNames, NamesOf
    <2>3. root \in Texts
      BY <2>2, Slash, TextConcat
    <2>4. Len(top) \in Nat
      BY <2>2 DEF Texts
    <2> HIDE DEF top
    <2> QED BY <2>2, <2>3, <2>4 DEF Begins
  <1> HIDE DEF n
  <1> DEFINE Good(i) == (i = 1 => c[i] = top) /\ (i > 1 => (Begins(top, c[i]) /\ Begins(root, c[i])))
             T == {i \in 0..n : Good(i)}
  <1>5. 0 \in T
    BY <1>1
  <1>6. ASSUME NEW i \in 0..n, i \in T, i < n PROVE i + 1 \in T
    <2>1. i + 1 \in 0..n /\ i + 1 \in 1..n /\ (i + 1) - 1 = i
      BY <1>1, <1>6
    <2> DEFINE leaf == ns[i + 1]
               p == c[i]
    <2>2. leaf \in Texts /\ p \in Texts /\ c[i + 1] = Join(p, leaf)
      BY <1>1, <1>3, <2>1 DEF PathNames, NamesOf
    <2>3. CASE i = 0
      <3>1. p = Empty /\ i + 1 = 1 /\ leaf = top
        BY <1>3, <2>3
      <3>2. c[i + 1] = top
        BY <2>2, <3>1 DEF Join
      <3> QED BY <2>1, <3>1, <3>2
    <2>4. CASE i = 1
      <3>1. p = top /\ i + 1 > 1 /\ i + 1 # 1
        <4>1. Good(i)
          BY <1>6
        <4> QED BY <2>4, <4>1
      <3>2. c[i + 1] = root \o leaf
        BY <1>4, <2>2, <3>1 DEF Join, Empty
      <3>3. Begins(root, root \o leaf) /\ Begins(top, root \o leaf)
        <4>1. Begins(top, root)
          BY <1>4, Slash, BeginsConcat
        <4>2. Begins(root, root)
          <5>1. Len(root) \in Nat
            BY <1>4 DEF Texts
          <5> HIDE DEF root
          <5> QED BY <5>1 DEF Begins
        <4> HIDE DEF root, leaf
        <4> QED BY <1>4, <2>2, <4>1, <4>2, BeginsConcat
      <3> QED BY <2>1, <3>1, <3>2, <3>3
    <2>5. CASE i > 1
      <3>1. Begins(top, p) /\ Begins(root, p) /\ i + 1 > 1 /\ i + 1 # 1
        BY <1>6, <2>5
      <3>2. p # Empty
        <4>1. Len(top) \in Nat /\ Len(top) > 0 /\ Len(p) \in Nat
          BY <1>4, <2>2 DEF Texts
        <4>2. Len(p) > 0
          BY <3>1, <4>1 DEF Begins
        <4>3. Len(Empty) = 0
          BY DEF Empty
        <4> QED BY <4>2, <4>3
      <3>3. c[i + 1] = (p \o <<"/">>) \o leaf
        BY <2>2, <3>2 DEF Join
      <3>4. p \o <<"/">> \in Texts /\ Begins(top, p \o <<"/">>) /\ Begins(root, p \o <<"/">>)
        <4> HIDE DEF p, root
        <4> QED BY <1>4, <2>2, <3>1, Slash, TextConcat, BeginsConcat
      <3>5. Begins(top, c[i + 1]) /\ Begins(root, c[i + 1])
        <4> HIDE DEF p, root, leaf
        <4> QED BY <1>4, <2>2, <3>3, <3>4, BeginsConcat
      <3> QED BY <2>1, <3>1, <3>5
    <2>6. i = 0 \/ i = 1 \/ i > 1
      BY <1>1
    <2> QED BY <2>3, <2>4, <2>5, <2>6
  <1> HIDE DEF T
  <1>7. \A i \in 0..n : i \in T
    BY <1>1, <1>5, <1>6, StepsUpTo
  <1>8. n = 1 \/ n > 1
    BY <1>1
  <1>9. Good(n)
    BY <1>1, <1>7 DEF T
  <1> QED BY <1>2, <1>4, <1>8, <1>9 DEF n

\* The slash that leads a path, and its names.
Root(w) == IF w[1] = "/" THEN <<"/">> ELSE Empty

LEMMA NormalizeIs == ASSUME NEW w PROVE Normalize(w) = Root(w) \o Joined(Split(w, "/"))
  BY DEF Normalize, Root, Joined

\* A path made normal has the same names.
LEMMA NormalizeSplit ==
    ASSUME NEW w \in Texts
    PROVE  /\ Normalize(w) \in Texts
           /\ Split(w, "/") \in Seq(PathNames)
           /\ Split(Normalize(w), "/") = Split(w, "/")
  <1> DEFINE ns == Split(w, "/")
             j == Joined(ns)
  <1>1. ns \in Seq(PathNames)
    BY Slash, SplitTyped DEF PathNames
  <1>2. j \in Texts /\ Split(j, "/") = ns
    BY <1>1, JoinedSplit
  <1> HIDE DEF ns, j
  <1>3. CASE w[1] = "/"
    <2>1. Normalize(w) = <<"/">> \o j
      BY <1>3, NormalizeIs DEF Root, ns, j
    <2>2. (Empty \o <<"/">>) \o j = <<"/">> \o j
      BY Slash
    <2>3. Split((Empty \o <<"/">>) \o j, "/") = Split(Empty, "/") \o Split(j, "/")
      BY <1>2, Slash, SplitConcat
    <2>4. <<>> \o ns = ns
      BY <1>1
    <2>5. Split(Normalize(w), "/") = ns
      BY <1>2, <2>1, <2>2, <2>3, <2>4, SplitEmpty, Zenon
    <2>6. Normalize(w) \in Texts
      BY <1>2, <2>1, Slash, TextConcat
    <2> QED BY <1>1, <2>5, <2>6 DEF ns
  <1>4. CASE w[1] # "/"
    <2>1. Normalize(w) = Empty \o j
      BY <1>4, NormalizeIs DEF Root, ns, j
    <2>2. Empty \o j = j
      BY <1>2, Slash DEF Texts
    <2> QED BY <1>1, <1>2, <2>1, <2>2, Zenon DEF ns
  <1> QED BY <1>3, <1>4

-----------------------------------------------------------------------------
(* Places in a word *)

LEMMA TextTyped ==
    ASSUME NEW w \in Texts
    PROVE  /\ w \in Seq(Tokens) /\ Len(w) \in Nat /\ DOMAIN w = 1..Len(w)
           /\ w # Empty => Len(w) > 0
  BY DEF Texts, Empty

LEMMA FindChIs ==
    ASSUME NEW w \in Texts, NEW b
    PROVE  /\ FindCh(w, b) \in 0..Len(w)
           /\ FindCh(w, b) # 0 => w[FindCh(w, b)] = b
  <1>1. Len(w) \in Nat /\ Places(w, b) \in SUBSET (1..Len(w)) /\ \A i \in Places(w, b) : w[i] = b
    BY TextTyped DEF Places
  <1> DEFINE ps == Places(w, b)
  <1> HIDE DEF ps
  <1>2. CASE ps = {}
    BY <1>1, <1>2 DEF FindCh, ps
  <1>3. CASE ps # {}
    <2>1. Min(ps) \in ps
      BY <1>1, <1>3, MinIn DEF ps
    <2>2. FindCh(w, b) = Min(ps)
      BY <1>3 DEF FindCh, ps
    <2>3. Min(ps) \in 1..Len(w) /\ w[Min(ps)] = b
      BY <1>1, <2>1 DEF ps
    <2> QED BY <1>1, <2>2, <2>3
  <1> QED BY <1>2, <1>3

LEMMA RFindChIs ==
    ASSUME NEW w \in Texts, NEW b
    PROVE  /\ RFindCh(w, b) \in 0..Len(w)
           /\ RFindCh(w, b) # 0 => w[RFindCh(w, b)] = b
           /\ \A i \in 1..Len(w) : w[i] = b => i <= RFindCh(w, b)
  <1>1. Len(w) \in Nat /\ Places(w, b) \in SUBSET (1..Len(w)) /\ \A i \in Places(w, b) : w[i] = b
    BY TextTyped DEF Places
  <1>2. \A i \in 1..Len(w) : w[i] = b => i \in Places(w, b)
    BY TextTyped DEF Places
  <1> DEFINE ps == Places(w, b)
  <1> HIDE DEF ps
  <1>3. CASE ps = {}
    <2>1. RFindCh(w, b) = 0
      BY <1>3 DEF RFindCh, ps
    <2> QED BY <1>1, <1>2, <1>3, <2>1 DEF ps
  <1>4. CASE ps # {}
    <2>1. Max(ps) \in ps /\ \A i \in ps : i <= Max(ps)
      BY <1>1, <1>4, MaxIn DEF ps
    <2>2. RFindCh(w, b) = Max(ps)
      BY <1>4 DEF RFindCh, ps
    <2>3. Max(ps) \in 1..Len(w) /\ w[Max(ps)] = b
      BY <1>1, <2>1 DEF ps
    <2>4. \A i \in 1..Len(w) : w[i] = b => i <= Max(ps)
      BY <1>2, <2>1 DEF ps
    <2> QED BY <1>1, <2>2, <2>3, <2>4
  <1> QED BY <1>3, <1>4

LEMMA BeforeIs ==
    ASSUME NEW S, NEW s \in Seq(S), NEW i \in 1..Len(s)
    PROVE  /\ Before(s, i) \in Seq(S) /\ Len(Before(s, i)) = i - 1
           /\ \A j \in 1..(i - 1) : Before(s, i)[j] = s[j]
  <1>1. 0 \in 0..Len(s) /\ i - 1 \in 0..Len(s) /\ 0 + 1 = 1 /\ (i - 1) - 0 = i - 1
        /\ \A j \in 1..(i - 1) : 0 + j = j
    OBVIOUS
  <1> QED BY <1>1, Cut DEF Before

LEMMA AfterIs ==
    ASSUME NEW S, NEW s \in Seq(S), NEW i \in 0..Len(s)
    PROVE  /\ After(s, i) \in Seq(S) /\ Len(After(s, i)) = Len(s) - i
           /\ \A j \in 1..(Len(s) - i) : After(s, i)[j] = s[i + j]
  <1>1. Len(s) \in i..Len(s)
    OBVIOUS
  <1> QED BY <1>1, Cut DEF After

LEMMA PartsTyped ==
    ASSUME NEW w \in Texts, NEW i \in 0..Len(w)
    PROVE  (i # 0 => Before(w, i) \in Texts) /\ After(w, i) \in Texts
  <1>1. w \in Seq(Tokens) /\ Len(w) \in Nat
    BY TextTyped
  <1>2. i # 0 => i \in 1..Len(w)
    BY <1>1
  <1> QED BY <1>1, <1>2, BeforeIs, AfterIs DEF Texts

LEMMA DirTokens ==
    /\ {"/", ".", "C:"} \subseteq Tokens
    /\ <<".">> \in Texts /\ <<"/">> \in Texts /\ <<".">> # Empty /\ <<"/">> # Empty
  <1>1. {"/", ".", "C:"} \subseteq Tokens
    BY AtfProgramAssumption
  <1>2. <<".">> # <<>> /\ <<"/">> # <<>>
    OBVIOUS
  <1> QED BY <1>1, <1>2 DEF Texts, Empty

LEMMA BranchTyped ==
    ASSUME NEW p \in Texts
    PROVE  /\ BranchPath(p) \in Texts /\ BranchPath(p) # Empty
           /\ LeafName(p) \in Texts
  <1> DEFINE e == RFindCh(p, "/")
  <1>1. e \in 0..Len(p) /\ Len(p) \in Nat
    BY RFindChIs, TextTyped
  <1>2. LeafName(p) \in Texts
    BY <1>1, PartsTyped DEF LeafName
  <1>3. CASE e = 0
    BY <1>2, <1>3, DirTokens DEF BranchPath
  <1>4. CASE e = 1
    BY <1>2, <1>4, DirTokens DEF BranchPath
  <1>5. CASE e > 1
    <2> DEFINE d == Before(p, e)
    <2>1. e \in 1..Len(p) /\ e # 0 /\ e # 1 /\ e - 1 > 0
      BY <1>1, <1>5
    <2>2. BranchPath(p) = d
      BY <2>1 DEF BranchPath
    <2>3. d \in Texts /\ Len(d) = e - 1
      BY <1>1, <2>1, TextTyped, BeforeIs DEF Texts
    <2>4. Len(<<>>) = 0
      OBVIOUS
    <2>5. d # Empty
      BY <2>1, <2>3, <2>4 DEF Empty
    <2> QED BY <1>2, <2>2, <2>3, <2>5
  <1> QED BY <1>1, <1>3, <1>4, <1>5

\* A directory further up is as absolute as the path, up to the root.
LEMMA BranchAbsolute ==
    ASSUME NEW p \in Texts, p # Empty, IsAbsolute(p),
           ~(host.windows /\ BranchPath(p) = <<"C:">>)
    PROVE  IsAbsolute(BranchPath(p))
  <1> DEFINE e == RFindCh(p, "/")
             d == Before(p, e)
  <1>1. e \in 0..Len(p) /\ Len(p) \in Nat /\ Len(p) > 0
    BY RFindChIs, TextTyped
  <1>2. CASE p[1] = "/"
    <2>1. e >= 1
      <3>1. 1 \in 1..Len(p)
        BY <1>1
      <3> QED BY <1>2, <3>1, RFindChIs
    <2>2. CASE e = 1
      <3>1. BranchPath(p) = <<"/">>
        BY <2>2 DEF BranchPath
      <3> QED BY <3>1 DEF IsAbsolute
    <2>3. CASE e > 1
      <3>1. e \in 1..Len(p) /\ e # 0 /\ e # 1 /\ 1 \in 1..(e - 1)
        BY <1>1, <2>3
      <3>2. BranchPath(p) = d
        BY <3>1 DEF BranchPath
      <3>3. d[1] = p[1]
        BY <3>1, TextTyped, BeforeIs
      <3> QED BY <1>2, <3>2, <3>3 DEF IsAbsolute
    <2> QED BY <1>1, <2>1, <2>2, <2>3
  <1>3. CASE p[1] # "/"
    <2>1. host.windows /\ Len(p) > 1 /\ p[1] = "C:" /\ p[2] = "/"
      BY <1>3 DEF IsAbsolute
    <2>2. e >= 2
      <3>1. 2 \in 1..Len(p)
        BY <1>1, <2>1
      <3> QED BY <2>1, <3>1, RFindChIs
    <2>3. e \in 1..Len(p) /\ e # 0 /\ e # 1 /\ 1 \in 1..(e - 1)
      BY <1>1, <2>2
    <2>4. BranchPath(p) = d
      BY <2>3 DEF BranchPath
    <2>5. d \in Seq(Tokens) /\ Len(d) = e - 1 /\ \A j \in 1..(e - 1) : d[j] = p[j]
      BY <2>3, TextTyped, BeforeIs
    <2> HIDE DEF d
    <2>6. d[1] = "C:"
      BY <2>1, <2>3, <2>5
    <2>7. CASE e = 2
      <3>1. Len(d) = 1
        BY <2>5, <2>7
      <3>2. d = <<"C:">>
        BY <2>5, <2>6, <3>1, OnlyOne, Zenon
      <3> QED BY <2>1, <2>4, <3>2
    <2>8. CASE e > 2
      <3>1. 2 \in 1..(e - 1) /\ e - 1 > 1
        BY <1>1, <2>8
      <3> QED BY <2>1, <2>4, <2>5, <2>6, <3>1 DEF IsAbsolute
    <2> QED BY <1>1, <2>2, <2>7, <2>8
  <1> QED BY <1>2, <1>3

\* A path made normal begins as it did.
LEMMA NormalizeFirst ==
    ASSUME NEW w \in Texts, w # Empty
    PROVE  Normalize(w) # Empty /\ Normalize(w)[1] = w[1]
  <1> DEFINE ns == Split(w, "/")
             j == Joined(ns)
             v == Normalize(w)
  <1>1. ns \in Seq(PathNames) /\ v \in Texts
    BY NormalizeSplit
  <1>2. j \in Texts
    BY <1>1, JoinedSplit
  <1>3. v = Root(w) \o j
    BY NormalizeIs
  <1>4. w # <<>>
    BY DEF Empty
  <1> HIDE DEF ns, j, v
  <1>5. CASE w[1] = "/"
    <2> DEFINE s == <<"/">>
    <2>1. s \in Texts /\ Len(s) = 1 /\ s[1] = "/" /\ Root(w) = s
      BY <1>5, Slash DEF Root
    <2> HIDE DEF s
    <2>2. Joins(Tokens, s, j, s \o j) /\ v = s \o j
      BY <1>2, <1>3, <2>1, Concat DEF Texts
    <2>3. Len(v) = 1 + Len(j) /\ v[1] = s[1]
      BY <2>1, <2>2 DEF Joins
    <2>4. Len(v) > 0
      BY <1>2, <2>3, TextTyped
    <2>5. Len(Empty) = 0
      BY DEF Empty
    <2>6. v # Empty
      BY <2>4, <2>5
    <2> QED BY <1>5, <2>1, <2>3, <2>6 DEF v
  <1>6. CASE w[1] # "/"
    <2>1. v = j
      <3>1. Root(w) = <<>>
        BY <1>6 DEF Root, Empty
      <3>2. <<>> \o j = j
        BY <1>2, TextTyped
      <3> QED BY <1>3, <3>1, <3>2
    <2>2. ns # <<>> /\ Leads(ns, w[1])
      BY <1>4, <1>6, SplitLeads DEF ns
    <2>3. Begins(ns[1], v)
      BY <1>1, <2>1, <2>2, JoinedBegins DEF j
    <2>4. ns[1] # <<>> /\ ns[1][1] = w[1]
      BY <2>2 DEF Leads
    <2>5. ns[1] \in Texts
      <3>1. ns[1] \in PathNames
        BY <1>1, <2>2
      <3> QED BY <3>1 DEF PathNames, NamesOf
    <2> DEFINE top == ns[1]
    <2> HIDE DEF top
    <2>6. Len(top) \in Nat /\ Len(top) > 0 /\ 1 \in 1..Len(top)
      <3>1. Len(top) \in Nat /\ Len(top) > 0
        BY <2>4, <2>5, TextTyped DEF top, Empty
      <3> QED BY <3>1
    <2>7. Len(v) >= Len(top) /\ v[1] = top[1]
      BY <1>1, <2>3, <2>6, TextTyped DEF Begins, top
    <2>8. Len(Empty) = 0 /\ Len(v) > 0
      BY <1>1, <2>6, <2>7, TextTyped DEF Empty
    <2>9. v # Empty
      BY <2>8
    <2> QED BY <2>4, <2>7, <2>9 DEF v, top
  <1> QED BY <1>5, <1>6

\* normalize of a path that is normal changes nothing: what the C functions
\* return can be parsed again, as the C++ class does with each of them.
THEOREM NormalizeTwice ==
    ASSUME NEW w \in Texts, w # Empty
    PROVE  Normalize(Normalize(w)) = Normalize(w)
  <1>1. Split(Normalize(w), "/") = Split(w, "/")
    BY NormalizeSplit
  <1>2. Normalize(w)[1] = w[1]
    BY NormalizeFirst
  <1>3. Root(Normalize(w)) = Root(w)
    BY <1>2 DEF Root
  <1> QED BY <1>1, <1>3, NormalizeIs, Zenon

LEMMA JoinedOne ==
    ASSUME NEW w \in PathNames
    PROVE  Joined(<<w>>) = w
  <1> DEFINE ns == <<w>>
  <1>1. ns \in Seq(PathNames) /\ Len(ns) = 1 /\ ns[1] = w /\ 1 \in 1..Len(ns)
    OBVIOUS
  <1> HIDE DEF ns
  <1>2. PICK c \in Joining(ns) : Joined(ns) = c[Len(ns)]
    BY <1>1, JoinChain
  <1>3. c[0] = Empty /\ c[1] = Join(c[1 - 1], ns[1])
    BY <1>1, <1>2 DEF Joining
  <1>4. 1 - 1 = 0
    OBVIOUS
  <1>5. Joined(ns) = w
    BY <1>1, <1>2, <1>3, <1>4 DEF Join
  <1> QED BY <1>5 DEF ns

\* A name is normal.
LEMMA NormalizeName ==
    ASSUME NEW w \in PathNames
    PROVE  Normalize(w) = w
  <1>1. w \in Texts /\ w # Empty /\ w[1] # "/"
    <2>1. w \in Texts /\ w # <<>> /\ \A i \in 1..Len(w) : w[i] # "/"
      BY DEF PathNames, NamesOf
    <2>2. 1 \in 1..Len(w)
      BY <2>1, TextTyped DEF Empty
    <2> QED BY <2>1, <2>2 DEF Empty
  <1>2. Split(w, "/") = <<w>>
    BY SplitOne DEF PathNames
  <1>3. Empty \o w = w
    BY <1>1, TextTyped DEF Empty
  <1>4. Normalize(w) = Root(w) \o w
    BY <1>2, NormalizeIs, JoinedOne, Zenon
  <1> QED BY <1>1, <1>3, <1>4 DEF Root

-----------------------------------------------------------------------------
(* The program and the working directory *)

LEMMA HostTyped ==
    ASSUME host \in Hosts
    PROVE  /\ host.lang \in {"C", "C++"} /\ host.windows \in BOOLEAN /\ host.root \in Texts
           /\ host.argv0 \in Texts /\ host.argv0 # Empty
           /\ host.cwd \in Texts /\ host.cwd # Empty
           /\ IF host.windows THEN Len(host.cwd) > 1 /\ host.cwd[1] = "C:" /\ host.cwd[2] = "/"
              ELSE host.cwd[1] = "/"
           /\ Last(host.argv0) \notin {"/", "\\", "lt-"}
  BY AtfProgramAssumption

LEMMA Argv0Is ==
    ASSUME host \in Hosts
    PROVE  /\ Argv0 \in Texts /\ Len(Argv0) \in Nat /\ Len(Argv0) > 0 /\ Argv0 # Empty
           /\ Argv0[Len(Argv0)] # "/" /\ Argv0[Len(Argv0)] # "lt-"
  <1> DEFINE w == host.argv0
             v == Slashes(w)
  <1>1. w \in Seq(Tokens) /\ Len(w) \in Nat /\ Len(w) > 0 /\ w \in Texts
    BY HostTyped, TextTyped
  <1>2. w[Len(w)] \notin {"/", "\\", "lt-"}
    BY HostTyped DEF Last
  <1> HIDE DEF w
  <1>3. v = [i \in 1..Len(w) |-> IF w[i] = "\\" THEN "/" ELSE w[i]]
    BY <1>1 DEF Slashes
  <1> HIDE DEF v
  <1>4. \A i \in 1..Len(w) : (IF w[i] = "\\" THEN "/" ELSE w[i]) \in Tokens
    BY <1>1, DirTokens
  <1>5. v \in Texts /\ Len(v) = Len(w)
    BY <1>1, <1>3, <1>4 DEF Texts
  <1>6. v[Len(w)] = w[Len(w)]
    <2>1. Len(w) \in 1..Len(w)
      BY <1>1
    <2> QED BY <1>2, <1>3, <2>1
  <1>7. Argv0 = v \/ Argv0 = w
    BY DEF Argv0, v, w
  <1>8. Len(Empty) = 0
    BY DEF Empty
  <1> QED BY <1>1, <1>2, <1>5, <1>6, <1>7, <1>8

\* The program has a name.
LEMMA ProgNameIs ==
    ASSUME host \in Hosts
    PROVE  ProgName \in PathNames
  <1> DEFINE w == Argv0
             n == Len(Argv0)
             e == RFindCh(w, "/")
             leaf == After(w, e)
  <1>1. w \in Texts /\ w \in Seq(Tokens) /\ n \in Nat /\ n > 0 /\ w[n] # "/" /\ w[n] # "lt-"
    BY Argv0Is, TextTyped
  <1>2. e \in 0..n /\ (e # 0 => w[e] = "/") /\ \A i \in 1..n : w[i] = "/" => i <= e
    BY <1>1, RFindChIs
  <1> HIDE DEF e
  <1>3. e \in 0..(n - 1)
    <2>1. e # n
      BY <1>1, <1>2
    <2> QED BY <1>1, <1>2, <2>1
  <1>4. leaf \in Seq(Tokens) /\ Len(leaf) = n - e /\ \A j \in 1..(n - e) : leaf[j] = w[e + j]
    BY <1>1, <1>2, AfterIs
  <1> HIDE DEF leaf, n
  <1>5. n - e \in Nat /\ n - e > 0 /\ n - e \in 1..(n - e) /\ e + (n - e) = n /\ 1 \in 1..(n - e)
    BY <1>1, <1>3
  <1>6. \A j \in 1..Len(leaf) : leaf[j] # "/"
    <2> TAKE j \in 1..Len(leaf)
    <2>1. e + j \in 1..n /\ ~(e + j <= e)
      BY <1>1, <1>3, <1>4
    <2> QED BY <1>2, <1>4, <2>1
  <1>7. leaf[n - e] = w[n]
    BY <1>4, <1>5
  <1>8. ProgName = IF leaf[1] = "lt-" THEN Tail(leaf) ELSE leaf
    BY DEF ProgName, LeafName, leaf, e
  <1>9. CASE leaf[1] # "lt-"
    <2>1. leaf # <<>>
      BY <1>4, <1>5
    <2> QED BY <1>4, <1>6, <1>8, <1>9, <2>1 DEF PathNames, NamesOf, Texts
  <1>10. CASE leaf[1] = "lt-"
    <2> DEFINE t == Tail(leaf)
    <2>1. n - e # 1
      BY <1>1, <1>7, <1>10
    <2>2. leaf # <<>>
      BY <1>4, <1>5
    <2>3. t \in Seq(Tokens) /\ Len(t) = (n - e) - 1 /\ \A j \in 1..Len(t) : t[j] = leaf[j + 1]
      BY <1>4, <2>2
    <2> HIDE DEF t
    <2>4. Len(t) > 0
      BY <1>5, <2>1, <2>3
    <2>5. \A j \in 1..Len(t) : t[j] # "/"
      <3>1. \A j \in 1..Len(t) : j + 1 \in 1..Len(leaf)
        BY <1>4, <1>5, <2>3
      <3> QED BY <1>6, <2>3, <3>1
    <2>6. t # <<>>
      BY <2>4
    <2> QED BY <1>8, <1>10, <2>3, <2>5, <2>6 DEF PathNames, NamesOf, Texts, t
  <1> QED BY <1>9, <1>10

\* What is appended to a path comes after its names.
LEMMA AppendToIs ==
    ASSUME NEW p \in Texts, NEW w \in Texts, w # Empty
    PROVE  /\ AppendTo(p, w) \in Texts
           /\ Split(AppendTo(p, w), "/") = Split(p, "/") \o Split(w, "/")
           /\ \E u \in Texts : AppendTo(p, w) = (p \o <<"/">>) \o u
  <1> DEFINE aux == Normalize(w)
             j == Joined(Split(w, "/"))
  <1>1. aux \in Texts /\ Split(w, "/") \in Seq(PathNames) /\ Split(aux, "/") = Split(w, "/")
    BY NormalizeSplit
  <1>2. j \in Texts /\ Split(j, "/") = Split(w, "/")
    BY <1>1, JoinedSplit
  <1>3. aux[1] = w[1] /\ aux = Root(w) \o j
    BY NormalizeFirst, NormalizeIs
  <1>4. AppendTo(p, w) = (p \o (IF aux[1] = "/" THEN Empty ELSE <<"/">>)) \o aux
    BY DEF AppendTo
  <1> HIDE DEF aux, j
  <1>5. CASE w[1] = "/"
    <2>1. aux = <<"/">> \o j
      BY <1>3, <1>5 DEF Root
    <2>2. p \o Empty = p
      BY TextTyped DEF Empty
    <2>3. (p \o <<"/">>) \o j = p \o (<<"/">> \o j)
      BY <1>2, Slash, Associative DEF Texts
    <2>4. AppendTo(p, w) = (p \o <<"/">>) \o j
      BY <1>3, <1>4, <1>5, <2>1, <2>2, <2>3, Zenon
    <2>5. (p \o <<"/">>) \o j \in Texts /\ Split((p \o <<"/">>) \o j, "/") = Split(p, "/") \o Split(j, "/")
      BY <1>2, Slash, SplitConcat
    <2> QED BY <1>2, <2>4, <2>5, Zenon
  <1>6. CASE w[1] # "/"
    <2>1. AppendTo(p, w) = (p \o <<"/">>) \o aux
      BY <1>3, <1>4, <1>6
    <2>2. (p \o <<"/">>) \o aux \in Texts /\ Split((p \o <<"/">>) \o aux, "/") = Split(p, "/") \o Split(aux, "/")
      BY <1>1, Slash, SplitConcat
    <2> QED BY <1>1, <2>1, <2>2, Zenon
  <1> QED BY <1>5, <1>6

LEMMA AppendName ==
    ASSUME NEW p \in Texts, NEW w \in PathNames
    PROVE  AppendTo(p, w) = (p \o <<"/">>) \o w
  <1>1. w \in Texts /\ w # <<>> /\ \A i \in 1..Len(w) : w[i] # "/"
    BY DEF PathNames, NamesOf
  <1>2. 1 \in 1..Len(w)
    BY <1>1, TextTyped DEF Empty
  <1>3. w[1] # "/" /\ Normalize(w) = w
    BY <1>1, <1>2, NormalizeName
  <1> QED BY <1>3 DEF AppendTo

\* The drive of a Windows path stays before its slash.
LEMMA NormalizeDrive ==
    ASSUME NEW w \in Texts, Len(w) > 1, w[1] = "C:", w[2] = "/"
    PROVE  \/ Normalize(w) = <<"C:">>
           \/ Len(Normalize(w)) > 1 /\ Normalize(w)[1] = "C:" /\ Normalize(w)[2] = "/"
  <1> DEFINE drive == <<"C:">>
             ns == Split(w, "/")
             rest == After(w, 2)
  <1>0. "C:" \in Tokens /\ "/" \in Tokens /\ "C:" # "/"
    BY DirTokens
  <1>1. drive \in PathNames /\ drive \in Seq(Tokens) /\ Len(drive) = 1 /\ drive[1] = "C:"
    BY <1>0 DEF PathNames, NamesOf, Texts
  <1>2. w \in Seq(Tokens) /\ Len(w) \in Nat
    BY TextTyped
  <1>3. rest \in Seq(Tokens) /\ rest \in Texts /\ Len(rest) = Len(w) - 2 /\ \A j \in 1..(Len(w) - 2) : rest[j] = w[2 + j]
    <2>1. 2 \in 0..Len(w)
      BY <1>2
    <2> QED BY <1>2, <2>1, AfterIs DEF Texts
  <1>4. w = (drive \o <<"/">>) \o rest
    <2> DEFINE s == <<"/">>
               h == drive \o s
               u == h \o rest
    <2>1. s \in Seq(Tokens) /\ Len(s) = 1 /\ s[1] = "/"
      BY <1>0
    <2> HIDE DEF s, drive, rest
    <2>2. Joins(Tokens, drive, s, h)
      BY <1>1, <2>1, Concat
    <2>3. h \in Seq(Tokens) /\ Len(h) = 2 /\ h[1] = "C:" /\ h[2] = "/"
      <3> HIDE DEF h
      <3>1. h \in Seq(Tokens) /\ Len(h) = 1 + 1 /\ h[1] = drive[1] /\ h[1 + 1] = s[1]
        BY <1>1, <2>1, <2>2 DEF Joins
      <3> QED BY <1>1, <2>1, <3>1
    <2> HIDE DEF h
    <2>4. Joins(Tokens, h, rest, u)
      BY <1>3, <2>3, Concat
    <2> HIDE DEF u
    <2>5. /\ u \in Seq(Tokens) /\ Len(u) = 2 + Len(rest)
          /\ \A i \in 1..2 : u[i] = h[i]
          /\ \A i \in 1..Len(rest) : u[2 + i] = rest[i]
      BY <2>3, <2>4 DEF Joins
    <2>6. ASSUME NEW i \in 1..Len(w) PROVE w[i] = u[i]
      <3>1. CASE i = 1
        BY <2>3, <2>5, <3>1
      <3>2. CASE i = 2
        BY <2>3, <2>5, <3>2
      <3>3. CASE i > 2
        <4>1. i - 2 \in 1..(Len(w) - 2) /\ 2 + (i - 2) = i
          BY <1>2, <3>3
        <4>2. rest[i - 2] = w[i] /\ u[i] = rest[i - 2]
          BY <1>3, <2>5, <4>1
        <4> QED BY <4>2
      <3> QED BY <1>2, <3>1, <3>2, <3>3
    <2>7. w = u
      BY <1>2, <1>3, <2>5, <2>6, Same
    <2> QED BY <2>7 DEF u, h, s
  <1> HIDE DEF rest
  <1>5. ns = <<drive>> \o Split(rest, "/") /\ ns \in Seq(PathNames) /\ Split(rest, "/") \in Seq(PathNames)
    <2>1. drive \in Texts
      BY <1>1 DEF Texts
    <2>2. Split((drive \o <<"/">>) \o rest, "/") = Split(drive, "/") \o Split(rest, "/")
      BY <1>0, <1>3, <2>1, SplitConcat
    <2>3. Split(drive, "/") = <<drive>>
      BY <1>1, SplitOne DEF PathNames
    <2>4. ns \in Seq(PathNames) /\ Split(rest, "/") \in Seq(PathNames)
      BY <1>3, NormalizeSplit
    <2> QED BY <1>4, <2>2, <2>3, <2>4, Zenon
  <1>6. ns # <<>> /\ ns[1] = drive /\ Len(ns) \in Nat /\ Len(ns) > 0
    <2> DEFINE more == Split(rest, "/")
               one == <<drive>>
    <2>1. one \in Seq(PathNames) /\ Len(one) = 1 /\ one[1] = drive
      BY <1>1
    <2> HIDE DEF more, one, drive
    <2>2. Joins(PathNames, one, more, one \o more)
      BY <1>5, <2>1, Concat DEF more
    <2> DEFINE u == one \o more
    <2> HIDE DEF u
    <2>3. Len(u) = 1 + Len(more) /\ u[1] = drive /\ Len(more) \in Nat /\ u \in Seq(PathNames)
      BY <1>5, <2>1, <2>2 DEF Joins, more, u
    <2>4. u # <<>> /\ Len(u) \in Nat /\ Len(u) > 0
      BY <2>3
    <2>5. ns = u
      BY <1>5 DEF u, one, more
    <2> QED BY <2>3, <2>4, <2>5
  <1>7. Normalize(w) = Joined(ns)
    <2>1. Root(w) = <<>>
      BY <1>0 DEF Root, Empty
    <2>2. Joined(ns) \in Texts
      BY <1>5, JoinedSplit
    <2>3. <<>> \o Joined(ns) = Joined(ns)
      BY <2>2, TextTyped
    <2> QED BY <2>1, <2>3, NormalizeIs
  <1> HIDE DEF ns
  <1>8. CASE Len(ns) = 1
    <2>1. ns = <<drive>>
      BY <1>5, <1>6, <1>8, OnlyOne, Zenon
    <2>2. Joined(ns) = drive
      BY <1>1, <2>1, JoinedOne, Zenon
    <2> QED BY <1>7, <2>2
  <1>9. CASE Len(ns) > 1
    <2> DEFINE s == <<"/">>
               h == drive \o s
               v == Joined(ns)
    <2>1. s \in Seq(Tokens) /\ Len(s) = 1 /\ s[1] = "/"
      BY <1>0
    <2>2. Begins(h, v)
      BY <1>5, <1>6, <1>9, JoinedBegins
    <2>3. v \in Texts /\ Len(v) \in Nat
      BY <1>5, JoinedSplit, TextTyped
    <2> HIDE DEF s, drive, v
    <2>4. Joins(Tokens, drive, s, h)
      BY <1>1, <2>1, Concat
    <2> HIDE DEF h
    <2>5. Len(h) = 1 + 1 /\ h[1] = drive[1] /\ h[1 + 1] = s[1]
      BY <1>1, <2>1, <2>4 DEF Joins
    <2>6. Len(v) > 1 /\ v[1] = "C:" /\ v[2] = "/"
      BY <1>1, <2>1, <2>2, <2>3, <2>5 DEF Begins
    <2> QED BY <1>7, <2>6 DEF v
  <1>10. Len(ns) = 1 \/ Len(ns) > 1
    <2> DEFINE k == Len(ns)
    <2>1. k \in Nat /\ k > 0
      BY <1>6
    <2> HIDE DEF k
    <2>2. k = 1 \/ k > 1
      BY <2>1
    <2> QED BY <2>2 DEF k
  <1> QED BY <1>8, <1>9, <1>10

\* A path from the working directory is absolute, and comes after its names.
LEMMA ToAbsoluteIs ==
    ASSUME host \in Hosts, NEW p \in Texts, p # Empty
    PROVE  /\ ToAbsolute(host.cwd, p) \in Texts /\ ToAbsolute(host.cwd, p) # Empty
           /\ IsAbsolute(ToAbsolute(host.cwd, p))
           /\ ToAbsolute(host.cwd, p)[1] = host.cwd[1]
           /\ Split(ToAbsolute(host.cwd, p), "/") = Split(host.cwd, "/") \o Split(p, "/")
  <1> DEFINE cwd == host.cwd
             nc == Normalize(cwd)
             s == <<"/">>
             h == nc \o s
  <1>1. /\ cwd \in Texts /\ cwd # Empty /\ host.windows \in BOOLEAN
        /\ host.windows => Len(cwd) > 1 /\ cwd[1] = "C:" /\ cwd[2] = "/"
        /\ ~host.windows => cwd[1] = "/"
    BY HostTyped
  <1>2. nc \in Texts /\ nc # Empty /\ nc[1] = cwd[1] /\ Split(nc, "/") = Split(cwd, "/")
    BY <1>1, NormalizeSplit, NormalizeFirst
  <1>3. PICK u \in Texts : AppendTo(nc, p) = h \o u
    BY <1>2, AppendToIs
  <1>4. AppendTo(nc, p) \in Texts /\ Split(AppendTo(nc, p), "/") = Split(nc, "/") \o Split(p, "/")
    BY <1>2, AppendToIs
  <1>5. ToAbsolute(cwd, p) = AppendTo(nc, p)
    BY DEF ToAbsolute
  <1>6. s \in Seq(Tokens) /\ Len(s) = 1 /\ s[1] = "/"
    BY DirTokens
  <1> DEFINE v == h \o u
  <1>7. Len(nc) \in Nat /\ Len(nc) > 0 /\ nc \in Seq(Tokens) /\ u \in Seq(Tokens) /\ Len(u) \in Nat
    BY <1>2, TextTyped
  <1>8. host.windows => nc = <<"C:">> \/ (Len(nc) > 1 /\ nc[1] = "C:" /\ nc[2] = "/")
    BY <1>1, NormalizeDrive
  <1> HIDE DEF s, nc, cwd
  <1>9. Joins(Tokens, nc, s, h)
    BY <1>6, <1>7, Concat
  <1> HIDE DEF h
  <1>10. /\ h \in Seq(Tokens) /\ Len(h) = Len(nc) + 1 /\ h[Len(nc) + 1] = "/"
         /\ \A i \in 1..Len(nc) : h[i] = nc[i]
    BY <1>6, <1>9 DEF Joins
  <1>11. Joins(Tokens, h, u, v)
    BY <1>7, <1>10, Concat
  <1> HIDE DEF v
  <1>12. Len(v) = Len(h) + Len(u) /\ \A i \in 1..Len(h) : v[i] = h[i]
    BY <1>11 DEF Joins
  <1>13. Len(v) > 1 /\ v[1] = cwd[1]
    <2>1. 1 \in 1..Len(h) /\ 1 \in 1..Len(nc)
      BY <1>7, <1>10
    <2> QED BY <1>2, <1>7, <1>10, <1>12, <2>1
  <1>14. IsAbsolute(v)
    <2>1. CASE ~host.windows
      BY <1>1, <1>13, <2>1 DEF IsAbsolute
    <2>2. CASE host.windows /\ nc = <<"C:">>
      <3>1. Len(nc) = 1
        BY <2>2
      <3>2. h[2] = "/" /\ 2 \in 1..Len(h)
        BY <1>10, <3>1
      <3>3. v[2] = "/"
        BY <1>12, <3>2
      <3> QED BY <1>1, <1>13, <2>2, <3>3 DEF IsAbsolute
    <2>3. CASE host.windows /\ Len(nc) > 1 /\ nc[2] = "/"
      <3>1. 2 \in 1..Len(nc) /\ 2 \in 1..Len(h)
        BY <1>7, <1>10, <2>3
      <3>2. v[2] = "/"
        BY <1>10, <1>12, <2>3, <3>1
      <3> QED BY <1>1, <1>13, <2>3, <3>2 DEF IsAbsolute
    <2> QED BY <1>1, <1>8, <2>1, <2>2, <2>3
  <1>15. v # Empty
    <2>1. Len(Empty) = 0
      BY DEF Empty
    <2> QED BY <1>13, <2>1
  <1>16. ToAbsolute(cwd, p) = v
    BY <1>3, <1>5 DEF v
  <1>17. Split(ToAbsolute(cwd, p), "/") = Split(cwd, "/") \o Split(p, "/") /\ ToAbsolute(cwd, p) \in Texts
    BY <1>2, <1>4, <1>5, Zenon
  <1> QED BY <1>13, <1>14, <1>15, <1>16, <1>17 DEF cwd

-----------------------------------------------------------------------------
(* The source directory *)

LEMMA LibsTyped == <<".libs">> # Empty
  BY DEF Empty

\* The directory of a C program is absolute.
LEMMA SourceDirIs ==
    ASSUME host \in Hosts, opts.srcdir \in Texts, opts.srcdir # Empty
    PROVE  /\ SourceDir \in Texts /\ SourceDir # Empty
           /\ ~(host.windows /\ SourceDir = <<"C:">>) => IsAbsolute(SourceDir)
  <1> DEFINE abs == IF IsAbsolute(opts.srcdir) THEN opts.srcdir ELSE ToAbsolute(host.cwd, opts.srcdir)
  <1>1. abs \in Texts /\ abs # Empty /\ IsAbsolute(abs)
    <2>1. CASE IsAbsolute(opts.srcdir)
      BY <2>1
    <2>2. CASE ~IsAbsolute(opts.srcdir)
      BY <2>2, ToAbsoluteIs
    <2> QED BY <2>1, <2>2
  <1>2. SourceDir = StripLibtool(abs)
    BY DEF SourceDir, FromRoot
  <1> HIDE DEF abs
  <1>3. CASE LeafName(abs) = Libs
    <2>1. SourceDir = BranchPath(abs)
      BY <1>2, <1>3 DEF StripLibtool
    <2>2. BranchPath(abs) \in Texts /\ BranchPath(abs) # Empty
      BY <1>1, BranchTyped
    <2>3. ~(host.windows /\ BranchPath(abs) = <<"C:">>) => IsAbsolute(BranchPath(abs))
      BY <1>1, BranchAbsolute
    <2> QED BY <2>1, <2>2, <2>3
  <1>4. CASE LeafName(abs) # Libs
    BY <1>1, <1>2, <1>4 DEF StripLibtool
  <1> QED BY <1>3, <1>4

LEMMA CxxSourceDirIs ==
    ASSUME host \in Hosts, opts.srcdir \in Texts
    PROVE  CxxSourceDir \in Texts /\ CxxSourceDir # Empty
  <1> DEFINE own == CxxBranchPath(Normalize(Argv0))
  <1>1. \A p \in Texts : CxxBranchPath(p) \in Texts /\ CxxBranchPath(p) # Empty
    <2> TAKE p \in Texts
    <2>1. BranchPath(p) \in Texts /\ BranchPath(p) # Empty
      BY BranchTyped
    <2> QED BY <2>1, NormalizeSplit, NormalizeFirst DEF CxxBranchPath
  <1>2. own \in Texts /\ own # Empty
    <2>1. Normalize(Argv0) \in Texts
      BY Argv0Is, NormalizeSplit
    <2> QED BY <1>1, <2>1
  <1>3. opts.srcdir # Empty => Normalize(opts.srcdir) \in Texts /\ Normalize(opts.srcdir) # Empty
    BY NormalizeSplit, NormalizeFirst
  <1>4. CASE opts.srcdir # Empty
    BY <1>3, <1>4 DEF CxxSourceDir
  <1>5. CASE opts.srcdir = Empty /\ LeafName(own) = Libs
    BY <1>1, <1>2, <1>5 DEF CxxSourceDir
  <1>6. CASE opts.srcdir = Empty /\ LeafName(own) # Libs
    BY <1>2, <1>6 DEF CxxSourceDir
  <1> QED BY <1>4, <1>5, <1>6

\* Where a path leads depends on its names, and on whether it starts at the drive.
LEMMA ResolveSame ==
    ASSUME NEW p, NEW q, Split(p, "/") = Split(q, "/"), (p[1] = "C:") <=> (q[1] = "C:"),
           IsAbsolute(p), IsAbsolute(q)
    PROVE  Resolve(p) = Resolve(q)
  BY DEF Resolve, FromRoot

LEMMA LongerAbsolute ==
    ASSUME NEW p \in Texts, p # Empty, NEW s \in Texts
    PROVE  /\ p \o s \in Texts /\ p \o s # Empty
           /\ (p \o s)[1] = p[1]
           /\ Len(p) > 1 => (p \o s)[2] = p[2]
           /\ IsAbsolute(p) => IsAbsolute(p \o s)
  <1> DEFINE u == p \o s
  <1>1. Len(p) \in Nat /\ Len(p) > 0 /\ Len(s) \in Nat /\ Joins(Tokens, p, s, u)
    BY TextTyped, Concat DEF Texts
  <1> HIDE DEF u
  <1>2. u \in Texts /\ Len(u) = Len(p) + Len(s) /\ \A i \in 1..Len(p) : u[i] = p[i]
    BY <1>1 DEF Joins, Texts
  <1>3. u[1] = p[1] /\ Len(u) > 0 /\ (Len(p) > 1 => u[2] = p[2] /\ Len(u) > 1)
    <2>1. 1 \in 1..Len(p) /\ (Len(p) > 1 => 2 \in 1..Len(p))
      BY <1>1
    <2> QED BY <1>1, <1>2, <2>1
  <1>4. u # Empty
    <2>1. Len(Empty) = 0
      BY DEF Empty
    <2> QED BY <1>3, <2>1
  <1>5. IsAbsolute(p) => IsAbsolute(u)
    BY <1>3 DEF IsAbsolute
  <1> QED BY <1>2, <1>3, <1>4, <1>5 DEF u

LEMMA SplitNotEmpty ==
    ASSUME NEW w \in Texts, w # Empty, w[1] # "/"
    PROVE  Split(w, "/") \in Seq(PathNames) /\ Len(Split(w, "/")) \in Nat /\ Len(Split(w, "/")) > 0
  <1> DEFINE ns == Split(w, "/")
  <1>1. ns \in Seq(PathNames)
    BY NormalizeSplit
  <1>2. ns # <<>>
    BY SplitLeads DEF Empty
  <1> HIDE DEF ns
  <1>3. Len(ns) \in Nat /\ Len(ns) > 0
    BY <1>1, <1>2
  <1> QED BY <1>1, <1>3 DEF ns

\* A relative directory made absolute is where the program was found: in it
\* from the working directory.
LEMMA MadeAbsolute ==
    ASSUME host \in Hosts, NEW d \in Texts, d # Empty, ~IsAbsolute(d),
           ~(host.windows /\ d = <<"C:">>), NEW w \in PathNames
    PROVE  LET t == CxxToAbsolute(host.cwd, d)
           IN  /\ t \in Texts /\ IsAbsolute(t)
               /\ Resolve((t \o <<"/">>) \o w) = Resolve((d \o <<"/">>) \o w)
  <1> DEFINE cwd == host.cwd
             a == ToAbsolute(cwd, d)
             t == Normalize(a)
             x == (t \o <<"/">>) \o w
             y == (d \o <<"/">>) \o w
             z == ToAbsolute(cwd, y)
             cs == Split(cwd, "/")
             ds == Split(d, "/")
             ws == Split(w, "/")
  <1>1. /\ cwd \in Texts /\ cwd # Empty /\ host.windows \in BOOLEAN
        /\ host.windows => cwd[1] = "C:"
        /\ ~host.windows => cwd[1] = "/"
    BY HostTyped
  <1>2. d[1] # "/" /\ (host.windows => ~(Len(d) > 1 /\ d[1] = "C:" /\ d[2] = "/"))
    BY DEF IsAbsolute
  <1>3. w \in Texts
    BY DEF PathNames, NamesOf
  <1>4. a \in Texts /\ a # Empty /\ IsAbsolute(a) /\ a[1] = cwd[1] /\ Split(a, "/") = cs \o ds
    BY ToAbsoluteIs
  <1>5. t \in Texts /\ t # Empty /\ t[1] = cwd[1] /\ Split(t, "/") = cs \o ds
    <2> HIDE DEF a
    <2> QED BY <1>4, NormalizeSplit, NormalizeFirst
  <1>6. IsAbsolute(t)
    <2>1. CASE ~host.windows
      BY <1>1, <1>5, <2>1 DEF IsAbsolute
    <2>2. CASE host.windows
      <3>1. Len(a) > 1 /\ a[1] = "C:" /\ a[2] = "/"
        <4>1. a[1] # "/"
          BY <1>1, <1>4, <2>2
        <4> QED BY <1>4, <4>1 DEF IsAbsolute
      <3>2. t = <<"C:">> \/ (Len(t) > 1 /\ t[1] = "C:" /\ t[2] = "/")
        BY <1>4, <3>1, NormalizeDrive
      <3>3. t # <<"C:">>
        <4>1. SUFFICES ASSUME t = <<"C:">> PROVE FALSE
          OBVIOUS
        <4>2. <<"C:">> \in PathNames
          BY DirTokens DEF PathNames, NamesOf, Texts
        <4>3. Split(<<"C:">>, "/") = << <<"C:">> >>
          BY <4>2, SplitOne DEF PathNames
        <4>4. Len(cs \o ds) = 1
          BY <1>5, <4>1, <4>3, SMTT(30)
        <4>5. /\ cs \in Seq(PathNames) /\ Len(cs) \in Nat /\ Len(cs) > 0
              /\ ds \in Seq(PathNames) /\ Len(ds) \in Nat /\ Len(ds) > 0
          <5>1. cwd[1] # "/"
            BY <1>1, <2>2
          <5> HIDE DEF cwd
          <5> QED BY <1>1, <1>2, <5>1, SplitNotEmpty
        <4> HIDE DEF cs, ds
        <4>6. Joins(PathNames, cs, ds, cs \o ds)
          BY <4>5, Concat
        <4>7. Len(cs \o ds) = Len(cs) + Len(ds)
          BY <4>6 DEF Joins
        <4> QED BY <4>4, <4>5, <4>7
      <3> QED BY <2>2, <3>2, <3>3 DEF IsAbsolute
    <2> QED BY <1>1, <2>1, <2>2
  <1>7. /\ x \in Texts /\ Split(x, "/") = (cs \o ds) \o ws
        /\ IsAbsolute(x) /\ x[1] = cwd[1]
    <2> HIDE DEF t
    <2>1. x \in Texts /\ Split(x, "/") = Split(t, "/") \o ws
      BY <1>3, <1>5, Slash, SplitConcat
    <2> DEFINE h == t \o <<"/">>
    <2>2. h \in Texts /\ h # Empty /\ h[1] = t[1] /\ IsAbsolute(h)
      BY <1>5, <1>6, Slash, LongerAbsolute
    <2> HIDE DEF h
    <2>3. (h \o w)[1] = h[1] /\ IsAbsolute(h \o w)
      BY <1>3, <2>2, LongerAbsolute
    <2> QED BY <1>5, <2>1, <2>2, <2>3 DEF h
  <1>8. /\ y \in Texts /\ y # Empty /\ Split(y, "/") = ds \o ws /\ ~IsAbsolute(y)
    <2>1. y \in Texts /\ Split(y, "/") = ds \o ws
      BY <1>3, Slash, SplitConcat
    <2> DEFINE h == d \o <<"/">>
    <2>2. h \in Texts /\ h # Empty /\ h[1] = d[1] /\ (Len(d) > 1 => h[2] = d[2])
      BY Slash, LongerAbsolute
    <2>3. Len(h) = Len(d) + 1
      BY Slash, TextTyped
    <2> HIDE DEF h
    <2>4. h \o w # Empty /\ (h \o w)[1] = h[1] /\ (Len(h) > 1 => (h \o w)[2] = h[2])
      BY <1>3, <2>2, LongerAbsolute
    <2>5. y = h \o w
      BY DEF h
    <2>6. Len(d) \in Nat /\ Len(d) > 0
      BY TextTyped
    <2> HIDE DEF y
    <2>7. y[1] # "/"
      BY <1>2, <2>2, <2>4, <2>5
    <2>8. ASSUME host.windows, y[1] = "C:", y[2] = "/" PROVE FALSE
      <3>1. d[1] = "C:"
        BY <2>2, <2>4, <2>5, <2>8
      <3>2. CASE Len(d) = 1
        <4>1. d = <<"C:">>
          <5>1. d = <<d[1]>>
            BY <3>2, TextTyped, OnlyOne
          <5> QED BY <3>1, <5>1
        <4> QED BY <2>8, <4>1
      <3>3. CASE Len(d) > 1
        <4>1. Len(h) > 1
          BY <2>3, <2>6
        <4>2. y[2] = d[2]
          BY <2>2, <2>4, <2>5, <3>3, <4>1
        <4> QED BY <1>2, <2>8, <3>1, <3>3, <4>2
      <3>4. Len(d) = 1 \/ Len(d) > 1
        <4> DEFINE k == Len(d)
        <4> HIDE DEF k
        <4>1. k \in Nat /\ k > 0 => (k = 1 \/ k > 1)
          OBVIOUS
        <4> QED BY <2>6, <4>1, Zenon DEF k
      <3> QED BY <3>2, <3>3, <3>4
    <2>9. ~IsAbsolute(y)
      BY <2>7, <2>8 DEF IsAbsolute
    <2> QED BY <2>1, <2>4, <2>5, <2>9 DEF y
  <1>9. z \in Texts /\ IsAbsolute(z) /\ z[1] = cwd[1] /\ Split(z, "/") = cs \o (ds \o ws)
    <2>1. z \in Texts /\ IsAbsolute(z) /\ z[1] = cwd[1] /\ Split(z, "/") = cs \o Split(y, "/")
      BY <1>8, ToAbsoluteIs
    <2> QED BY <1>8, <2>1
  <1>10. Resolve(y) = Resolve(z)
    <2> HIDE DEF y
    <2> QED BY <1>8, <1>9 DEF Resolve, FromRoot
  <1>11. (cs \o ds) \o ws = cs \o (ds \o ws)
    <2>1. cs \in Seq(PathNames) /\ ds \in Seq(PathNames) /\ ws \in Seq(PathNames)
      <3> HIDE DEF cwd
      <3> QED BY <1>1, <1>3, NormalizeSplit
    <2> QED BY <2>1, Associative, SMTT(30)
  <1>12. Resolve(x) = Resolve(z)
    <2> HIDE DEF x, z
    <2>1. Split(x, "/") = Split(z, "/") /\ x[1] = z[1]
      BY <1>7, <1>9, <1>11
    <2> QED BY <1>7, <1>9, <2>1, ResolveSame
  <1>13. CxxToAbsolute(cwd, d) = t
    BY DEF CxxToAbsolute
  <1> QED BY <1>5, <1>6, <1>10, <1>12, <1>13

-----------------------------------------------------------------------------
(* Maps *)

Entries == Texts \X Texts

\* No key twice.
Distinct(m) == \A i, j \in 1..Len(m) : m[i][1] = m[j][1] => i = j

LEMMA MapTyped ==
    ASSUME NEW m \in Maps
    PROVE  /\ m \in Seq(Entries) /\ Len(m) \in Nat /\ DOMAIN m = 1..Len(m)
           /\ \A i \in 1..Len(m) : m[i] \in Entries
  BY DEF Maps, Entries

LEMMA FindIs ==
    ASSUME NEW m \in Maps, NEW k
    PROVE  /\ Find(m, k) \in 0..Len(m)
           /\ Find(m, k) # 0 => m[Find(m, k)][1] = k
           /\ \A i \in 1..Len(m) : m[i][1] = k => Find(m, k) # 0
  <1> DEFINE is == {i \in DOMAIN m : m[i][1] = k}
  <1>1. /\ Len(m) \in Nat /\ is \in SUBSET (1..Len(m)) /\ \A i \in is : m[i][1] = k
        /\ \A i \in 1..Len(m) : m[i][1] = k => i \in is
    BY MapTyped
  <1>2. Find(m, k) = IF is = {} THEN 0 ELSE Min(is)
    BY DEF Find
  <1> HIDE DEF is
  <1>3. CASE is = {}
    BY <1>1, <1>2, <1>3
  <1>4. CASE is # {}
    <2>1. Min(is) \in is
      BY <1>1, <1>4, MinIn
    <2>2. Min(is) \in 1..Len(m) /\ m[Min(is)][1] = k
      BY <1>1, <2>1
    <2> QED BY <1>1, <1>2, <1>4, <2>2
  <1> QED BY <1>3, <1>4

\* A key that is nowhere is not found, and one that is once is found there.
LEMMA FindOnly ==
    ASSUME NEW m \in Maps, NEW k, NEW i \in 1..Len(m), m[i][1] = k,
           \A j \in 1..Len(m) : m[j][1] = k => j = i
    PROVE  Find(m, k) = i
  <1>1. /\ Find(m, k) \in 0..Len(m) /\ Find(m, k) # 0
        /\ Find(m, k) # 0 => m[Find(m, k)][1] = k
    BY FindIs
  <1>2. Len(m) \in Nat
    BY MapTyped
  <1>3. Find(m, k) \in 1..Len(m)
    BY <1>1, <1>2
  <1> QED BY <1>1, <1>3

\* Insert gives the key its value and leaves the others theirs.
LEMMA InsertIs ==
    ASSUME NEW m \in Maps, NEW k \in Texts, NEW v \in Texts
    PROVE  /\ Insert(m, k, v) \in Maps
           /\ Has(Insert(m, k, v), k) /\ Value(Insert(m, k, v), k) = v
           /\ Distinct(m) => Distinct(Insert(m, k, v))
  <1> DEFINE kv == <<k, v>>
             n == Len(m)
             f == Find(m, k)
             u == Insert(m, k, v)
  <1>1. /\ m \in Seq(Entries) /\ n \in Nat /\ DOMAIN m = 1..n
        /\ f \in 0..n /\ (f # 0 => m[f][1] = k)
        /\ \A i \in 1..n : m[i][1] = k => f # 0
    BY MapTyped, FindIs
  <1>2. kv \in Entries /\ kv[1] = k /\ kv[2] = v
    BY DEF Entries
  <1> HIDE DEF kv
  <1>3. CASE f # 0
    <2>1. u = [m EXCEPT ![f] = kv]
      BY <1>3 DEF Insert, Has, kv
    <2>2. f \in 1..n
      BY <1>1, <1>3
    <2> HIDE DEF f, n, u
    <2>3. /\ u \in Seq(Entries) /\ Len(u) = n /\ DOMAIN u = 1..n /\ u[f] = kv
          /\ \A i \in 1..n : i # f => u[i] = m[i]
      <3>1. m \in [1..n -> Entries]
        BY <1>1 DEF n
      <3>2. u \in [1..n -> Entries] /\ u[f] = kv /\ \A i \in 1..n : i # f => u[i] = m[i]
        BY <1>2, <2>1, <2>2, <3>1
      <3>3. u \in Seq(Entries) /\ Len(u) = n
        BY <1>1, <3>2
      <3> QED BY <3>2, <3>3
    <2>4. \A i \in 1..n : u[i][1] = m[i][1]
      <3> TAKE i \in 1..n
      <3>1. CASE i = f
        BY <1>1, <1>2, <1>3, <2>3, <3>1
      <3>2. CASE i # f
        BY <2>3, <3>2
      <3> QED BY <3>1, <3>2
    <2>5. Find(u, k) = f
      <3>1. {i \in DOMAIN u : u[i][1] = k} = {i \in DOMAIN m : m[i][1] = k}
        BY <1>1, <2>3, <2>4
      <3>2. Find(u, k) = Find(m, k)
        BY <3>1, Zenon DEF Find
      <3> QED BY <3>2 DEF f
    <2>6. Has(u, k) /\ Value(u, k) = v
      BY <1>2, <1>3, <2>3, <2>5 DEF Has, Value
    <2>7. Distinct(m) => Distinct(u)
      BY <2>3, <2>4 DEF Distinct, n
    <2>8. u \in Maps
      BY <2>3 DEF Maps, Entries
    <2> QED BY <2>6, <2>7, <2>8 DEF u
  <1>4. CASE f = 0
    <2>1. u = Append(m, kv)
      BY <1>4 DEF Insert, Has, kv
    <2>2. \A i \in 1..n : m[i][1] # k
      BY <1>1, <1>4
    <2> HIDE DEF f, n, u
    <2>3. /\ u \in Seq(Entries) /\ Len(u) = n + 1 /\ u[n + 1] = kv
          /\ \A i \in 1..n : u[i] = m[i]
      BY <1>1, <1>2, <2>1, Appended DEF n
    <2>4. \A i \in 1..Len(u) : i \in 1..n \/ i = n + 1
      BY <1>1, <2>3
    <2>5. u \in Maps /\ n + 1 \in 1..Len(u)
      BY <1>1, <2>3 DEF Maps, Entries
    <2>6. \A i \in 1..Len(u) : u[i][1] = k => i = n + 1
      BY <2>2, <2>3, <2>4
    <2>7. Find(u, k) = n + 1
      BY <1>2, <2>3, <2>5, <2>6, FindOnly
    <2>8. Has(u, k) /\ Value(u, k) = v
      BY <1>1, <1>2, <2>3, <2>7 DEF Has, Value
    <2>9. ASSUME Distinct(m), NEW i \in 1..Len(u), NEW j \in 1..Len(u), u[i][1] = u[j][1] PROVE i = j
      <3>1. CASE i \in 1..n /\ j \in 1..n
        BY <2>3, <2>9, <3>1 DEF Distinct, n
      <3>2. CASE i = n + 1
        BY <1>2, <2>3, <2>6, <2>9, <3>2
      <3>3. CASE j = n + 1
        BY <1>2, <2>3, <2>6, <2>9, <3>3
      <3> QED BY <2>4, <3>1, <3>2, <3>3
    <2>10. Distinct(m) => Distinct(u)
      BY <2>9 DEF Distinct
    <2> QED BY <2>5, <2>8, <2>10 DEF u
  <1> QED BY <1>3, <1>4

LEMMA EntryTyped ==
    \A m \in Maps : \A kv \in Entries :
        InsertEntry(m, kv) \in Maps /\ (Distinct(m) => Distinct(InsertEntry(m, kv)))
  <1> TAKE m \in Maps
  <1> TAKE kv \in Entries
  <1>1. kv[1] \in Texts /\ kv[2] \in Texts
    BY DEF Entries
  <1> QED BY <1>1, InsertIs DEF InsertEntry

Entering(base, kvs) ==
    {c \in [0..Len(kvs) -> Maps] :
        c[0] = base /\ \A i \in 1..Len(kvs) : c[i] = InsertEntry(c[i - 1], kvs[i])}

\* One entry after the other.
LEMMA EnterChain ==
    ASSUME NEW base \in Maps, NEW kvs \in Seq(Entries)
    PROVE  \E c \in Entering(base, kvs) : InsertAll(base, kvs) = c[Len(kvs)]
  <1> DEFINE n == Len(kvs)
             start == base
             D == Maps
             F == [i \in 1..n |-> [s \in D |-> InsertEntry(s, kvs[i])]]
             fold == InsertAll(base, kvs)
  <1>1. n \in Nat /\ DOMAIN kvs = 1..n /\ start \in D /\ \A i \in 1..n : kvs[i] \in Entries
    <2>1. start \in D
      BY EntryTyped
    <2>2. kvs \in Seq(Entries)
      BY DEF Texts, Maps
    <2> QED BY <2>1, <2>2, Typed
  <1>2. \A i \in 1..n : \A s \in D : InsertEntry(s, kvs[i]) \in D
    BY <1>1, EntryTyped
  <1>3. F \in [1..n -> [D -> D]]
    BY <1>2
  <1>4. \A i \in 1..n : \A s \in D : F[i][s] = InsertEntry(s, kvs[i])
    OBVIOUS
  <1> DEFINE iter[s \in SUBSET (1..n)] ==
               IF s = {} THEN start
               ELSE LET x == Max(s) IN InsertEntry(iter[s \ {x}], kvs[x])
  <1>5. fold = iter[1..n]
    BY <1>1 DEF InsertAll, FoldLeft, MapThenFoldSet
  <1> HIDE DEF F, start, D, n
  <1>6. PICK g \in LargestFirst(D, start, n, F) : TRUE
    BY <1>1, <1>3, SubsetRecursion
  <1>7. /\ g \in [SUBSET (1..n) -> D]
        /\ \A s \in SUBSET (1..n) : g[s] = IF s = {} THEN start ELSE F[Max(s)][g[s \ {Max(s)}]]
    BY <1>6 DEF LargestFirst
  <1>8. ASSUME NEW s \in SUBSET (1..n)
        PROVE  g[s] = IF s = {} THEN start ELSE InsertEntry(g[s \ {Max(s)}], kvs[Max(s)])
    <2>1. CASE s = {}
      BY <1>7, <2>1
    <2>2. CASE s # {}
      <3>1. Max(s) \in 1..n
        BY <1>1, <2>2, MaxIn
      <3>2. g[s \ {Max(s)}] \in D
        BY <1>7
      <3>3. g[s] = F[Max(s)][g[s \ {Max(s)}]]
        BY <1>7, <2>2, Zenon
      <3> QED BY <1>4, <2>2, <3>1, <3>2, <3>3, Zenon
    <2> QED BY <2>1, <2>2
  <1>9. g = [s \in SUBSET (1..n) |->
                IF s = {} THEN start ELSE InsertEntry(g[s \ {Max(s)}], kvs[Max(s)])]
    BY <1>7, <1>8, Zenon
  <1>10. iter = [s \in SUBSET (1..n) |->
                    IF s = {} THEN start ELSE InsertEntry(iter[s \ {Max(s)}], kvs[Max(s)])]
    BY <1>9 DEF iter
  <1> HIDE DEF iter
  <1>11. iter[{}] = start
    BY <1>10, Zenon
  <1>12. ASSUME NEW s \in SUBSET (1..n), s # {}, iter[s \ {Max(s)}] \in D
         PROVE  iter[s] = F[Max(s)][iter[s \ {Max(s)}]]
    <2>1. Max(s) \in 1..n
      BY <1>1, <1>12, MaxIn
    <2>2. iter[s] = InsertEntry(iter[s \ {Max(s)}], kvs[Max(s)])
      BY <1>10, <1>12, Zenon
    <2> QED BY <1>4, <1>12, <2>1, <2>2, Zenon
  <1>13. PICK c \in Chains(D, start, n, F) : iter[1..n] = c[n]
    <2>1. FoldsTo(D, start, n, F, iter)
      BY <1>11, <1>12 DEF FoldsTo
    <2>2. ChainsOf(D, start, n, F, iter[1..n]) # {}
      BY <1>1, <1>3, <2>1, FoldChain
    <2> QED BY <2>2 DEF ChainsOf
  <1>14. c \in [0..n -> D] /\ c[0] = start /\ \A i \in 1..n : c[i] = F[i][c[i - 1]]
    BY <1>13 DEF Chains
  <1>15. ASSUME NEW i \in 1..n PROVE c[i] = InsertEntry(c[i - 1], kvs[i])
    <2>1. c[i - 1] \in D
      BY <1>1, <1>14
    <2> QED BY <1>4, <1>14, <2>1, Zenon
  <1> HIDE DEF fold
  <1>16. c \in Entering(base, kvs)
    BY <1>14, <1>15, Zenon DEF Entering, D, n, start
  <1> QED BY <1>5, <1>13, <1>16, Zenon DEF fold, start, n

LEMMA NoEntries == Empty \in Maps /\ Distinct(Empty) /\ Len(Empty) = 0
  <1>1. Empty \in Maps /\ Len(Empty) = 0
    BY DEF Empty, Maps
  <1> QED BY <1>1 DEF Distinct

\* Entries entered into a map leave it a map.
LEMMA InsertAllTyped ==
    ASSUME NEW base \in Maps, NEW kvs \in Seq(Entries)
    PROVE  InsertAll(base, kvs) \in Maps
  <1>1. PICK c \in Entering(base, kvs) : InsertAll(base, kvs) = c[Len(kvs)]
    BY EnterChain
  <1>2. c \in [0..Len(kvs) -> Maps] /\ Len(kvs) \in 0..Len(kvs)
    BY <1>1 DEF Entering
  <1> QED BY <1>1, <1>2

\* Entries of different keys entered one after the other.
LEMMA InsertAllSame ==
    ASSUME NEW m \in Maps, Distinct(m)
    PROVE  InsertAll(Empty, m) = m
  <1> DEFINE n == Len(m)
             cut(i) == SubSeq(m, 1, i)
  <1>1. n \in Nat /\ n \in 0..n /\ m \in Seq(Entries) /\ \A i \in 1..n : m[i] \in Entries
    BY MapTyped
  <1>2. PICK c \in Entering(Empty, m) : InsertAll(Empty, m) = c[n]
    BY <1>1, NoEntries, EnterChain
  <1>3. /\ c \in [0..n -> Maps] /\ c[0] = Empty
        /\ \A i \in 1..n : c[i] = InsertEntry(c[i - 1], m[i])
    BY <1>2 DEF Entering
  <1>4. \A i \in 0..n : cut(i) \in Seq(Entries) /\ Len(cut(i)) = i /\ \A j \in 1..i : cut(i)[j] = m[j]
    <2> TAKE i \in 0..n
    <2>1. 0 \in 0..n /\ i \in 0..n /\ 0 + 1 = 1 /\ i - 0 = i /\ \A j \in 1..i : 0 + j = j
      BY <1>1
    <2> QED BY <1>1, <2>1, Cut
  <1>5. cut(0) = Empty
    BY <1>1, <1>4 DEF Empty
  <1>6. cut(n) = m
    <2>1. cut(n) \in Seq(Entries) /\ Len(cut(n)) = n /\ \A j \in 1..n : cut(n)[j] = m[j]
      BY <1>1, <1>4
    <2> HIDE DEF cut
    <2> QED BY <1>1, <2>1, Same
  <1>7. ASSUME NEW i \in 0..n, i < n PROVE InsertEntry(cut(i), m[i + 1]) = cut(i + 1)
    <2> DEFINE kv == m[i + 1]
               h == cut(i)
               u == Append(h, kv)
    <2>1. i + 1 \in 0..n /\ i + 1 \in 1..n /\ i \in Nat /\ i \in 0..n
      BY <1>1, <1>7
    <2>2. h \in Seq(Entries) /\ Len(h) = i /\ \A j \in 1..i : h[j] = m[j]
      BY <1>4
    <2>3. cut(i + 1) \in Seq(Entries) /\ Len(cut(i + 1)) = i + 1 /\ \A j \in 1..(i + 1) : cut(i + 1)[j] = m[j]
      BY <1>4, <2>1
    <2>4. kv \in Entries /\ kv = <<kv[1], kv[2]>>
      <3>1. kv \in Entries
        BY <1>1, <2>1
      <3> HIDE DEF kv
      <3> QED BY <3>1 DEF Entries
    <2>5. \A j \in 1..i : m[j][1] # kv[1]
      <3> TAKE j \in 1..i
      <3>1. j \in 1..n /\ j # i + 1
        BY <1>1, <2>1
      <3> QED BY <2>1, <3>1 DEF Distinct
    <2> HIDE DEF kv, h, cut
    <2>6. ~Has(h, kv[1])
      <3>1. h \in Maps
        BY <2>2 DEF Maps, Entries
      <3>2. /\ Find(h, kv[1]) \in 0..Len(h)
            /\ Find(h, kv[1]) # 0 => h[Find(h, kv[1])][1] = kv[1]
        BY <3>1, FindIs
      <3>3. Find(h, kv[1]) # 0 => Find(h, kv[1]) \in 1..i
        BY <2>1, <2>2, <3>2
      <3> QED BY <2>2, <2>5, <3>2, <3>3 DEF Has
    <2>7. InsertEntry(h, kv) = u
      BY <2>4, <2>6 DEF InsertEntry, Insert
    <2>8. /\ u \in Seq(Entries) /\ Len(u) = i + 1 /\ u[i + 1] = kv
          /\ \A j \in 1..i : u[j] = m[j]
      BY <2>1, <2>2, <2>4, Appended
    <2> HIDE DEF u
    <2>9. \A j \in 1..(i + 1) : u[j] = cut(i + 1)[j]
      <3> TAKE j \in 1..(i + 1)
      <3>1. j = i + 1 \/ j \in 1..i
        BY <2>1
      <3>2. CASE j = i + 1
        BY <2>1, <2>3, <2>8, <3>2 DEF kv
      <3>3. CASE j \in 1..i
        BY <2>3, <2>8, <3>3
      <3> QED BY <3>1, <3>2, <3>3
    <2>10. u = cut(i + 1)
      BY <2>3, <2>8, <2>9, Same
    <2> QED BY <2>7, <2>10 DEF h, kv
  <1> HIDE DEF cut, n
  <1> DEFINE T == {i \in 0..n : c[i] = cut(i)}
  <1>8. 0 \in T
    BY <1>1, <1>3, <1>5
  <1>9. ASSUME NEW i \in 0..n, i \in T, i < n PROVE i + 1 \in T
    <2>1. i + 1 \in 0..n /\ i + 1 \in 1..n /\ (i + 1) - 1 = i
      BY <1>1, <1>9
    <2>2. c[i + 1] = InsertEntry(c[i], m[i + 1]) /\ c[i] = cut(i)
      BY <1>3, <1>9, <2>1
    <2>3. c[i + 1] = cut(i + 1)
      BY <1>7, <1>9, <2>2
    <2> QED BY <2>1, <2>3
  <1> HIDE DEF T
  <1>10. \A i \in 0..n : i \in T
    BY <1>1, <1>8, <1>9, StepsUpTo
  <1>11. c[n] = cut(n)
    BY <1>1, <1>10 DEF T
  <1> QED BY <1>2, <1>6, <1>11

\* A map written as an array of keys and values and read back is the map: a
\* test case gets the configuration that its program has, entry by entry.
THEOREM CharppRoundTrip ==
    ASSUME NEW m \in Maps, Distinct(m)
    PROVE  InitCharpp(ToCharpp(m)) = m
  <1> DEFINE n == Len(m)
             array == ToCharpp(m)
             kvs == [i \in 1..(Len(array) \div 2) |-> <<array[2 * i - 1], array[2 * i]>>]
  <1>1. n \in Nat /\ m \in Seq(Entries) /\ \A i \in 1..n : m[i] \in Entries
    BY MapTyped
  <1>2. \A i \in 1..n : m[i] = <<m[i][1], m[i][2]>>
    BY <1>1 DEF Entries
  <1> HIDE DEF n
  <1>3. array = [i \in 1..(2 * n) |-> m[(i + 1) \div 2][IF i % 2 = 1 THEN 1 ELSE 2]]
    BY DEF ToCharpp, n
  <1> HIDE DEF array
  <1>4. Len(array) \div 2 = n
    <2>1. Len(array) = 2 * n
      BY <1>1, <1>3
    <2>2. (2 * n) \div 2 = n
      BY <1>1
    <2> QED BY <2>1, <2>2
  <1>5. ASSUME NEW i \in 1..n PROVE <<array[2 * i - 1], array[2 * i]>> = m[i]
    <2>1. 2 * i - 1 \in 1..(2 * n) /\ 2 * i \in 1..(2 * n)
      BY <1>1
    <2>2. ((2 * i - 1) + 1) \div 2 = i /\ (2 * i - 1) % 2 = 1
      BY <1>1
    <2>3. (2 * i + 1) \div 2 = i /\ (2 * i) % 2 = 0
      BY <1>1
    <2>4. array[2 * i - 1] = m[i][1]
      BY <1>3, <2>1, <2>2
    <2>5. array[2 * i] = m[i][2]
      BY <1>3, <2>1, <2>3
    <2> QED BY <1>2, <2>4, <2>5
  <1>6. kvs = m
    <2>1. kvs = [i \in 1..n |-> <<array[2 * i - 1], array[2 * i]>>]
      BY <1>4
    <2> HIDE DEF kvs
    <2>2. \A i \in 1..n : kvs[i] = m[i]
      BY <1>5, <2>1
    <2>3. m = [i \in 1..n |-> m[i]] /\ kvs = [i \in 1..n |-> kvs[i]]
      BY <1>1, <2>1 DEF n
    <2> QED BY <2>2, <2>3
  <1>7. InitCharpp(array) = InsertAll(Empty, kvs)
    BY DEF InitCharpp
  <1> HIDE DEF kvs
  <1> QED BY <1>6, <1>7, InsertAllSame DEF array

-----------------------------------------------------------------------------
(* What the steps leave alone *)

LEMMA ResolveStays ==
    ASSUME host' = host, NEW CONSTANT p
    PROVE  Resolve(p)' = Resolve(p) /\ IsAbsolute(p)' = IsAbsolute(p) /\ Exists(p)' = Exists(p)
  <1>1. IsAbsolute(p)' = IsAbsolute(p)
    BY DEF IsAbsolute
  <1>2. Resolve(p)' = Resolve(p)
    BY DEF Resolve, FromRoot, IsAbsolute
  <1>3. Exists(p)' = Exists(p)
    BY <1>2 DEF Exists
  <1> QED BY <1>1, <1>2, <1>3

\* The directory the program is looked for in, and what the test cases are told.
Dir == IF Cxx THEN CxxSourceDir ELSE SourceDir
Told == IF Cxx THEN CxxMakeAbsolute(Dir) ELSE Dir

\* The program was found and its directory is in the configuration.
Found == Exists(AppendTo(Dir, ProgName)) = "yes"
Located(c) == Has(c, Srcdir) /\ Value(c, Srcdir) = Told

LEMMA DirStays ==
    ASSUME host' = host, opts'.srcdir = opts.srcdir
    PROVE  Cxx' = Cxx /\ Dir' = Dir /\ Told' = Told /\ Found' = Found /\ AtDrive' = AtDrive
           /\ ProgName' = ProgName
  <1>1. Cxx' = Cxx /\ Argv0' = Argv0
    BY DEF Cxx, Argv0
  <1>2. ProgName' = ProgName
    BY <1>1 DEF ProgName
  <1>3. SourceDir' = SourceDir
    BY DEF SourceDir, FromRoot, IsAbsolute
  <1>4. CxxSourceDir' = CxxSourceDir
    BY <1>1 DEF CxxSourceDir
  <1>5. Dir' = Dir
    BY <1>1, <1>3, <1>4 DEF Dir
  <1>6. Told' = Told
    BY <1>1, <1>5 DEF Told, CxxMakeAbsolute, IsAbsolute
  <1>7. AppendTo(Dir, ProgName)' = AppendTo(Dir, ProgName)
    BY <1>2, <1>5
  <1>8. Found' = Found
    <2>1. \A p : Resolve(p)' = Resolve(p)
      BY DEF Resolve, FromRoot, IsAbsolute
    <2> QED BY <1>7, <2>1, ResolveStays DEF Found
  <1>9. AtDrive' = AtDrive
    BY <1>1, <1>3, <1>4 DEF AtDrive
  <1> QED BY <1>1, <1>2, <1>5, <1>6, <1>8, <1>9

-----------------------------------------------------------------------------
(* The command line *)

Line(os, how) == FoldLeft(LAMBDA line, o : PutOption(how, line, o), Empty, os)
Opts == [flag : Tokens, arg : Texts]
Lines == Seq(Texts)

LEMMA LineConcat ==
    /\ \A s, t \in Lines : s \o t \in Lines
    /\ \A w \in Texts : <<w>> \in Lines
    /\ Empty \in Lines
  BY DEF Lines, Empty

LEMMA OptionTokens == {"-", "l"} \subseteq Tokens
  BY AtfProgramAssumption

LEMMA WrittenTyped ==
    ASSUME NEW o \in Opts, NEW how
    PROVE  Written(o, how) \in Lines /\ Tail(Written(o, how)) \in Lines
  <1>1. o.flag \in Tokens /\ o.arg \in Texts
    BY DEF Opts
  <1>2. Dashed(o) \in Texts /\ Dashed(o) \o o.arg \in Texts
    <2>1. Dashed(o) \in Texts
      BY <1>1, OptionTokens DEF Dashed, Texts
    <2> QED BY <1>1, <2>1, TextConcat
  <1>3. \A w \in Texts : <<w>> \in Lines /\ Tail(<<w>>) \in Lines
    BY DEF Lines
  <1>4. \A v, w \in Texts : <<v, w>> \in Lines /\ Tail(<<v, w>>) \in Lines
    BY DEF Lines
  <1> QED BY <1>1, <1>2, <1>3, <1>4 DEF Written

LEMMA PutOptionTyped ==
    ASSUME NEW how
    PROVE  /\ Empty \in Lines
           /\ \A line \in Lines : \A o \in Opts : PutOption(how, line, o) \in Lines
  <1>1. ASSUME NEW line \in Lines, NEW o \in Opts PROVE PutOption(how, line, o) \in Lines
    <2>1. \A h : line \o Written(o, h) \in Lines
      BY WrittenTyped, LineConcat
    <2>2. CASE line # Empty /\ Last(line) = <<"-", "l">>
      <3> DEFINE w == <<"-", "l", o.flag>>
      <3>1. Front(line) \in Lines
        BY <2>2, FrontTyped DEF Lines, Empty
      <3>2. <<w>> \in Lines
        <4>1. w \in Texts
          BY OptionTokens DEF Opts, Texts
        <4> HIDE DEF w
        <4> QED BY <4>1, LineConcat
      <3>3. (Front(line) \o <<w>>) \o Tail(Written(o, "apart")) \in Lines
        BY <3>1, <3>2, WrittenTyped, LineConcat
      <3> QED BY <2>1, <2>2, <3>3 DEF PutOption, Clustered
    <2>3. CASE ~(line # Empty /\ Last(line) = <<"-", "l">>)
      BY <2>1, <2>3 DEF PutOption, Clustered
    <2> QED BY <2>2, <2>3
  <1> QED BY <1>1, LineConcat

Lining(how, os) ==
    {c \in [0..Len(os) -> Lines] :
        c[0] = Empty /\ \A i \in 1..Len(os) : c[i] = PutOption(how, c[i - 1], os[i])}

\* One option after the other.
LEMMA LineChain ==
    ASSUME NEW how, NEW os \in Seq(Opts)
    PROVE  \E c \in Lining(how, os) : Line(os, how) = c[Len(os)]
  <1> DEFINE n == Len(os)
             start == Empty
             D == Lines
             F == [i \in 1..n |-> [s \in D |-> PutOption(how, s, os[i])]]
             fold == Line(os, how)
  <1>1. n \in Nat /\ DOMAIN os = 1..n /\ start \in D /\ \A i \in 1..n : os[i] \in Opts
    <2>1. start \in D
      BY PutOptionTyped
    <2>2. os \in Seq(Opts)
      BY DEF Texts, Maps
    <2> QED BY <2>1, <2>2, Typed
  <1>2. \A i \in 1..n : \A s \in D : PutOption(how, s, os[i]) \in D
    BY <1>1, PutOptionTyped
  <1>3. F \in [1..n -> [D -> D]]
    BY <1>2
  <1>4. \A i \in 1..n : \A s \in D : F[i][s] = PutOption(how, s, os[i])
    OBVIOUS
  <1> DEFINE iter[s \in SUBSET (1..n)] ==
               IF s = {} THEN start
               ELSE LET x == Max(s) IN PutOption(how, iter[s \ {x}], os[x])
  <1>5. fold = iter[1..n]
    BY <1>1 DEF Line, FoldLeft, MapThenFoldSet
  <1> HIDE DEF F, start, D, n
  <1>6. PICK g \in LargestFirst(D, start, n, F) : TRUE
    BY <1>1, <1>3, SubsetRecursion
  <1>7. /\ g \in [SUBSET (1..n) -> D]
        /\ \A s \in SUBSET (1..n) : g[s] = IF s = {} THEN start ELSE F[Max(s)][g[s \ {Max(s)}]]
    BY <1>6 DEF LargestFirst
  <1>8. ASSUME NEW s \in SUBSET (1..n)
        PROVE  g[s] = IF s = {} THEN start ELSE PutOption(how, g[s \ {Max(s)}], os[Max(s)])
    <2>1. CASE s = {}
      BY <1>7, <2>1
    <2>2. CASE s # {}
      <3>1. Max(s) \in 1..n
        BY <1>1, <2>2, MaxIn
      <3>2. g[s \ {Max(s)}] \in D
        BY <1>7
      <3>3. g[s] = F[Max(s)][g[s \ {Max(s)}]]
        BY <1>7, <2>2, Zenon
      <3> QED BY <1>4, <2>2, <3>1, <3>2, <3>3, Zenon
    <2> QED BY <2>1, <2>2
  <1>9. g = [s \in SUBSET (1..n) |->
                IF s = {} THEN start ELSE PutOption(how, g[s \ {Max(s)}], os[Max(s)])]
    BY <1>7, <1>8, Zenon
  <1>10. iter = [s \in SUBSET (1..n) |->
                    IF s = {} THEN start ELSE PutOption(how, iter[s \ {Max(s)}], os[Max(s)])]
    BY <1>9 DEF iter
  <1> HIDE DEF iter
  <1>11. iter[{}] = start
    BY <1>10, Zenon
  <1>12. ASSUME NEW s \in SUBSET (1..n), s # {}, iter[s \ {Max(s)}] \in D
         PROVE  iter[s] = F[Max(s)][iter[s \ {Max(s)}]]
    <2>1. Max(s) \in 1..n
      BY <1>1, <1>12, MaxIn
    <2>2. iter[s] = PutOption(how, iter[s \ {Max(s)}], os[Max(s)])
      BY <1>10, <1>12, Zenon
    <2> QED BY <1>4, <1>12, <2>1, <2>2, Zenon
  <1>13. PICK c \in Chains(D, start, n, F) : iter[1..n] = c[n]
    <2>1. FoldsTo(D, start, n, F, iter)
      BY <1>11, <1>12 DEF FoldsTo
    <2>2. ChainsOf(D, start, n, F, iter[1..n]) # {}
      BY <1>1, <1>3, <2>1, FoldChain
    <2> QED BY <2>2 DEF ChainsOf
  <1>14. c \in [0..n -> D] /\ c[0] = start /\ \A i \in 1..n : c[i] = F[i][c[i - 1]]
    BY <1>13 DEF Chains
  <1>15. ASSUME NEW i \in 1..n PROVE c[i] = PutOption(how, c[i - 1], os[i])
    <2>1. c[i - 1] \in D
      BY <1>1, <1>14
    <2> QED BY <1>4, <1>14, <2>1, Zenon
  <1> HIDE DEF fold
  <1>16. c \in Lining(how, os)
    BY <1>14, <1>15, Zenon DEF Lining, D, n, start
  <1> QED BY <1>5, <1>13, <1>16, Zenon DEF fold, start, n

\* A command line is made of words.
LEMMA CommandLineTyped ==
    ASSUME NEW r \in Requests, NEW how
    PROVE  CommandLine(r, how) \in Lines
  <1>1. r.opts \in Seq(Opts) /\ r.names \in Lines
    BY AtfProgramAssumption DEF Opts, Lines
  <1> DEFINE os == r.opts
             line == Line(os, how)
  <1>2. line \in Lines
    <2> HIDE DEF os
    <2>1. os \in Seq(Opts)
      BY <1>1 DEF os
    <2>2. PICK c \in Lining(how, os) : Line(os, how) = c[Len(os)]
      BY <2>1, LineChain
    <2>3. c \in [0..Len(os) -> Lines] /\ Len(os) \in 0..Len(os)
      BY <2>1, <2>2 DEF Lining
    <2> QED BY <2>2, <2>3
  <1> DEFINE lacks == os # Empty /\ Last(os).arg = NoArg
             end == IF how = "joined" /\ ~lacks THEN << <<"-", "-">> >> ELSE Empty
  <1>3. end \in Lines
    <2> DEFINE w == <<"-", "-">>
    <2>1. w \in Texts
      BY OptionTokens DEF Texts
    <2> HIDE DEF w, lacks
    <2>2. <<w>> \in Lines
      BY <2>1, LineConcat
    <2> QED BY <2>2, LineConcat DEF w
  <1>4. CommandLine(r, how) = (line \o end) \o r.names
    BY DEF CommandLine, Line
  <1> HIDE DEF line, end
  <1> QED BY <1>1, <1>2, <1>3, <1>4, LineConcat

LEMMA AfterTyped ==
    ASSUME NEW w \in Texts, NEW i \in Nat
    PROVE  After(w, i) \in Texts
  <1>1. Len(w) \in Nat
    BY TextTyped
  <1>2. CASE i \in 0..Len(w)
    BY <1>2, PartsTyped
  <1>3. CASE i > Len(w)
    <2>1. (i + 1)..Len(w) = {}
      BY <1>1, <1>3
    <2>2. After(w, i) = <<>>
      BY <1>1, <1>3, TextTyped DEF After
    <2> QED BY <2>2, Slash
  <1> QED BY <1>1, <1>2, <1>3

\* What a path option's argument is made into is a word again.
LEMMA EnteredTyped ==
    ASSUME host \in Hosts, NEW w \in Texts
    PROVE  Entered(w) \in Texts
  <1>1. <<"C:">> \in Texts /\ <<"/">> \in Texts /\ After(w, 4) \in Texts /\ host.root \in Texts
    BY DirTokens, AfterTyped, HostTyped DEF Texts
  <1>2. <<"C:">> \o <<"/">> \in Texts /\ <<"C:">> \o After(w, 4) \in Texts /\ host.root \o w \in Texts
    <2> DEFINE d == <<"C:">>
               s == <<"/">>
    <2> HIDE DEF d, s
    <2>1. d \o s \in Texts /\ d \o After(w, 4) \in Texts /\ host.root \o w \in Texts
      BY <1>1, TextConcat DEF d, s
    <2> QED BY <2>1 DEF d, s
  <1> DEFINE cyg == <<"C:">> \o (IF Len(w) = 4 THEN <<"/">> ELSE After(w, 4))
  <1>3. cyg \in Texts
    BY <1>2
  <1> HIDE DEF cyg
  <1>4. NativePath(w) \in Texts
    BY <1>2, <1>3, Slash DEF NativePath, NoPath, cyg
  <1> QED BY <1>4 DEF Entered

\* How far atfw_enter is.
Scans(line) == [line : {l \in Lines : Len(l) = Len(line)}, stop : BOOLEAN, next : Nat]

Scanning(line, is) ==
    FoldLeft(LAMBDA s, i : Scan(line, s, i), [line |-> line, stop |-> FALSE, next |-> 1], is)

LEMMA LineReplaced ==
    ASSUME NEW l \in Lines, NEW i \in 1..Len(l), NEW w \in Texts
    PROVE  [l EXCEPT ![i] = w] \in Lines /\ Len([l EXCEPT ![i] = w]) = Len(l)
  BY DEF Lines

LEMMA ScanTyped ==
    ASSUME host \in Hosts, NEW line \in Lines
    PROVE  /\ [line |-> line, stop |-> FALSE, next |-> 1] \in Scans(line)
           /\ \A s \in Scans(line) : \A i \in 1..Len(line) : Scan(line, s, i) \in Scans(line)
  <1>1. [line |-> line, stop |-> FALSE, next |-> 1] \in Scans(line)
    BY DEF Scans
  <1>2. ASSUME NEW s \in Scans(line), NEW i \in 1..Len(line) PROVE Scan(line, s, i) \in Scans(line)
    <2>1. /\ s.line \in Lines /\ Len(s.line) = Len(line) /\ s.stop \in BOOLEAN /\ s.next \in Nat
          /\ Len(line) \in Nat /\ line[i] \in Texts /\ i + 2 \in Nat
          /\ i < Len(line) => i + 1 \in 1..Len(line) /\ line[i + 1] \in Texts
      <3>1. Len(line) \in Nat /\ \A j \in 1..Len(line) : line[j] \in Texts
        BY Typed DEF Lines
      <3>2. i < Len(line) => i + 1 \in 1..Len(line)
        BY <3>1
      <3>3. i + 2 \in Nat
        BY <3>1
      <3> QED BY <3>1, <3>2, <3>3 DEF Scans
    <2>2. [s EXCEPT !.stop = TRUE] \in Scans(line) /\ [s EXCEPT !.next = i + 2] \in Scans(line)
      BY <2>1 DEF Scans
    <2>3. ASSUME Len(line[i]) > 2
          PROVE  [s EXCEPT !.line[i] = SubSeq(line[i], 1, 2) \o Entered(After(line[i], 2))] \in Scans(line)
      <3> DEFINE w == SubSeq(line[i], 1, 2) \o Entered(After(line[i], 2))
                 l == [s.line EXCEPT ![i] = w]
      <3>1. SubSeq(line[i], 1, 2) \in Texts
        <4> DEFINE v == line[i]
        <4>1. v \in Seq(Tokens) /\ Len(v) \in Nat /\ Len(v) > 2
          BY <2>1, <2>3, TextTyped
        <4> HIDE DEF v
        <4>2. 0 \in 0..Len(v) /\ 2 \in 0..Len(v) /\ 0 + 1 = 1
          BY <4>1
        <4>3. SubSeq(v, 1, 2) \in Seq(Tokens)
          BY <4>1, <4>2, Cut
        <4> QED BY <4>3 DEF v, Texts
      <3>2. w \in Texts
        <4>1. Entered(After(line[i], 2)) \in Texts
          BY <2>1, AfterTyped, EnteredTyped
        <4> QED BY <3>1, <4>1, TextConcat
      <3> HIDE DEF w
      <3>3. l \in Lines /\ Len(l) = Len(line)
        BY <2>1, <3>2, LineReplaced
      <3>4. [s EXCEPT !.line = l] \in Scans(line)
        BY <3>3 DEF Scans
      <3>5. [s EXCEPT !.line[i] = w] = [s EXCEPT !.line = l]
        BY <2>1 DEF Scans
      <3> QED BY <3>4, <3>5 DEF w
    <2>4. ASSUME i < Len(line)
          PROVE  [s EXCEPT !.line[i + 1] = Entered(line[i + 1]), !.next = i + 2] \in Scans(line)
      <3> DEFINE w == Entered(line[i + 1])
                 l == [s.line EXCEPT ![i + 1] = w]
      <3>1. w \in Texts
        BY <2>1, <2>4, EnteredTyped
      <3> HIDE DEF w
      <3>2. l \in Lines /\ Len(l) = Len(line)
        BY <2>1, <2>4, <3>1, LineReplaced
      <3>3. [s EXCEPT !.line = l, !.next = i + 2] \in Scans(line)
        <4> HIDE DEF l
        <4> QED BY <2>1, <3>2 DEF Scans
      <3>4. [s EXCEPT !.line[i + 1] = w, !.next = i + 2] = [s EXCEPT !.line = l, !.next = i + 2]
        BY <2>1 DEF Scans
      <3> QED BY <3>3, <3>4 DEF w
    <2> QED BY <2>2, <2>3, <2>4 DEF Scan
  <1> QED BY <1>1, <1>2

Looking(line, is) ==
    {c \in [0..Len(is) -> Scans(line)] :
        c[0] = [line |-> line, stop |-> FALSE, next |-> 1] /\ \A i \in 1..Len(is) : c[i] = Scan(line, c[i - 1], is[i])}

\* One word after the other.
LEMMA ScanChain ==
    ASSUME host \in Hosts, NEW line \in Lines, NEW is \in Seq(1..Len(line))
    PROVE  \E c \in Looking(line, is) : Scanning(line, is) = c[Len(is)]
  <1> DEFINE n == Len(is)
             start == [line |-> line, stop |-> FALSE, next |-> 1]
             D == Scans(line)
             F == [i \in 1..n |-> [s \in D |-> Scan(line, s, is[i])]]
             fold == Scanning(line, is)
  <1>1. n \in Nat /\ DOMAIN is = 1..n /\ start \in D /\ \A i \in 1..n : is[i] \in 1..Len(line)
    <2>1. start \in D
      BY ScanTyped
    <2>2. is \in Seq(1..Len(line))
      BY DEF Texts, Maps
    <2> QED BY <2>1, <2>2, Typed
  <1>2. \A i \in 1..n : \A s \in D : Scan(line, s, is[i]) \in D
    BY <1>1, ScanTyped
  <1>3. F \in [1..n -> [D -> D]]
    BY <1>2
  <1>4. \A i \in 1..n : \A s \in D : F[i][s] = Scan(line, s, is[i])
    OBVIOUS
  <1> DEFINE iter[s \in SUBSET (1..n)] ==
               IF s = {} THEN start
               ELSE LET x == Max(s) IN Scan(line, iter[s \ {x}], is[x])
  <1>5. fold = iter[1..n]
    BY <1>1 DEF Scanning, FoldLeft, MapThenFoldSet
  <1> HIDE DEF F, start, D, n
  <1>6. PICK g \in LargestFirst(D, start, n, F) : TRUE
    BY <1>1, <1>3, SubsetRecursion, SMTT(30)
  <1>7. /\ g \in [SUBSET (1..n) -> D]
        /\ \A s \in SUBSET (1..n) : g[s] = IF s = {} THEN start ELSE F[Max(s)][g[s \ {Max(s)}]]
    BY <1>6 DEF LargestFirst
  <1>8. ASSUME NEW s \in SUBSET (1..n)
        PROVE  g[s] = IF s = {} THEN start ELSE Scan(line, g[s \ {Max(s)}], is[Max(s)])
    <2>1. CASE s = {}
      BY <1>7, <2>1
    <2>2. CASE s # {}
      <3>1. Max(s) \in 1..n
        BY <1>1, <2>2, MaxIn
      <3>2. g[s \ {Max(s)}] \in D
        BY <1>7
      <3>3. g[s] = F[Max(s)][g[s \ {Max(s)}]]
        BY <1>7, <2>2, Zenon
      <3> QED BY <1>4, <2>2, <3>1, <3>2, <3>3, Zenon
    <2> QED BY <2>1, <2>2
  <1>9. g = [s \in SUBSET (1..n) |->
                IF s = {} THEN start ELSE Scan(line, g[s \ {Max(s)}], is[Max(s)])]
    BY <1>7, <1>8, Zenon
  <1>10. iter = [s \in SUBSET (1..n) |->
                    IF s = {} THEN start ELSE Scan(line, iter[s \ {Max(s)}], is[Max(s)])]
    BY <1>9 DEF iter
  <1> HIDE DEF iter
  <1>11. iter[{}] = start
    BY <1>10, Zenon
  <1>12. ASSUME NEW s \in SUBSET (1..n), s # {}, iter[s \ {Max(s)}] \in D
         PROVE  iter[s] = F[Max(s)][iter[s \ {Max(s)}]]
    <2>1. Max(s) \in 1..n
      BY <1>1, <1>12, MaxIn
    <2>2. iter[s] = Scan(line, iter[s \ {Max(s)}], is[Max(s)])
      BY <1>10, <1>12, Zenon
    <2> QED BY <1>4, <1>12, <2>1, <2>2, Zenon
  <1>13. PICK c \in Chains(D, start, n, F) : iter[1..n] = c[n]
    <2>1. FoldsTo(D, start, n, F, iter)
      BY <1>11, <1>12 DEF FoldsTo
    <2>2. ChainsOf(D, start, n, F, iter[1..n]) # {}
      BY <1>1, <1>3, <2>1, FoldChain
    <2> QED BY <2>2 DEF ChainsOf
  <1>14. c \in [0..n -> D] /\ c[0] = start /\ \A i \in 1..n : c[i] = F[i][c[i - 1]]
    BY <1>13 DEF Chains
  <1>15. ASSUME NEW i \in 1..n PROVE c[i] = Scan(line, c[i - 1], is[i])
    <2>1. c[i - 1] \in D
      BY <1>1, <1>14
    <2> QED BY <1>4, <1>14, <2>1, Zenon
  <1> HIDE DEF fold
  <1>16. c \in Looking(line, is)
    BY <1>14, <1>15, Zenon DEF Looking, D, n, start
  <1> QED BY <1>5, <1>13, <1>16, Zenon DEF fold, start, n

\* atfw_enter returns as many words.
LEMMA EnteredLineTyped ==
    ASSUME host \in Hosts, NEW line \in Lines
    PROVE  EnteredLine(line) \in Lines /\ Len(EnteredLine(line)) = Len(line)
  <1> DEFINE is == [i \in DOMAIN line |-> i]
  <1>1. is \in Seq(1..Len(line))
    BY Typed DEF Lines
  <1>2. EnteredLine(line) = Scanning(line, is).line
    BY DEF EnteredLine, Scanning
  <1> HIDE DEF is
  <1>3. PICK c \in Looking(line, is) : Scanning(line, is) = c[Len(is)]
    BY <1>1, ScanChain
  <1>4. c \in [0..Len(is) -> Scans(line)] /\ Len(is) \in 0..Len(is)
    BY <1>1, <1>3 DEF Looking
  <1>5. Scanning(line, is) \in Scans(line)
    BY <1>3, <1>4
  <1> QED BY <1>2, <1>5 DEF Scans

\* getopt stays in the line, or goes one past its end.
LEMMA GetOptTyped ==
    ASSUME argv \in Lines, ind \in 1..(Len(argv) + 1), pos \in Nat
    PROVE  /\ GetOpt.ind \in 1..(Len(argv) + 1) /\ GetOpt.pos \in Nat /\ GetOpt.arg \in Texts
           /\ GetOpt.ind - 1 \in 0..Len(argv)
  <1> DEFINE w == argv[ind]
             rest == After(w, pos)
             n == Len(argv)
  <1>1. n \in Nat /\ (\A i \in 1..n : argv[i] \in Texts) /\ ind \in Nat /\ pos + 1 \in Nat
    BY Typed DEF Lines
  <1>2. ind <= n => w \in Texts /\ rest \in Texts /\ ind + 1 \in 1..(n + 1)
    <2>1. ind <= n => ind \in 1..n /\ ind + 1 \in 1..(n + 1)
      BY <1>1
    <2> QED BY <1>1, <2>1, AfterTyped
  <1>3. ind < n => ind + 1 \in 1..n /\ argv[ind + 1] \in Texts /\ ind + 2 \in 1..(n + 1)
    <2>1. ind < n => ind + 1 \in 1..n /\ ind + 2 \in 1..(n + 1)
      BY <1>1
    <2> QED BY <1>1, <2>1
  <1> HIDE DEF w, rest, n
  <1>4. CASE ind > n
    BY <1>1, <1>4, Slash DEF GetOpt, w, rest, n
  <1>5. CASE ~(ind > n)
    <2>1. ind <= n
      BY <1>1, <1>5
    <2>2. /\ GetOpt.ind \in {ind, ind + 1} \cup (IF ind < n THEN {ind + 2} ELSE {})
          /\ GetOpt.pos \in {2, pos + 1}
          /\ GetOpt.arg \in {Empty, rest} \cup (IF ind < n THEN {argv[ind + 1]} ELSE {})
      BY <1>5 DEF GetOpt, w, rest, n
    <2> QED BY <1>1, <1>2, <1>3, <2>1, <2>2, Slash DEF n
  <1>6. GetOpt.ind \in 1..(n + 1) => GetOpt.ind - 1 \in 0..n
    BY <1>1
  <1> QED BY <1>4, <1>5, <1>6 DEF n

-----------------------------------------------------------------------------
(* The turns of the option loop *)

Outcomes == {"running", "success", "verdict", "usage", "user", "thrown", "abort"}

\* What a turn leaves.
Turned ==
    /\ opts' \in Params
    /\ config' \in Maps /\ Distinct(config')
    /\ pc' \in {"options", "ended"} /\ outcome' \in Outcomes

LEMMA TookTurns ==
    ASSUME outcome \in Outcomes, NEW p \in Params, NEW c \in Maps, Distinct(c), Took(p, c)
    PROVE  Turned /\ opts' = p
  BY DEF Took, Goto, Turned

LEMMA FailTurns ==
    ASSUME opts \in Params, config \in Maps, Distinct(config), NEW how \in Outcomes, Fail(how)
    PROVE  Turned /\ opts' = opts
  BY DEF Fail, Finish, Turned

LEMMA OutcomesAre == {"usage", "thrown", "abort", "user", "success", "verdict"} \subseteq Outcomes
  BY DEF Outcomes

LEMMA ParseVflagTurns ==
    ASSUME opts \in Params, config \in Maps, Distinct(config), outcome \in Outcomes,
           NEW w \in Texts, ParseVflag(w)
    PROVE  Turned /\ opts' = opts
  <1> DEFINE i == FindCh(w, "=")
  <1>1. i \in 0..Len(w)
    BY FindChIs
  <1>2. CASE i = 0
    BY <1>2, FailTurns, OutcomesAre DEF ParseVflag
  <1>3. CASE i # 0
    <2>1. Before(w, i) \in Texts /\ After(w, i) \in Texts
      BY <1>1, <1>3, PartsTyped
    <2> DEFINE c == Insert(config, Before(w, i), After(w, i))
    <2>2. c \in Maps /\ Distinct(c)
      BY <2>1, InsertIs
    <2>3. Took(opts, c)
      BY <1>3 DEF ParseVflag
    <2> HIDE DEF c
    <2> QED BY <2>2, <2>3, TookTurns
  <1> QED BY <1>2, <1>3

LEMMA CxxParseVflagTurns ==
    ASSUME opts \in Params, config \in Maps, Distinct(config), outcome \in Outcomes,
           NEW w \in Texts, CxxParseVflag(w)
    PROVE  Turned /\ opts' = opts
  <1> DEFINE ws == Split(w, "=")
             one == Insert(config, ws[1], Empty)
             two == Insert(config, ws[1], ws[2])
  <1>1. ws \in Seq(NamesOf("="))
    BY SplitTyped
  <1>2. \A i \in 1..Len(ws) : ws[i] \in Texts
    <2> HIDE DEF ws
    <2> QED BY <1>1 DEF NamesOf
  <1>3. CASE Len(ws) = 1 /\ Last(w) = "="
    <2>1. ws[1] \in Texts
      BY <1>2, <1>3
    <2>2. one \in Maps /\ Distinct(one)
      <3> HIDE DEF ws
      <3> QED BY <2>1, Slash, InsertIs
    <2>3. Took(opts, one)
      BY <1>3 DEF CxxParseVflag
    <2> HIDE DEF one
    <2> QED BY <2>2, <2>3, TookTurns
  <1>4. CASE Len(ws) = 2
    <2>1. ws[1] \in Texts /\ ws[2] \in Texts
      BY <1>2, <1>4
    <2>2. two \in Maps /\ Distinct(two)
      <3> HIDE DEF ws
      <3> QED BY <2>1, InsertIs
    <2>3. Took(opts, two)
      BY <1>4 DEF CxxParseVflag
    <2> HIDE DEF two
    <2> QED BY <2>2, <2>3, TookTurns
  <1>5. CASE ~(Len(ws) = 1 /\ Last(w) = "=") /\ Len(ws) # 2
    <2>1. Fail("thrown")
      BY <1>5 DEF CxxParseVflag
    <2> QED BY <2>1, FailTurns, OutcomesAre
  <1> QED BY <1>3, <1>4, <1>5

LEMMA TakesTurns ==
    ASSUME opts \in Params, config \in Maps, Distinct(config), outcome \in Outcomes,
           NEW o, o.arg \in Texts, Takes(o)
    PROVE  Turned /\ opts'.srcdir = opts.srcdir
  <1>1. CASE o.c = "l"
    <2> DEFINE p == [opts EXCEPT !.list = TRUE]
    <2>1. p \in Params /\ p.srcdir = opts.srcdir
      BY DEF Params
    <2>2. Took(p, config)
      BY <1>1 DEF Takes
    <2> HIDE DEF p
    <2> QED BY <2>1, <2>2, TookTurns
  <1>2. CASE o.c = "r" /\ o.arg # Empty
    <2> DEFINE p == [opts EXCEPT !.resfile = Normalize(o.arg)]
    <2>1. Normalize(o.arg) \in Texts
      BY NormalizeSplit
    <2>2. p \in Params /\ p.srcdir = opts.srcdir
      BY <2>1 DEF Params
    <2>3. Took(p, config)
      BY <1>2 DEF Takes
    <2> HIDE DEF p
    <2> QED BY <2>2, <2>3, TookTurns
  <1>3. CASE o.c \in {"?", ":"}
    <2>1. Fail("usage")
      BY <1>3 DEF Takes
    <2> QED BY <2>1, FailTurns, OutcomesAre
  <1>4. CASE o.c # "l" /\ ~(o.c = "r" /\ o.arg # Empty) /\ o.c \notin {"?", ":"}
    <2>1. Fail("abort")
      BY <1>4 DEF Takes
    <2> QED BY <2>1, FailTurns, OutcomesAre
  <1> QED BY <1>1, <1>2, <1>3, <1>4

-----------------------------------------------------------------------------
(* The test cases *)

TestCases == [ident : Texts, cleanup : BOOLEAN, config : Maps, vars : Maps]

LEMMA TestTokens == Ident \in Texts /\ HasCleanup \in Texts /\ <<"true">> \in Texts /\ Srcdir \in Texts
  <1>1. {"ident", "has.cleanup", "true", "srcdir"} \subseteq Tokens
    BY AtfProgramAssumption
  <1> QED BY <1>1 DEF Ident, HasCleanup, Srcdir, Texts

\* A test case is given the whole configuration.
LEMMA TcInitIs ==
    ASSUME NEW t \in [ident : Texts, head : Seq(Entries), cleanup : BOOLEAN],
           NEW m \in Maps, Distinct(m)
    PROVE  TcInit(t, ToCharpp(m)) \in TestCases /\ TcInit(t, ToCharpp(m)).config = m
  <1> DEFINE given == Insert(Empty, Ident, t.ident)
             start == IF t.cleanup THEN Insert(given, HasCleanup, <<"true">>) ELSE given
             vs == InsertAll(start, t.head)
  <1>1. t.ident \in Texts /\ t.head \in Seq(Entries) /\ t.cleanup \in BOOLEAN
    OBVIOUS
  <1>2. given \in Maps
    BY <1>1, NoEntries, TestTokens, InsertIs
  <1> HIDE DEF given
  <1>3. start \in Maps
    BY <1>2, TestTokens, InsertIs
  <1> HIDE DEF start
  <1>4. vs \in Maps
    BY <1>1, <1>3, InsertAllTyped
  <1>5. InitCharpp(ToCharpp(m)) = m
    BY CharppRoundTrip
  <1>6. TcInit(t, ToCharpp(m)) = [ident |-> t.ident, cleanup |-> t.cleanup, config |-> m, vars |-> vs]
    BY <1>5 DEF TcInit, vs, start, given
  <1> HIDE DEF vs
  <1> QED BY <1>1, <1>4, <1>6 DEF TestCases

-----------------------------------------------------------------------------
(* The inductive invariant *)

\* The program has been looked for.
Searched == pc = "add" \/ tcs # Empty \/ (Cxx /\ pc = "names")

\* Every test case has the whole configuration, which has no variable twice.
WholeConfig == Distinct(config) /\ \A i \in 1..Len(tcs) : tcs[i].config = config

\* What the steps keep, besides the types: getopt is in the line, a C program
\* has a source directory from the start, test cases come last, and the
\* program was found, and its directory entered, before the first of them.
IInv ==
    /\ TypeOK
    /\ req \in Requests /\ host \in Hosts
    /\ ind <= Len(argv) + 1
    /\ ~Cxx => opts.srcdir # Empty
    /\ tcs # Empty => pc \in {"add", "ended"}
    /\ Searched => Found /\ Located(config)
    /\ WholeConfig

LEMMA InvTyped ==
    ASSUME IInv
    PROVE  /\ argv \in Lines /\ ind \in 1..(Len(argv) + 1) /\ pos \in Nat
           /\ opts \in Params /\ opts.srcdir \in Texts /\ opts.names \in Lines
           /\ config \in Maps /\ Distinct(config)
           /\ tcs \in Seq(TestCases) /\ Len(tcs) \in Nat /\ Len(tcs) <= Len(Tests)
           /\ outcome \in Outcomes
  <1>1. argv \in Lines /\ Len(argv) \in Nat /\ ind \in Nat \ {0} /\ ind <= Len(argv) + 1
    BY Typed DEF IInv, TypeOK, Lines
  <1>2. ind \in 1..(Len(argv) + 1)
    BY <1>1
  <1>3. tcs \in Seq(TestCases) /\ Len(tcs) \in Nat
    BY Typed DEF IInv, TypeOK, TestCases
  <1>4. opts \in Params /\ opts.srcdir \in Texts /\ opts.names \in Lines
    BY DEF IInv, TypeOK, Params, Lines
  <1> QED BY <1>1, <1>2, <1>3, <1>4 DEF IInv, TypeOK, WholeConfig, Outcomes

LEMMA InvFrom ==
    ASSUME argv' \in Lines, ind' \in 1..(Len(argv') + 1), pos' \in Nat, opts' \in Params,
           config' \in Maps, Distinct(config'),
           tcs' \in Seq(TestCases), Len(tcs') <= Len(Tests),
           pc' \in {"enter", "options", "names", "srcdir", "add", "ended"},
           outcome' \in Outcomes, req' \in Requests, host' \in Hosts,
           ~Cxx' => opts'.srcdir # Empty,
           tcs' # Empty => pc' \in {"add", "ended"},
           Searched' => Found' /\ Located(config)',
           \A i \in 1..Len(tcs') : tcs'[i].config = config'
    PROVE  IInv'
  <1>1. Len(argv') \in Nat
    BY Typed DEF Lines
  <1>2. ind' \in Nat \ {0} /\ ind' <= Len(argv') + 1
    BY <1>1
  <1>3. TypeOK'
    BY <1>2 DEF TypeOK, Lines, TestCases, Outcomes
  <1>4. WholeConfig'
    BY DEF WholeConfig, Distinct
  <1> QED BY <1>2, <1>3, <1>4 DEF IInv

LEMMA InitInv == Init => IInv
  <1> SUFFICES ASSUME Init PROVE IInv
    OBVIOUS
  <1>1. req \in Requests /\ host \in Hosts
    BY DEF Init
  <1>2. argv \in Lines
    BY <1>1, CommandLineTyped DEF Init
  <1>3. Len(argv) \in Nat
    BY <1>2, Typed DEF Lines
  <1> DEFINE dir == BranchPath(Normalize(Argv0))
             res == <<"/", "dev", "/", "stdout">>
  <1>4. dir \in Texts /\ dir # Empty
    <2>1. Normalize(Argv0) \in Texts
      BY <1>1, Argv0Is, NormalizeSplit
    <2> QED BY <2>1, BranchTyped
  <1>5. res \in Texts
    <2>1. {"/", "dev", "stdout"} \subseteq Tokens
      BY AtfProgramAssumption
    <2> QED BY <2>1 DEF Texts
  <1> HIDE DEF dir, res
  <1>6. opts = [list |-> FALSE, srcdir |-> IF Cxx THEN Empty ELSE dir, resfile |-> res,
                tcname |-> Empty, part |-> "body", names |-> Empty]
    BY DEF Init, dir, res
  <1>7. opts \in Params /\ (~Cxx => opts.srcdir # Empty)
    <2>1. Empty \in Lines /\ Empty \in Texts
      BY LineConcat, Slash
    <2> QED BY <1>4, <1>5, <1>6, <2>1 DEF Params, Lines
  <1>8. config = Empty /\ tcs = Empty /\ ind = 1 /\ pos = 2 /\ outcome = "running"
        /\ pc \in {"enter", "options"}
    BY DEF Init
  <1>9. config \in Maps /\ Distinct(config)
    BY <1>8, NoEntries
  <1>10. tcs \in Seq(TestCases) /\ Len(tcs) = 0 /\ Len(Tests) \in Nat
    <2>1. Tests \in Seq([ident : Texts, head : Seq(Entries), cleanup : BOOLEAN])
      BY AtfProgramAssumption DEF Entries
    <2> QED BY <1>8, <2>1 DEF Empty
  <1>11. ~Searched
    BY <1>8 DEF Searched
  <1>12. TypeOK
    BY <1>2, <1>7, <1>8, <1>9, <1>10 DEF TypeOK, Lines, TestCases
  <1>13. WholeConfig
    BY <1>9, <1>10 DEF WholeConfig
  <1> QED BY <1>1, <1>3, <1>7, <1>8, <1>11, <1>12, <1>13 DEF IInv

LEMMA EnterInv == ASSUME IInv, Enter PROVE IInv'
  <1>1. /\ argv' = EnteredLine(argv) /\ pc = "enter" /\ pc' = "options" /\ outcome' = outcome
        /\ req' = req /\ host' = host /\ ind' = ind /\ pos' = pos /\ opts' = opts
        /\ config' = config /\ tcs' = tcs
    BY DEF Enter, Goto, request
  <1>2. host \in Hosts /\ req \in Requests /\ (tcs # Empty => pc \in {"add", "ended"})
        /\ (~Cxx => opts.srcdir # Empty) /\ \A i \in 1..Len(tcs) : tcs[i].config = config
    BY DEF IInv, WholeConfig
  <1>3. argv' \in Lines /\ Len(argv') = Len(argv)
    BY <1>1, <1>2, InvTyped, EnteredLineTyped
  <1>4. tcs = Empty /\ ~Searched'
    BY <1>1, <1>2 DEF Searched
  <1>5. Cxx' = Cxx
    BY <1>1 DEF Cxx
  <1> QED BY <1>1, <1>2, <1>3, <1>4, <1>5, InvTyped, InvFrom

\* A turn of the option loop.
LEMMA TurnInv ==
    ASSUME IInv, pc = "options", Turned, ~Cxx => opts'.srcdir # Empty,
           ToOptions(GetOpt), UNCHANGED <<request, argv, tcs, ran, listed>>
    PROVE  IInv'
  <1>1. /\ argv' = argv /\ req' = req /\ host' = host /\ tcs' = tcs
        /\ ind' = GetOpt.ind /\ pos' = GetOpt.pos
    BY DEF request, ToOptions
  <1>2. host \in Hosts /\ req \in Requests /\ (tcs # Empty => pc \in {"add", "ended"})
    BY DEF IInv
  <1>3. ind' \in 1..(Len(argv') + 1) /\ pos' \in Nat
    BY <1>1, InvTyped, GetOptTyped
  <1>4. /\ opts' \in Params /\ config' \in Maps /\ Distinct(config')
        /\ pc' \in {"options", "ended"} /\ outcome' \in Outcomes
    BY DEF Turned
  <1>5. tcs' = Empty /\ ~Searched' /\ Len(Empty) = 0
    BY <1>1, <1>2, <1>4 DEF Searched, Empty
  <1>6. Cxx' = Cxx
    BY <1>1 DEF Cxx
  <1>7. \A i \in 1..Len(tcs') : tcs'[i].config = config'
    BY <1>5
  <1> QED BY <1>1, <1>2, <1>3, <1>4, <1>5, <1>6, <1>7, InvTyped, InvFrom

LEMMA OptionInv == ASSUME IInv, Option PROVE IInv'
  <1> DEFINE o == GetOpt
             p == [opts EXCEPT !.srcdir = Normalize(o.arg)]
  <1>1. /\ pc = "options" /\ ~Cxx /\ ToOptions(GetOpt) /\ UNCHANGED <<request, argv, tcs, ran, listed>>
        /\ CASE o.c = "s" /\ o.arg # Empty -> Took(p, config)
             [] o.c = "v" -> ParseVflag(o.arg)
             [] OTHER -> Takes(o)
    BY DEF Option
  <1>2. o.arg \in Texts /\ opts \in Params /\ config \in Maps /\ Distinct(config) /\ outcome \in Outcomes
    BY InvTyped, GetOptTyped
  <1>3. opts.srcdir # Empty
    BY <1>1 DEF IInv
  <1> HIDE DEF o
  <1>4. Turned /\ opts'.srcdir # Empty
    <2>1. CASE o.c = "s" /\ o.arg # Empty
      <3>1. Took(p, config)
        BY <1>1, <2>1
      <3>2. Normalize(o.arg) \in Texts /\ Normalize(o.arg) # Empty
        BY <1>2, <2>1, NormalizeSplit, NormalizeFirst
      <3>3. p \in Params /\ p.srcdir # Empty
        BY <1>2, <3>2 DEF Params
      <3> HIDE DEF p
      <3> QED BY <1>2, <3>1, <3>3, TookTurns
    <2>2. CASE o.c = "v"
      <3>1. ParseVflag(o.arg)
        BY <1>1, <2>2
      <3> QED BY <1>2, <1>3, <3>1, ParseVflagTurns
    <2>3. CASE ~(o.c = "s" /\ o.arg # Empty) /\ o.c # "v"
      <3>1. Takes(o)
        BY <1>1, <2>3
      <3> QED BY <1>2, <1>3, <3>1, TakesTurns
    <2> QED BY <2>1, <2>2, <2>3
  <1> QED BY <1>1, <1>4, TurnInv

LEMMA CxxOptionInv == ASSUME IInv, CxxOption PROVE IInv'
  <1> DEFINE o == GetOpt
             p == [opts EXCEPT !.srcdir = o.arg]
  <1>1. /\ pc = "options" /\ Cxx /\ ToOptions(GetOpt) /\ UNCHANGED <<request, argv, tcs, ran, listed>>
        /\ CASE o.c = "s" -> Took(p, config)
             [] o.c = "v" -> CxxParseVflag(o.arg)
             [] OTHER -> Takes(o)
    BY DEF CxxOption
  <1>2. o.arg \in Texts /\ opts \in Params /\ config \in Maps /\ Distinct(config) /\ outcome \in Outcomes
    BY InvTyped, GetOptTyped
  <1> HIDE DEF o
  <1>3. Turned
    <2>1. CASE o.c = "s"
      <3>1. Took(p, config)
        BY <1>1, <2>1
      <3>2. p \in Params
        BY <1>2 DEF Params
      <3> HIDE DEF p
      <3> QED BY <1>2, <3>1, <3>2, TookTurns
    <2>2. CASE o.c = "v"
      <3>1. CxxParseVflag(o.arg)
        BY <1>1, <2>2
      <3> QED BY <1>2, <3>1, CxxParseVflagTurns
    <2>3. CASE o.c # "s" /\ o.c # "v"
      <3>1. Takes(o)
        BY <1>1, <2>3
      <3> QED BY <1>2, <3>1, TakesTurns
    <2> QED BY <2>1, <2>2, <2>3
  <1> QED BY <1>1, <1>3, TurnInv

LEMMA EndOfOptionsInv == ASSUME IInv, EndOfOptions PROVE IInv'
  <1> DEFINE p == [opts EXCEPT !.names = After(argv, GetOpt.ind - 1)]
  <1>1. /\ argv' = argv /\ req' = req /\ host' = host /\ tcs' = tcs /\ config' = config
        /\ ind' = GetOpt.ind /\ pos' = GetOpt.pos /\ opts' = p /\ outcome' = outcome
        /\ pc = "options" /\ pc' = IF Cxx THEN "srcdir" ELSE "names"
    BY DEF EndOfOptions, request, ToOptions, Goto
  <1>2. /\ host \in Hosts /\ req \in Requests /\ (tcs # Empty => pc \in {"add", "ended"})
        /\ (~Cxx => opts.srcdir # Empty)
    BY DEF IInv
  <1>3. ind' \in 1..(Len(argv') + 1) /\ pos' \in Nat /\ GetOpt.ind - 1 \in 0..Len(argv)
    BY <1>1, InvTyped, GetOptTyped
  <1>4. After(argv, GetOpt.ind - 1) \in Lines
    BY <1>3, InvTyped, AfterIs DEF Lines
  <1>5. opts' \in Params /\ opts'.srcdir = opts.srcdir
    BY <1>1, <1>4, InvTyped DEF Params, Lines
  <1>6. Cxx' = Cxx
    BY <1>1 DEF Cxx
  <1>7. tcs' = Empty /\ ~Searched' /\ Len(Empty) = 0 /\ pc' \in {"srcdir", "names"}
    BY <1>1, <1>2, <1>6 DEF Searched, Empty
  <1>8. \A i \in 1..Len(tcs') : tcs'[i].config = config'
    BY <1>7
  <1> HIDE DEF p
  <1> QED BY <1>1, <1>2, <1>3, <1>5, <1>6, <1>7, <1>8, InvTyped, InvFrom

\* A step that looks for nothing and adds no test case.
LEMMA QuietInv ==
    ASSUME IInv, UNCHANGED <<request, argv, ind, pos, config, tcs>>,
           opts' \in Params, opts'.srcdir = opts.srcdir,
           pc' \in {"srcdir", "add", "ended"}, outcome' \in Outcomes,
           Searched' => Searched, tcs # Empty => pc' = "ended"
    PROVE  IInv'
  <1>1. /\ argv' = argv /\ ind' = ind /\ pos' = pos /\ config' = config /\ tcs' = tcs
        /\ req' = req /\ host' = host
    BY DEF request
  <1>2. Cxx' = Cxx /\ Told' = Told /\ Found' = Found
    BY <1>1, DirStays
  <1>3. Searched' => Found' /\ Located(config)'
    BY <1>1, <1>2 DEF IInv, Located
  <1>4. /\ req \in Requests /\ host \in Hosts /\ (~Cxx => opts.srcdir # Empty)
        /\ \A i \in 1..Len(tcs) : tcs[i].config = config
    BY DEF IInv, WholeConfig
  <1> QED BY <1>1, <1>2, <1>3, <1>4, InvTyped, InvFrom

LEMMA NamesInv == ASSUME IInv, Names PROVE IInv'
  <1> DEFINE arg == TestCaseArg(opts.names[1])
             p == [opts EXCEPT !.tcname = arg.name, !.part = arg.part]
  <1>1. /\ pc = "names" /\ ~Cxx /\ UNCHANGED <<request, argv, ind, pos, tcs>> /\ config' = config
        /\ \/ pc' = "ended" /\ outcome' = "usage" /\ opts' = opts
           \/ pc' = "srcdir" /\ outcome' = outcome /\ opts' = opts
           \/ /\ Len(opts.names) = 1 /\ arg.part # "wrong"
              /\ pc' = "srcdir" /\ outcome' = outcome /\ opts' = p
    <2> HIDE DEF arg
    <2> QED BY DEF Names, Fail, Finish, Goto, arg
  <1>2. tcs = Empty /\ tcs' = tcs /\ Cxx' = Cxx
    BY <1>1 DEF IInv, Cxx, request
  <1>3. ~Searched'
    BY <1>1, <1>2 DEF Searched
  <1>4. opts \in Params /\ opts.names \in Lines /\ outcome \in Outcomes
    BY InvTyped
  <1>5. ASSUME Len(opts.names) = 1, arg.part # "wrong" PROVE p \in Params /\ p.srcdir = opts.srcdir
    <2> DEFINE w == opts.names[1]
               i == FindCh(w, ":")
    <2>1. w \in Texts
      BY <1>4, <1>5, Typed DEF Lines
    <2>2. i \in 0..Len(w)
      BY <2>1, FindChIs
    <2>3. i # 0 => Before(w, i) \in Texts
      BY <2>1, <2>2, PartsTyped
    <2>4. arg.name = w \/ (arg.name = Before(w, i) /\ i # 0)
      BY DEF TestCaseArg
    <2>5. arg.part \in {"body", "cleanup"}
      <3> DEFINE part == IF i = 0 THEN <<"body">> ELSE After(w, i)
      <3>1. arg.part = CASE part = <<"body">> -> "body"
                         [] part = <<"cleanup">> -> "cleanup"
                         [] OTHER -> "wrong"
        BY DEF TestCaseArg
      <3> HIDE DEF part, arg
      <3>2. <<"body">> # <<"cleanup">>
        OBVIOUS
      <3>3. arg.part \in {"body", "cleanup", "wrong"}
        BY <3>1, <3>2
      <3> QED BY <1>5, <3>3
    <2> HIDE DEF arg, w, i
    <2> QED BY <1>4, <2>1, <2>3, <2>4, <2>5 DEF Params
  <1>6. opts' \in Params /\ opts'.srcdir = opts.srcdir
    <2> HIDE DEF p, arg
    <2> QED BY <1>1, <1>4, <1>5
  <1> HIDE DEF p, arg
  <1> QED BY <1>1, <1>2, <1>3, <1>4, <1>6, OutcomesAre, QuietInv

LEMMA CxxNamesInv == ASSUME IInv, CxxNames PROVE IInv'
  <1>1. /\ pc = "names" /\ Cxx /\ UNCHANGED <<request, argv, ind, pos, tcs>>
        /\ config' = config /\ opts' = opts
        /\ \/ pc' = "ended" /\ outcome' = "usage"
           \/ pc' = "add" /\ outcome' = outcome
    BY DEF CxxNames, Fail, Finish, Goto
  <1>2. Searched /\ tcs = Empty
    BY <1>1 DEF IInv, Searched
  <1> QED BY <1>1, <1>2, InvTyped, OutcomesAre, QuietInv

\* The program is found, and its directory entered, or the process ends.
LEMMA LookInv ==
    ASSUME IInv, pc = "srcdir", UNCHANGED <<request, argv, ind, pos, tcs, opts>>,
           \/ /\ Found /\ config' = Insert(config, Srcdir, Told) /\ Told \in Texts
              /\ pc' \in {"names", "add"} /\ outcome' = outcome
           \/ config' = config /\ pc' = "ended" /\ outcome' \in Outcomes
    PROVE  IInv'
  <1>1. /\ argv' = argv /\ ind' = ind /\ pos' = pos /\ opts' = opts /\ tcs' = tcs
        /\ req' = req /\ host' = host
    BY DEF request
  <1>2. Cxx' = Cxx /\ Told' = Told /\ Found' = Found
    BY <1>1, DirStays
  <1>3. req \in Requests /\ host \in Hosts /\ (~Cxx => opts.srcdir # Empty) /\ tcs = Empty /\ Len(Empty) = 0
    BY DEF IInv, Empty
  <1>4. \A i \in 1..Len(tcs') : tcs'[i].config = config'
    BY <1>1, <1>3
  <1>5. CASE config' = config /\ pc' = "ended" /\ outcome' \in Outcomes
    <2>1. ~Searched'
      BY <1>1, <1>3, <1>5 DEF Searched
    <2> QED BY <1>1, <1>2, <1>3, <1>4, <1>5, <2>1, InvTyped, InvFrom
  <1>6. CASE /\ Found /\ config' = Insert(config, Srcdir, Told) /\ Told \in Texts
             /\ pc' \in {"names", "add"} /\ outcome' = outcome
    <2> DEFINE c == Insert(config, Srcdir, Told)
    <2>1. c \in Maps /\ Has(c, Srcdir) /\ Value(c, Srcdir) = Told /\ Distinct(c)
      BY <1>6, InvTyped, TestTokens, InsertIs
    <2>2. config' = c
      BY <1>6
    <2> HIDE DEF c
    <2>3. Located(config)'
      BY <1>2, <2>1, <2>2 DEF Located
    <2> QED BY <1>1, <1>2, <1>3, <1>4, <1>6, <2>1, <2>2, <2>3, InvTyped, InvFrom
  <1> QED BY <1>5, <1>6

LEMMA FindSrcdirInv == ASSUME IInv, FindSrcdir PROVE IInv'
  <1>1. /\ pc = "srcdir" /\ ~Cxx /\ UNCHANGED <<request, argv, ind, pos, tcs, opts>>
        /\ \/ /\ Exists(AppendTo(SourceDir, ProgName)) = "yes"
              /\ config' = Insert(config, Srcdir, SourceDir) /\ pc' = "add" /\ outcome' = outcome
           \/ config' = config /\ pc' = "ended" /\ outcome' = "user"
    BY DEF FindSrcdir, Fail, Finish, Goto
  <1>2. Dir = SourceDir /\ Told = SourceDir
    BY <1>1 DEF Dir, Told
  <1>3. SourceDir \in Texts
    BY <1>1, InvTyped, SourceDirIs DEF IInv
  <1>4. Found <=> Exists(AppendTo(SourceDir, ProgName)) = "yes"
    BY <1>2 DEF Found
  <1> QED BY <1>1, <1>2, <1>3, <1>4, OutcomesAre, LookInv

\* What a C++ program tells its test cases is a path.
LEMMA CxxToldTyped ==
    ASSUME host \in Hosts, NEW d \in Texts, d # Empty
    PROVE  CxxMakeAbsolute(d) \in Texts
  <1>1. CxxToAbsolute(host.cwd, d) \in Texts
    BY ToAbsoluteIs, NormalizeSplit DEF CxxToAbsolute
  <1> QED BY <1>1 DEF CxxMakeAbsolute

LEMMA CxxFindSrcdirInv == ASSUME IInv, CxxFindSrcdir PROVE IInv'
  <1>1. /\ pc = "srcdir" /\ Cxx /\ UNCHANGED <<request, argv, ind, pos, tcs, opts>>
        /\ \/ /\ Exists(AppendTo(CxxSourceDir, ProgName)) = "yes"
              /\ config' = Insert(config, Srcdir, CxxMakeAbsolute(CxxSourceDir))
              /\ pc' = "names" /\ outcome' = outcome
           \/ config' = config /\ pc' = "ended" /\ outcome' \in {"usage", "thrown"}
    BY DEF CxxFindSrcdir, Fail, Finish, Goto
  <1>2. Dir = CxxSourceDir /\ Told = CxxMakeAbsolute(CxxSourceDir)
    BY <1>1 DEF Dir, Told
  <1>3. CxxMakeAbsolute(CxxSourceDir) \in Texts
    BY InvTyped, CxxSourceDirIs, CxxToldTyped DEF IInv
  <1>4. Found <=> Exists(AppendTo(CxxSourceDir, ProgName)) = "yes"
    BY <1>2 DEF Found
  <1> QED BY <1>1, <1>2, <1>3, <1>4, OutcomesAre, LookInv

\* A test case more, with the whole configuration, or the process ends.
LEMMA AddedInv ==
    ASSUME IInv, Adding, UNCHANGED <<request, argv, ind, pos>>, NEW tc \in TestCases,
           tc.config = config, Added(tc)
    PROVE  IInv'
  <1>1. /\ argv' = argv /\ ind' = ind /\ pos' = pos /\ opts' = opts /\ config' = config
        /\ req' = req /\ host' = host
        /\ \/ pc' = "ended" /\ outcome' = "abort" /\ tcs' = tcs
           \/ pc' = "add" /\ outcome' = outcome /\ tcs' = Append(tcs, tc)
    BY DEF request, Added, Fail, Finish, Goto
  <1>2. Cxx' = Cxx /\ Told' = Told /\ Found' = Found
    BY <1>1, DirStays
  <1>3. /\ req \in Requests /\ host \in Hosts /\ (~Cxx => opts.srcdir # Empty)
        /\ \A i \in 1..Len(tcs) : tcs[i].config = config
        /\ Found /\ Located(config) /\ Len(tcs) < Len(Tests)
    BY DEF IInv, WholeConfig, Adding, Searched
  <1>4. Found' /\ Located(config)'
    BY <1>1, <1>2, <1>3 DEF Located
  <1>5. CASE pc' = "ended" /\ outcome' = "abort" /\ tcs' = tcs
    BY <1>1, <1>2, <1>3, <1>4, <1>5, OutcomesAre, InvTyped, InvFrom
  <1>6. CASE pc' = "add" /\ outcome' = outcome /\ tcs' = Append(tcs, tc)
    <2> DEFINE u == Append(tcs, tc)
               n == Len(tcs)
    <2>1. n \in Nat /\ tcs \in Seq(TestCases) /\ n < Len(Tests) /\ Len(Tests) \in Nat
      <3>1. Tests \in Seq([ident : Texts, head : Seq(Entries), cleanup : BOOLEAN])
        BY AtfProgramAssumption DEF Entries
      <3> QED BY <1>3, <3>1, InvTyped
    <2>2. u \in Seq(TestCases) /\ Len(u) = n + 1 /\ u[n + 1] = tc /\ \A i \in 1..n : u[i] = tcs[i]
      BY <2>1, Appended
    <2>3. tcs' = u
      BY <1>6
    <2> HIDE DEF u
    <2>4. \A i \in 1..Len(u) : u[i].config = config
      <3> TAKE i \in 1..Len(u)
      <3>1. i \in 1..n \/ i = n + 1
        BY <2>1, <2>2
      <3> QED BY <1>3, <2>2, <3>1
    <2>5. Len(u) <= Len(Tests)
      BY <2>1, <2>2
    <2> QED BY <1>1, <1>2, <1>3, <1>4, <1>6, <2>2, <2>3, <2>4, <2>5, InvTyped, InvFrom
  <1> QED BY <1>1, <1>5, <1>6

LEMMA NextTestTyped ==
    ASSUME IInv, Adding
    PROVE  NextTest \in [ident : Texts, head : Seq(Entries), cleanup : BOOLEAN]
  <1>1. Tests \in Seq([ident : Texts, head : Seq(Entries), cleanup : BOOLEAN])
    BY AtfProgramAssumption DEF Entries
  <1>2. Len(tcs) + 1 \in 1..Len(Tests)
    BY <1>1, InvTyped DEF Adding
  <1>3. Tests[Len(tcs) + 1] \in [ident : Texts, head : Seq(Entries), cleanup : BOOLEAN]
    BY <1>1, <1>2, Typed
  <1> QED BY <1>3 DEF NextTest

LEMMA AddTcInv == ASSUME IInv, AddTc PROVE IInv'
  <1>1. /\ Adding /\ UNCHANGED <<request, argv, ind, pos>>
        /\ Added(TcInit(NextTest, ToCharpp(InitCharpp(ToCharpp(config)))))
    BY DEF AddTc
  <1>2. InitCharpp(ToCharpp(config)) = config
    BY InvTyped, CharppRoundTrip
  <1> DEFINE tc == TcInit(NextTest, ToCharpp(config))
  <1>3. tc \in TestCases /\ tc.config = config
    BY <1>1, InvTyped, NextTestTyped, TcInitIs
  <1>4. Added(tc)
    BY <1>1, <1>2
  <1> HIDE DEF tc
  <1> QED BY <1>1, <1>3, <1>4, AddedInv

LEMMA CxxAddTcInv == ASSUME IInv, CxxAddTc PROVE IInv'
  <1> DEFINE tc == TcInit(NextTest, ToCharpp(config))
  <1>1. Adding /\ UNCHANGED <<request, argv, ind, pos>> /\ Added(tc)
    BY DEF CxxAddTc
  <1>2. tc \in TestCases /\ tc.config = config
    BY <1>1, InvTyped, NextTestTyped, TcInitIs
  <1> HIDE DEF tc
  <1> QED BY <1>1, <1>2, AddedInv

\* The steps that list or run end the process.
LEMMA LastInv ==
    ASSUME IInv, Ready, UNCHANGED <<request, argv, ind, pos, opts, config, tcs>>,
           pc' = "ended", outcome' \in {"success", "verdict", "usage"}
    PROVE  IInv'
  <1>1. Searched
    BY DEF Ready, Searched
  <1> QED BY <1>1, InvTyped, OutcomesAre, QuietInv

LEMMA ListInv == ASSUME IInv, List \/ CxxList PROVE IInv'
  <1>1. /\ Ready /\ UNCHANGED <<request, argv, ind, pos, opts, config, tcs>>
        /\ pc' = "ended" /\ outcome' = "success"
    BY DEF List, CxxList, Finish
  <1> QED BY <1>1, LastInv

LEMMA RunInv == ASSUME IInv, Run \/ CxxRun PROVE IInv'
  <1>1. \A tc, part : RunPart(tc, part) => pc' = "ended" /\ outcome' \in {"success", "verdict"}
    BY DEF RunPart, Body, Cleanup, Finish
  <1>2. Unknown => pc' = "ended" /\ outcome' = "usage"
    BY DEF Unknown, Finish
  <1>3. /\ Ready /\ UNCHANGED <<request, argv, ind, pos, opts, config, tcs>>
        /\ Unknown \/ \E tc, part : RunPart(tc, part)
    BY DEF Run, CxxRun
  <1> QED BY <1>1, <1>2, <1>3, LastInv

LEMMA StayInv == ASSUME IInv, UNCHANGED vars PROVE IInv'
  <1>1. /\ argv' = argv /\ ind' = ind /\ pos' = pos /\ opts' = opts /\ config' = config
        /\ req' = req /\ host' = host /\ tcs' = tcs /\ pc' = pc /\ outcome' = outcome
    BY DEF vars
  <1>2. Cxx' = Cxx /\ Told' = Told /\ Found' = Found
    BY <1>1, DirStays
  <1>3. Searched' => Found' /\ Located(config)'
    BY <1>1, <1>2 DEF IInv, Located, Searched
  <1>4. /\ req \in Requests /\ host \in Hosts /\ (~Cxx => opts.srcdir # Empty)
        /\ \A i \in 1..Len(tcs) : tcs[i].config = config
        /\ (tcs # Empty => pc \in {"add", "ended"})
        /\ pc \in {"enter", "options", "names", "srcdir", "add", "ended"}
    BY DEF IInv, WholeConfig, TypeOK
  <1> QED BY <1>1, <1>2, <1>3, <1>4, InvTyped, InvFrom

\* The invariant holds in every state: of it the theorems below are parts.
THEOREM ProgramInv == Spec => []IInv
  <1>1. IInv /\ [Next]_vars => IInv'
    BY EnterInv, EndOfOptionsInv, OptionInv, CxxOptionInv, NamesInv, CxxNamesInv, FindSrcdirInv,
       CxxFindSrcdirInv, AddTcInv, CxxAddTcInv, ListInv, RunInv, StayInv DEF Next
  <1> QED BY <1>1, InitInv, PTL DEF Spec

\* The variables have their types in every state.
THEOREM ProgramTypeOK == Spec => []TypeOK
  <1>1. IInv => TypeOK
    BY DEF IInv
  <1> QED BY <1>1, ProgramInv, PTL

\* Every test case, however many and whenever it is added, has the whole
\* configuration: what the options and the search for the program entered,
\* no variable twice and none lost on the way.
THEOREM ProgramWholeConfig == Spec => []WholeConfig
  <1>1. IInv => WholeConfig
    BY DEF IInv
  <1> QED BY <1>1, ProgramInv, PTL

\* The srcdir a test case sees is absolute and has the program in it: of C
\* and C++ programs, for any command line, working directory and files.
THEOREM ProgramSrcdir == Spec => []SrcdirHoldsProgram
  <1>1. ASSUME IInv, ~AtDrive, NEW i \in DOMAIN tcs
        PROVE  LET dir == Value(tcs[i].config, Srcdir)
               IN  IsAbsolute(dir) /\ Resolve(dir \o <<"/">> \o ProgName) \in Files
    <2> DEFINE dir == Value(tcs[i].config, Srcdir)
    <2>1. /\ host \in Hosts /\ (~Cxx => opts.srcdir # Empty)
          /\ \A j \in 1..Len(tcs) : tcs[j].config = config
      BY <1>1 DEF IInv, WholeConfig
    <2>2. i \in 1..Len(tcs) /\ tcs # Empty
      <3>1. i \in 1..Len(tcs)
        BY <1>1, InvTyped, Typed
      <3>2. Len(Empty) = 0
        BY DEF Empty
      <3> QED BY <3>1, <3>2
    <2>3. dir = Told /\ Found
      BY <1>1, <2>1, <2>2 DEF IInv, Searched, Located
    <2> HIDE DEF dir
    <2>4. ProgName \in PathNames
      BY <2>1, ProgNameIs
    <2>5. ~(host.windows /\ Dir = <<"C:">>)
      BY <1>1 DEF AtDrive, Dir
    <2>6. Dir \in Texts /\ Dir # Empty
      BY <1>1, <2>1, InvTyped, SourceDirIs, CxxSourceDirIs DEF Dir
    <2>7. Resolve((Dir \o <<"/">>) \o ProgName) \in Files
      <3>1. AppendTo(Dir, ProgName) = (Dir \o <<"/">>) \o ProgName
        BY <2>4, <2>6, AppendName
      <3>2. Exists(AppendTo(Dir, ProgName)) = "yes"
        BY <2>3 DEF Found
      <3> QED BY <3>1, <3>2 DEF Exists
    <2>8. CASE ~Cxx
      <3>1. Told = Dir /\ Dir = SourceDir
        BY <2>8 DEF Told, Dir
      <3>2. IsAbsolute(Dir)
        BY <1>1, <2>1, <2>5, <2>8, <3>1, InvTyped, SourceDirIs
      <3> QED BY <2>3, <2>7, <3>1, <3>2 DEF dir
    <2>9. CASE Cxx /\ IsAbsolute(Dir)
      <3>1. Told = Dir
        BY <2>9 DEF Told, CxxMakeAbsolute
      <3> QED BY <2>3, <2>7, <2>9, <3>1 DEF dir
    <2>10. CASE Cxx /\ ~IsAbsolute(Dir)
      <3>1. Told = CxxToAbsolute(host.cwd, Dir)
        BY <2>10 DEF Told, CxxMakeAbsolute
      <3>2. IsAbsolute(Told) /\ Resolve((Told \o <<"/">>) \o ProgName) = Resolve((Dir \o <<"/">>) \o ProgName)
        BY <2>1, <2>4, <2>5, <2>6, <2>10, <3>1, MadeAbsolute
      <3> QED BY <2>3, <2>7, <3>2 DEF dir
    <2> QED BY <2>8, <2>9, <2>10 DEF dir
  <1>2. IInv => SrcdirHoldsProgram
    BY <1>1 DEF SrcdirHoldsProgram
  <1> QED BY <1>2, ProgramInv, PTL

-----------------------------------------------------------------------------
(* What the words of a command line are *)

\* An option of one word, without an argument.
Alone(o) == o.flag \notin WantArg \/ o.arg = NoArg

\* In the word at, from its letter p on, is the option o, and its words end
\* with the word end; x letters of the next option follow in the word.
Wrote(line, at, p, end, o, x) ==
    LET w == line[at] IN
    /\ at \in 1..Len(line) /\ Len(w) >= p
    /\ w[1] = "-" /\ (p = 3 => w[2] = "l") /\ w[p] = o.flag
    /\ \/ Alone(o) /\ end = at /\ Len(w) = p + x
       \/ ~Alone(o) /\ x = 0 /\ end = at /\ o.arg # Empty /\ p = 2 /\ Len(w) > p /\ After(w, p) = o.arg
       \/ ~Alone(o) /\ x = 0 /\ end = at + 1 /\ end <= Len(line) /\ Len(w) = p /\ line[end] = o.arg

\* The next option goes into the last word.
Merges(how, line) == how = "cluster" /\ line # Empty /\ Last(line) = <<"-", "l">>

\* What the words of an option are.
LEMMA WrittenIs ==
    ASSUME NEW o \in Opts, NEW how, NEW v, v = Written(o, how)
    PROVE  /\ v \in Lines
           /\ \/ Alone(o) /\ v = <<Dashed(o)>>
              \/ ~Alone(o) /\ how = "joined" /\ o.arg # Empty /\ v = <<Dashed(o) \o o.arg>>
              \/ ~Alone(o) /\ (how # "joined" \/ o.arg = Empty) /\ v = <<Dashed(o), o.arg>>
  <1>1. v \in Lines
    BY WrittenTyped
  <1> HIDE DEF Lines
  <1>2. CASE Alone(o)
    BY <1>1, <1>2 DEF Written, Alone
  <1>3. CASE ~Alone(o)
    BY <1>1, <1>3 DEF Written, Alone
  <1> QED BY <1>2, <1>3

LEMMA DashedIs ==
    ASSUME NEW o \in Opts
    PROVE  /\ Dashed(o) \in Texts /\ Len(Dashed(o)) = 2 /\ Dashed(o)[1] = "-" /\ Dashed(o)[2] = o.flag
           /\ LET w == Dashed(o) \o o.arg
              IN  /\ w \in Texts /\ Len(w) = 2 + Len(o.arg) /\ w[1] = "-" /\ w[2] = o.flag
                  /\ After(w, 2) = o.arg
  <1> DEFINE d == Dashed(o)
             a == o.arg
             w == d \o a
  <1>1. o.flag \in Tokens /\ a \in Texts /\ a \in Seq(Tokens) /\ Len(a) \in Nat
    BY TextTyped DEF Opts
  <1>2. d \in Texts /\ d \in Seq(Tokens) /\ Len(d) = 2 /\ d[1] = "-" /\ d[2] = o.flag
    BY <1>1, OptionTokens DEF Dashed, Texts
  <1> HIDE DEF d, a
  <1>3. Joins(Tokens, d, a, w)
    BY <1>1, <1>2, Concat
  <1> HIDE DEF w
  <1>4. w \in Seq(Tokens) /\ Len(w) = 2 + Len(a) /\ w[1] = "-" /\ w[2] = o.flag
        /\ \A i \in 1..Len(a) : w[2 + i] = a[i]
    BY <1>2, <1>3 DEF Joins
  <1>5. After(w, 2) = a
    <2>1. 2 \in 0..Len(w) /\ Len(w) - 2 = Len(a)
      BY <1>1, <1>4
    <2> DEFINE t == After(w, 2)
    <2>2. /\ t \in Seq(Tokens) /\ Len(t) = Len(w) - 2
          /\ \A j \in 1..(Len(w) - 2) : t[j] = w[2 + j]
      BY <1>4, <2>1, AfterIs
    <2> HIDE DEF t
    <2>3. Len(t) = Len(a) /\ \A j \in 1..Len(t) : t[j] = a[j]
      BY <1>4, <2>1, <2>2
    <2>4. t = a
      BY <1>1, <2>2, <2>3, Same
    <2> QED BY <2>4 DEF t
  <1> QED BY <1>2, <1>4, <1>5 DEF d, a, w, Texts

\* An option put at the end of a line that does not merge.
LEMMA PutApart ==
    ASSUME NEW line \in Lines, NEW o \in Opts, NEW how
    PROVE  LET new == line \o Written(o, how)
               b == Len(line)
           IN  /\ new \in Lines /\ (\A i \in 1..b : new[i] = line[i]) /\ Len(new) >= b
               /\ Wrote(new, b + 1, 2, Len(new), o, 0)
               /\ how # "joined" \/ Alone(o) \/ o.arg = Empty => Len(new[b + 1]) = 2
  <1> DEFINE v == Written(o, how)
             new == line \o v
             b == Len(line)
  <1>1. v \in Lines /\ line \in Lines /\ b \in Nat
    BY WrittenIs, Typed DEF Lines
  <1>2. /\ Dashed(o) \in Texts /\ Len(Dashed(o)) = 2 /\ Dashed(o)[1] = "-" /\ Dashed(o)[2] = o.flag
        /\ Len(Dashed(o) \o o.arg) = 2 + Len(o.arg)
        /\ (Dashed(o) \o o.arg)[1] = "-" /\ (Dashed(o) \o o.arg)[2] = o.flag
        /\ After(Dashed(o) \o o.arg, 2) = o.arg
    BY DashedIs
  <1>3. o.arg \in Texts /\ Len(o.arg) \in Nat /\ (o.arg # Empty => Len(o.arg) > 0)
    BY TextTyped DEF Opts
  <1>4. \/ Alone(o) /\ v = <<Dashed(o)>>
        \/ ~Alone(o) /\ how = "joined" /\ o.arg # Empty /\ v = <<Dashed(o) \o o.arg>>
        \/ ~Alone(o) /\ (how # "joined" \/ o.arg = Empty) /\ v = <<Dashed(o), o.arg>>
    BY WrittenIs
  <1> HIDE DEF v
  <1>5. Joins(Texts, line, v, new) /\ new \in Lines
    BY <1>1, Concat, LineConcat DEF Lines
  <1> HIDE DEF new, b
  <1>6. /\ (\A i \in 1..b : new[i] = line[i]) /\ Len(new) = b + Len(v)
        /\ \A i \in 1..Len(v) : new[b + i] = v[i]
    BY <1>5 DEF Joins, b
  <1>7. CASE Alone(o) /\ v = <<Dashed(o)>>
    <2>1. Len(v) = 1 /\ v[1] = Dashed(o)
      BY <1>7
    <2>2. Len(new) = b + 1 /\ new[b + 1] = Dashed(o)
      BY <1>1, <1>6, <2>1
    <2> QED BY <1>1, <1>2, <1>5, <1>6, <1>7, <2>2 DEF Wrote, new, v, b
  <1>8. CASE ~Alone(o) /\ how = "joined" /\ o.arg # Empty /\ v = <<Dashed(o) \o o.arg>>
    <2> DEFINE w == Dashed(o) \o o.arg
    <2> HIDE DEF w
    <2>1. Len(v) = 1 /\ v[1] = w
      BY <1>8 DEF w
    <2>2. Len(new) = b + 1 /\ new[b + 1] = w
      BY <1>1, <1>6, <2>1
    <2>3. Len(w) > 2 /\ w[1] = "-" /\ w[2] = o.flag /\ After(w, 2) = o.arg
      BY <1>2, <1>3, <1>8 DEF w
    <2> QED BY <1>1, <1>3, <1>5, <1>6, <1>8, <2>2, <2>3 DEF Wrote, new, v, b
  <1>9. CASE ~Alone(o) /\ (how # "joined" \/ o.arg = Empty) /\ v = <<Dashed(o), o.arg>>
    <2>1. Len(v) = 2 /\ v[1] = Dashed(o) /\ v[2] = o.arg
      BY <1>9
    <2>2. Len(new) = b + 2 /\ new[b + 1] = Dashed(o) /\ new[b + 2] = o.arg
      BY <1>1, <1>6, <2>1
    <2> QED BY <1>1, <1>2, <1>5, <1>6, <1>9, <2>2 DEF Wrote, new, v, b
  <1> QED BY <1>4, <1>7, <1>8, <1>9

\* An option put into the last word of a line.
LEMMA PutMerged ==
    ASSUME NEW line \in Lines, NEW o \in Opts, line # Empty
    PROVE  LET new == Front(line) \o << <<"-", "l", o.flag>> >> \o Tail(Written(o, "apart"))
               b == Len(line)
           IN  /\ new \in Lines /\ (\A i \in 1..(b - 1) : new[i] = line[i]) /\ Len(new) >= b /\ b > 0
               /\ Wrote(new, b, 3, Len(new), o, 0) /\ Len(new[b]) = 3
  <1> DEFINE x == <<"-", "l", o.flag>>
             h == Front(line) \o <<x>>
             t == Tail(Written(o, "apart"))
             new == h \o t
             b == Len(line)
  <1>1. x \in Texts /\ Len(x) = 3 /\ x[1] = "-" /\ x[2] = "l" /\ x[3] = o.flag
    BY OptionTokens DEF Opts, Texts
  <1>2. line \in Seq(Texts) /\ b \in Nat /\ line # <<>> /\ b > 0
    BY Typed DEF Lines, Empty
  <1>3. t \in Lines /\ (Alone(o) => t = <<>>) /\ (~Alone(o) => t = <<o.arg>>)
    <2>1. \A u, v \in Texts : Tail(<<u>>) = <<>> /\ Tail(<<u, v>>) = <<v>>
      OBVIOUS
    <2>2. Dashed(o) \in Texts /\ o.arg \in Texts
      BY DashedIs DEF Opts
    <2>3. (Alone(o) => t = Tail(<<Dashed(o)>>)) /\ (~Alone(o) => t = Tail(<<Dashed(o), o.arg>>))
      BY WrittenIs
    <2> QED BY <2>1, <2>2, <2>3, WrittenTyped
  <1> HIDE DEF x
  <1>4. h \in Lines /\ Len(h) = b /\ h[b] = x /\ \A i \in 1..(b - 1) : h[i] = line[i]
    BY <1>1, <1>2, LastReplaced DEF Lines
  <1> HIDE DEF h, t
  <1>5. Joins(Texts, h, t, new) /\ new \in Lines
    BY <1>3, <1>4, Concat, LineConcat DEF Lines
  <1> HIDE DEF new
  <1>6. Len(new) = b + Len(t) /\ (\A i \in 1..b : new[i] = h[i]) /\ \A i \in 1..Len(t) : new[b + i] = t[i]
    BY <1>4, <1>5 DEF Joins
  <1>7. new[b] = x /\ \A i \in 1..(b - 1) : new[i] = line[i]
    <2>1. b \in 1..b /\ \A i \in 1..(b - 1) : i \in 1..b
      BY <1>2
    <2> QED BY <1>4, <1>6, <2>1
  <1> HIDE DEF b
  <1>8. Wrote(new, b, 3, Len(new), o, 0) /\ Len(new) >= b
    <2>1. CASE Alone(o)
      <3>1. Len(new) = b
        BY <1>2, <1>3, <1>6, <2>1
      <3>2. b \in 1..Len(new) /\ Len(new) >= b
        BY <1>2, <3>1
      <3>3. Len(new[b]) = 3 /\ new[b][1] = "-" /\ new[b][2] = "l" /\ new[b][3] = o.flag
        BY <1>1, <1>7
      <3> HIDE DEF Alone
      <3> QED BY <2>1, <3>1, <3>2, <3>3 DEF Wrote
    <2>2. CASE ~Alone(o)
      <3>1. Len(t) = 1 /\ t[1] = o.arg
        BY <1>3, <2>2
      <3>2. Len(new) = b + 1 /\ new[b + 1] = o.arg
        BY <1>2, <1>6, <3>1
      <3> QED BY <1>1, <1>2, <1>7, <2>2, <3>2, SMTT(30) DEF Wrote
    <2> QED BY <2>1, <2>2
  <1>9. Front(line) \o <<x>> \o t = new
    BY DEF new, h
  <1> QED BY <1>1, <1>2, <1>5, <1>7, <1>8, <1>9 DEF b, x, t

\* A chain of lines, how many words each has, and which options merge.
Upto(c) == [j \in DOMAIN c |-> Len(c[j])]
Mrg(how, c, n) == [j \in 1..(n + 1) |-> j <= n /\ Merges(how, c[j - 1])]

\* The word an option is in, and the place of its letter in it.
At(upto, mrg, j) == IF mrg[j] THEN upto[j - 1] ELSE upto[j - 1] + 1
Letter(mrg, j) == IF mrg[j] THEN 3 ELSE 2

\* The first k options are in the line.
Spelled(line, os, k, upto, mrg) ==
    /\ \A j \in 1..k :
        /\ (\A i \in 0..(j - 1) : upto[i] <= upto[j]) /\ upto[j] <= Len(line)
        /\ Wrote(line, At(upto, mrg, j), Letter(mrg, j), upto[j], os[j],
                 IF j < k /\ mrg[j + 1] THEN 1 ELSE 0)
        /\ j < k /\ mrg[j + 1] => os[j].flag = "l" /\ ~mrg[j]

\* A word as it was.
LEMMA WroteSame ==
    ASSUME NEW line, NEW new, NEW at, NEW p, NEW end, NEW o, NEW x,
           Wrote(line, at, p, end, o, x), Len(line) \in Nat, Len(new) \in Nat, Len(line) <= Len(new),
           new[at] = line[at], end > at => new[end] = line[end]
    PROVE  Wrote(new, at, p, end, o, x)
  <1>1. at \in 1..Len(new)
    BY DEF Wrote
  <1> QED BY <1>1 DEF Wrote

LEMMA MrgIs ==
    ASSUME NEW how, NEW c, NEW n \in Nat
    PROVE  /\ Mrg(how, c, n) \in [1..(n + 1) -> BOOLEAN] /\ ~Mrg(how, c, n)[n + 1]
           /\ \A j \in 1..(n + 1) : Mrg(how, c, n)[j] => how = "cluster" /\ c[j - 1] # Empty
  <1> DEFINE m == Mrg(how, c, n)
  <1>1. m = [j \in 1..(n + 1) |-> j <= n /\ Merges(how, c[j - 1])]
    BY DEF Mrg
  <1>2. \A j \in 1..(n + 1) : (j <= n /\ Merges(how, c[j - 1])) \in BOOLEAN
    OBVIOUS
  <1>3. m \in [1..(n + 1) -> BOOLEAN]
    BY <1>1, <1>2
  <1>4. n + 1 \in 1..(n + 1) /\ ~(n + 1 <= n)
    OBVIOUS
  <1>5. \A j \in 1..(n + 1) : m[j] => j <= n /\ how = "cluster" /\ c[j - 1] # Empty
    BY <1>1 DEF Merges
  <1> HIDE DEF m
  <1> QED BY <1>3, <1>4, <1>5 DEF m

\* No argument of a cluster is one that a letter could be put to.
NoneLikeList(how, os) ==
    how = "cluster" => \A j \in 1..Len(os) : Alone(os[j]) \/ os[j].arg # <<"-", "l">>

LEMMA SpelledChain ==
    ASSUME NEW how, NEW os \in Seq(Opts), NEW c \in Lining(how, os), NoneLikeList(how, os)
    PROVE  LET n == Len(os)
           IN  \A k \in 0..n : Spelled(c[k], os, k, Upto(c), Mrg(how, c, n))
  <1> DEFINE n == Len(os)
             upto == Upto(c)
             mrg == Mrg(how, c, n)
             T == {k \in 0..n : Spelled(c[k], os, k, upto, mrg)}
  <1>1. /\ n \in Nat /\ \A j \in 1..n : os[j] \in Opts
        /\ c \in [0..n -> Lines] /\ c[0] = Empty
        /\ \A i \in 1..n : c[i] = PutOption(how, c[i - 1], os[i])
    BY Typed DEF Lining
  <1>2. /\ \A j \in 0..n : c[j] \in Lines /\ upto[j] = Len(c[j]) /\ Len(c[j]) \in Nat
        /\ \A j \in 1..n : mrg[j] = Merges(how, c[j - 1])
        /\ mrg[n + 1] = FALSE /\ \A j \in 1..(n + 1) : mrg[j] \in BOOLEAN
    <2>1. \A j \in 0..n : c[j] \in Lines /\ Len(c[j]) \in Nat
      BY <1>1, Typed DEF Lines
    <2>2. \A j \in 0..n : upto[j] = Len(c[j])
      BY <1>1 DEF Upto
    <2>3. \A j \in 1..n : mrg[j] = Merges(how, c[j - 1])
      BY <1>1 DEF Mrg, Merges
    <2>4. mrg[n + 1] = FALSE /\ \A j \in 1..(n + 1) : mrg[j] \in BOOLEAN
      <3>1. mrg \in [1..(n + 1) -> BOOLEAN] /\ ~mrg[n + 1]
        BY <1>1, MrgIs
      <3> HIDE DEF mrg
      <3> QED BY <1>1, <3>1
    <2> QED BY <2>1, <2>2, <2>3, <2>4
  <1> HIDE DEF n, upto, mrg
  <1>3. 0 \in T
    BY <1>1 DEF Spelled
  <1>4. ASSUME NEW k \in 0..n, k \in T, k < n PROVE k + 1 \in T
    <2> DEFINE o == os[k + 1]
               old == c[k]
               new == c[k + 1]
               b == Len(c[k])
               m == Merges(how, c[k])
    <2>1. /\ k \in Nat /\ k + 1 \in 1..n /\ k + 1 \in 0..n /\ (k + 1) - 1 = k
          /\ o \in Opts /\ old \in Lines /\ new \in Lines /\ b \in Nat
          /\ new = PutOption(how, old, o) /\ (mrg[k + 1] <=> m) /\ upto[k] = b /\ upto[k + 1] = Len(new)
          /\ Len(new) \in Nat /\ b = Len(old) /\ n \in Nat /\ k < n
      BY <1>1, <1>2, <1>4
    <2>2. Spelled(old, os, k, upto, mrg)
      BY <1>4
    <2> HIDE DEF o, old, new, b, T, m
    <2>3. /\ \A i \in 1..b : i < b \/ ~m => new[i] = old[i]
          /\ Len(new) >= b /\ (m => b > 0)
          /\ Wrote(new, IF m THEN b ELSE b + 1, IF m THEN 3 ELSE 2, Len(new), o, 0)
          /\ m => Len(new[b]) = 3
      <3>1. CASE m
        <4>1. /\ how = "cluster" /\ old # Empty
              /\ new = Front(old) \o << <<"-", "l", o.flag>> >> \o Tail(Written(o, "apart"))
          BY <2>1, <3>1 DEF m, Merges, PutOption, Clustered, old
        <4>2. /\ (\A i \in 1..(b - 1) : new[i] = old[i]) /\ Len(new) >= b /\ b > 0
              /\ Wrote(new, b, 3, Len(new), o, 0) /\ Len(new[b]) = 3
          <5> DEFINE x == Front(old) \o << <<"-", "l", o.flag>> >> \o Tail(Written(o, "apart"))
          <5>1. /\ (\A i \in 1..(Len(old) - 1) : x[i] = old[i]) /\ Len(x) >= Len(old) /\ Len(old) > 0
                /\ Wrote(x, Len(old), 3, Len(x), o, 0) /\ Len(x[Len(old)]) = 3
            BY <2>1, <4>1, PutMerged
          <5>2. x = new
            BY <4>1
          <5> QED BY <2>1, <5>1, <5>2
        <4> QED BY <2>1, <3>1, <4>2
      <3>2. CASE ~m
        <4>1. PICK h : new = old \o Written(o, h)
          BY <2>1, <3>2 DEF m, Merges, PutOption, Clustered, old
        <4>2. /\ (\A i \in 1..b : new[i] = old[i]) /\ Len(new) >= b
              /\ Wrote(new, b + 1, 2, Len(new), o, 0)
          BY <2>1, <4>1, PutApart
        <4> QED BY <3>2, <4>2
      <3> QED BY <3>1, <3>2
    <2>4. ASSUME m, k > 0
          PROVE  /\ os[k].flag = "l" /\ ~mrg[k] /\ Alone(os[k]) /\ At(upto, mrg, k) = b
                 /\ new[b][1] = "-" /\ new[b][2] = "l" /\ Len(new[b]) = 3
      <3>1. how = "cluster" /\ old[b] = <<"-", "l">>
        BY <2>4 DEF m, Merges, Last, b, old
      <3>2. k \in 1..k /\ k \in 1..n
        BY <2>1, <2>4
      <3>3. Wrote(old, At(upto, mrg, k), Letter(mrg, k), b, os[k], 0)
        BY <2>1, <2>2, <3>2 DEF Spelled
      <3>4. Alone(os[k]) \/ os[k].arg # <<"-", "l">>
        BY <3>1, <3>2 DEF n, NoneLikeList
      <3>5. Len(<<"-", "l">>) = 2 /\ <<"-", "l">>[2] = "l"
        OBVIOUS
      <3>6. Letter(mrg, k) \in {2, 3} /\ (Letter(mrg, k) = 2 => ~mrg[k])
        BY DEF Letter
      <3>7. Alone(os[k]) /\ At(upto, mrg, k) = b
        <4> DEFINE at == At(upto, mrg, k)
                   p == Letter(mrg, k)
                   x == os[k]
        <4> HIDE DEF at, p, x
        <4>1. Wrote(old, at, p, b, x, 0)
          BY <3>3 DEF at, p, x
        <4>2. \/ Alone(x) /\ b = at
              \/ ~Alone(x) /\ b = at /\ p = 2 /\ Len(old[at]) > p
              \/ ~Alone(x) /\ old[b] = x.arg
          BY <4>1 DEF Wrote
        <4>3. ~(~Alone(x) /\ b = at /\ p = 2 /\ Len(old[at]) > p)
          <5> SUFFICES ASSUME b = at, p = 2, Len(old[at]) > p PROVE FALSE
            OBVIOUS
          <5>1. old[at] = <<"-", "l">>
            BY <3>1
          <5>2. Len(old[at]) = 2
            BY <3>5, <5>1
          <5> QED BY <5>2
        <4>4. ~(~Alone(x) /\ old[b] = x.arg)
          BY <3>1, <3>4 DEF x
        <4> QED BY <4>2, <4>3, <4>4 DEF at, x
      <3>8. Letter(mrg, k) = 2
        BY <3>1, <3>3, <3>5, <3>6, <3>7 DEF Wrote
      <3>9. os[k].flag = "l"
        BY <3>1, <3>3, <3>5, <3>7, <3>8 DEF Wrote
      <3>10. new[b][1] = "-" /\ new[b][2] = "l" /\ Len(new[b]) = 3
        BY <2>3, <2>4 DEF Wrote
      <3> QED BY <3>6, <3>7, <3>8, <3>9, <3>10
    <2>5. ASSUME NEW j \in 1..k
          PROVE  /\ (\A i \in 0..(j - 1) : upto[i] <= upto[j]) /\ upto[j] <= Len(new)
                 /\ Wrote(new, At(upto, mrg, j), Letter(mrg, j), upto[j], os[j],
                          IF j < k + 1 /\ mrg[j + 1] THEN 1 ELSE 0)
                 /\ j < k + 1 /\ mrg[j + 1] => os[j].flag = "l" /\ ~mrg[j]
      <3> DEFINE at == At(upto, mrg, j)
                 p == Letter(mrg, j)
      <3>1. /\ (\A i \in 0..(j - 1) : upto[i] <= upto[j]) /\ upto[j] <= b
            /\ Wrote(old, at, p, upto[j], os[j], IF j < k /\ mrg[j + 1] THEN 1 ELSE 0)
            /\ j < k /\ mrg[j + 1] => os[j].flag = "l" /\ ~mrg[j]
        BY <2>2 DEF Spelled, b, old
      <3>2. at \in Nat /\ at > 0 /\ at <= upto[j] /\ upto[j] \in Nat /\ j \in 1..n /\ j \in Nat
        <4>1. j \in 1..n /\ j \in Nat
          BY <1>1, <1>4
        <4>2. upto[j] \in Nat
          BY <1>2, <4>1
        <4> QED BY <3>1, <4>1, <4>2 DEF Wrote
      <3>3. upto[j] <= Len(new)
        BY <2>1, <2>3, <3>1, <3>2
      <3> HIDE DEF at, p
      <3>4. ASSUME j < k \/ ~m, upto[j] < b \/ ~m
            PROVE  /\ Wrote(new, at, p, upto[j], os[j], IF j < k + 1 /\ mrg[j + 1] THEN 1 ELSE 0)
                   /\ j < k + 1 /\ mrg[j + 1] => os[j].flag = "l" /\ ~mrg[j]
        <4>1. at \in 1..b /\ upto[j] \in 1..b /\ (at < b \/ ~m)
          BY <2>1, <3>1, <3>2, <3>4
        <4>2. new[at] = old[at] /\ new[upto[j]] = old[upto[j]]
          BY <2>3, <3>4, <4>1
        <4>3. Wrote(new, at, p, upto[j], os[j], IF j < k /\ mrg[j + 1] THEN 1 ELSE 0)
          BY <2>1, <2>3, <3>1, <4>2, WroteSame DEF b, old
        <4>4. (j < k + 1 /\ mrg[j + 1]) <=> (j < k /\ mrg[j + 1])
          <5>1. j = k => (mrg[j + 1] <=> m)
            BY <2>1
          <5>2. j < k \/ j = k
            BY <2>1, <3>2
          <5> QED BY <2>1, <3>2, <3>4, <5>1, <5>2
        <4> QED BY <3>1, <4>3, <4>4
      <3>5. CASE ~m
        BY <3>1, <3>3, <3>4, <3>5 DEF at, p
      <3>6. CASE m /\ j < k
        <4>1. At(upto, mrg, k) = b /\ ~mrg[k] /\ k > 0
          BY <2>1, <2>4, <3>2, <3>6
        <4>2. upto[k - 1] + 1 = b
          BY <4>1 DEF At
        <4>3. upto[j] <= upto[k - 1]
          <5>1. CASE j = k - 1
            BY <3>2, <5>1
          <5>2. CASE j # k - 1
            <6>1. k - 1 \in 1..k /\ j \in 0..((k - 1) - 1)
              BY <2>1, <3>2, <3>6, <5>2
            <6> QED BY <2>2, <6>1 DEF Spelled
          <5> QED BY <5>1, <5>2
        <4>4. upto[j] < b
          <5>1. k - 1 \in 0..n
            BY <2>1, <4>1
          <5>2. upto[k - 1] \in Nat
            BY <1>2, <5>1
          <5> QED BY <2>1, <3>2, <4>2, <4>3, <5>2
        <4> QED BY <3>1, <3>3, <3>4, <3>6, <4>4 DEF at, p
      <3>7. CASE m /\ ~(j < k)
        <4>1. j = k /\ k > 0
          BY <2>1, <3>2, <3>7
        <4>2. /\ os[k].flag = "l" /\ ~mrg[k] /\ Alone(os[k]) /\ At(upto, mrg, k) = b
              /\ new[b][1] = "-" /\ new[b][2] = "l" /\ Len(new[b]) = 3
          BY <2>4, <3>7, <4>1
        <4>3. b \in 1..Len(new)
          BY <2>1, <2>3, <3>7
        <4>4. Letter(mrg, k) = 2
          BY <4>2 DEF Letter
        <4>5. Wrote(new, b, 2, b, os[k], 1)
          <5> HIDE DEF Alone
          <5> QED BY <4>2, <4>3 DEF Wrote
        <4>6. j < k + 1 /\ mrg[j + 1]
          BY <2>1, <3>7, <4>1
        <4> QED BY <2>1, <3>1, <3>3, <4>1, <4>2, <4>4, <4>5, <4>6
      <3> QED BY <3>5, <3>6, <3>7
    <2>6. /\ upto[k] <= upto[k + 1] /\ upto[k + 1] <= Len(new)
          /\ Wrote(new, At(upto, mrg, k + 1), Letter(mrg, k + 1), upto[k + 1], os[k + 1], 0)
      BY <2>1, <2>3 DEF At, Letter, o
    <2>7. ASSUME NEW j \in 1..(k + 1)
          PROVE  /\ (\A i \in 0..(j - 1) : upto[i] <= upto[j]) /\ upto[j] <= Len(new)
                 /\ Wrote(new, At(upto, mrg, j), Letter(mrg, j), upto[j], os[j],
                          IF j < k + 1 /\ mrg[j + 1] THEN 1 ELSE 0)
                 /\ j < k + 1 /\ mrg[j + 1] => os[j].flag = "l" /\ ~mrg[j]
      <3>1. CASE j \in 1..k
        BY <2>5, <3>1
      <3>2. CASE j \notin 1..k
        <4>1. j = k + 1 /\ ~(j < k + 1)
          BY <2>1, <3>2
        <4>2. ASSUME NEW i \in 0..k PROVE upto[i] <= upto[k + 1]
          <5>1. upto[i] <= upto[k]
            <6>1. CASE i = k
              BY <1>2, <4>2, <6>1, <2>1
            <6>2. CASE i # k
              <7>1. k \in 1..k /\ i \in 0..(k - 1)
                BY <2>1, <6>2
              <7> QED BY <2>2, <7>1 DEF Spelled
            <6> QED BY <6>1, <6>2
          <5>2. i \in 0..n /\ upto[i] \in Nat /\ upto[k] \in Nat /\ upto[k + 1] \in Nat
            <6>1. i \in 0..n
              BY <2>1
            <6> QED BY <1>2, <2>1, <6>1
          <5> QED BY <2>6, <5>1, <5>2
        <4> QED BY <2>1, <2>6, <4>1, <4>2
      <3> QED BY <3>1, <3>2
    <2>8. Spelled(new, os, k + 1, upto, mrg)
      BY <2>7 DEF Spelled
    <2> QED BY <2>1, <2>8 DEF T, new
  <1> HIDE DEF T
  <1>5. \A k \in 0..n : k \in T
    BY <1>1, <1>3, <1>4, StepsUpTo
  <1> QED BY <1>5 DEF T, n, upto, mrg

-----------------------------------------------------------------------------
(* The whole command line *)

\* After the word b come the names, behind a "--" or not.
Ends(line, b, names) ==
    \E e \in {0, 1} :
        /\ Len(line) = b + e + Len(names)
        /\ e = 1 => line[b + 1] = <<"-", "-">>
        /\ e = 0 /\ names # Empty => ~IsOption(names[1])
        /\ \A i \in 1..Len(names) : line[b + e + i] = names[i]

\* What Writable says of an option; last: it is the last thing in the line.
Sound(o, last) ==
    /\ o.flag # "-"
    /\ o.flag \notin WantArg => o.arg = Empty
    /\ o.arg = NoArg => last

\* The line has these options and names.
Spelling(line, os, names, upto, mrg) ==
    LET n == Len(os)
    IN  /\ upto \in [0..n -> Nat] /\ mrg \in [1..(n + 1) -> BOOLEAN]
        /\ upto[0] = 0 /\ ~mrg[1] /\ ~mrg[n + 1]
        /\ Spelled(line, os, n, upto, mrg)
        /\ \A j \in 1..n : Sound(os[j], j = n /\ upto[n] = Len(line))
        /\ upto[n] <= Len(line) /\ Ends(line, upto[n], names)

\* What follows the options in a line leaves them as they are.
LEMMA SpelledLonger ==
    ASSUME NEW line \in Lines, NEW t \in Lines, NEW os, NEW n \in Nat, NEW upto, NEW mrg,
           Spelled(line, os, n, upto, mrg)
    PROVE  Spelled(line \o t, os, n, upto, mrg)
  <1> DEFINE new == line \o t
  <1>1. Joins(Texts, line, t, new) /\ Len(line) \in Nat /\ Len(t) \in Nat
    BY Concat, Typed DEF Lines
  <1> HIDE DEF new
  <1>2. Len(new) \in Nat /\ Len(line) <= Len(new) /\ \A i \in 1..Len(line) : new[i] = line[i]
    BY <1>1 DEF Joins
  <1>3. ASSUME NEW j \in 1..n
        PROVE  /\ (\A i \in 0..(j - 1) : upto[i] <= upto[j]) /\ upto[j] <= Len(new)
               /\ Wrote(new, At(upto, mrg, j), Letter(mrg, j), upto[j], os[j],
                        IF j < n /\ mrg[j + 1] THEN 1 ELSE 0)
               /\ j < n /\ mrg[j + 1] => os[j].flag = "l" /\ ~mrg[j]
    <2> DEFINE at == At(upto, mrg, j)
               p == Letter(mrg, j)
               x == IF j < n /\ mrg[j + 1] THEN 1 ELSE 0
               end == upto[j]
    <2>1. /\ (\A i \in 0..(j - 1) : upto[i] <= upto[j]) /\ upto[j] <= Len(line)
          /\ Wrote(line, at, p, end, os[j], x)
          /\ j < n /\ mrg[j + 1] => os[j].flag = "l" /\ ~mrg[j]
      BY DEF Spelled
    <2> HIDE DEF at, p, x, end
    <2>2. at \in 1..Len(line) /\ (end > at => end \in 1..Len(line)) /\ end \in Nat
      BY <1>1, <2>1 DEF Wrote, end
    <2>3. new[at] = line[at] /\ (end > at => new[end] = line[end])
      BY <1>2, <2>2
    <2>4. Wrote(new, at, p, end, os[j], x)
      BY <1>1, <1>2, <2>1, <2>3, WroteSame
    <2>5. upto[j] <= Len(new)
      BY <1>1, <1>2, <2>1, <2>2 DEF end
    <2> QED BY <2>1, <2>4, <2>5 DEF at, p, x, end
  <1> QED BY <1>3 DEF Spelled, new

\* The words of a request are the words of its options and names.
LEMMA CommandLineSpelling ==
    ASSUME NEW r \in Requests, NEW how,
           \A i \in DOMAIN r.opts : Sound(r.opts[i], i = Len(r.opts) /\ r.names = Empty),
           \A i \in DOMAIN r.opts : how = "cluster" => r.opts[i].arg # <<"-", "l">>,
           r.names # Empty => ~IsOption(r.names[1])
    PROVE  \E upto, mrg : /\ Spelling(CommandLine(r, how), r.opts, r.names, upto, mrg)
                          /\ how # "cluster" => \A j \in 1..(Len(r.opts) + 1) : ~mrg[j]
  <1> DEFINE os == r.opts
             ns == r.names
             n == Len(os)
             lacks == os # Empty /\ Last(os).arg = NoArg
             w == <<"-", "-">>
             end == IF how = "joined" /\ ~lacks THEN <<w>> ELSE Empty
             first == Line(os, how)
             line == (first \o end) \o ns
  <1>1. os \in Seq(Opts) /\ ns \in Lines /\ n \in Nat /\ Len(ns) \in Nat /\ DOMAIN os = 1..n
        /\ \A i \in 1..n : os[i] \in Opts
    <2>1. os \in Seq(Opts) /\ ns \in Lines
      BY AtfProgramAssumption DEF Opts, Lines
    <2> HIDE DEF os, ns
    <2> QED BY <2>1, Typed DEF Lines
  <1>2. CommandLine(r, how) = line
    BY DEF CommandLine, Line
  <1>3. w \in Texts /\ <<w>> \in Lines /\ Len(<<w>>) = 1 /\ <<w>>[1] = w
    <2>1. w \in Texts
      BY OptionTokens DEF Texts
    <2> HIDE DEF w
    <2> QED BY <2>1 DEF Lines
  <1> HIDE DEF w
  <1>4. end \in Lines /\ Len(end) \in {0, 1} /\ (Len(end) = 1 => end[1] = w /\ ~lacks)
    BY <1>3, LineConcat DEF Empty
  <1>5. PICK c \in Lining(how, os) : first = c[n]
    BY <1>1, LineChain
  <1> DEFINE upto == Upto(c)
             mrg == Mrg(how, c, n)
  <1>6. c \in [0..n -> Lines] /\ c[0] = Empty /\ n \in 0..n /\ first \in Lines
    BY <1>1, <1>5 DEF Lining
  <1>7. /\ upto \in [0..n -> Nat] /\ upto[0] = 0 /\ upto[n] = Len(first)
        /\ mrg \in [1..(n + 1) -> BOOLEAN] /\ ~mrg[1] /\ ~mrg[n + 1]
        /\ how # "cluster" => \A j \in 1..(n + 1) : ~mrg[j]
    <2>1. \A j \in 0..n : Len(c[j]) \in Nat
      BY <1>6, Typed DEF Lines
    <2>2. DOMAIN c = 0..n /\ 0 \in 0..n /\ Len(Empty) = 0
      BY <1>1, <1>6 DEF Empty
    <2>3. upto \in [0..n -> Nat] /\ upto[0] = 0 /\ upto[n] = Len(first)
      BY <1>5, <1>6, <2>1, <2>2 DEF Upto
    <2>4. /\ mrg \in [1..(n + 1) -> BOOLEAN] /\ ~mrg[n + 1]
          /\ \A j \in 1..(n + 1) : mrg[j] => how = "cluster" /\ c[j - 1] # Empty
      BY <1>1, MrgIs
    <2> HIDE DEF mrg, upto, n
    <2>5. ~mrg[1]
      BY <1>1, <1>6, <2>4
    <2>6. how # "cluster" => \A j \in 1..(n + 1) : ~mrg[j]
      BY <2>4
    <2> QED BY <2>3, <2>4, <2>5, <2>6
  <1>8. Spelled(first, os, n, upto, mrg)
    <2>1. NoneLikeList(how, os)
      BY <1>1 DEF NoneLikeList
    <2> QED BY <1>1, <1>5, <2>1, SpelledChain
  <1> HIDE DEF os, ns, n, end, first, upto, mrg
  <1>9. first \o end \in Lines /\ line = first \o (end \o ns) /\ end \o ns \in Lines
    <2>1. first \o end \in Lines /\ end \o ns \in Lines
      BY <1>1, <1>4, <1>6, LineConcat
    <2>2. (first \o end) \o ns = first \o (end \o ns)
      <3>1. first \in Seq(Texts) /\ end \in Seq(Texts) /\ ns \in Seq(Texts)
        BY <1>1, <1>4, <1>6 DEF Lines
      <3> QED BY <3>1, Associative
    <2> QED BY <2>1, <2>2
  <1>10. Spelled(line, os, n, upto, mrg)
    BY <1>1, <1>6, <1>8, <1>9, SpelledLonger
  <1>11. /\ Len(line) = upto[n] + Len(end) + Len(ns) /\ upto[n] <= Len(line)
         /\ Len(end) = 1 => line[upto[n] + 1] = w
         /\ \A i \in 1..Len(ns) : line[upto[n] + Len(end) + i] = ns[i]
    <2> DEFINE h == first \o end
    <2>1. Joins(Texts, first, end, h)
      BY <1>4, <1>6, Concat DEF Lines
    <2>2. h \in Lines
      BY <1>9
    <2> HIDE DEF h
    <2>3. Joins(Texts, h, ns, h \o ns)
      BY <1>1, <2>2, Concat DEF Lines
    <2>4. Len(first) \in Nat /\ upto[n] = Len(first)
      BY <1>6, <1>7, Typed DEF Lines
    <2>5. Len(h) = upto[n] + Len(end) /\ Len(h \o ns) = Len(h) + Len(ns)
      BY <2>1, <2>3, <2>4 DEF Joins
    <2>6. Len(end) = 1 => h[upto[n] + 1] = w
      BY <1>4, <2>1, <2>4 DEF Joins
    <2>7. Len(end) = 1 => (h \o ns)[upto[n] + 1] = w
      <3>1. Len(end) = 1 => upto[n] + 1 \in 1..Len(h)
        BY <1>1, <2>4, <2>5
      <3> QED BY <2>3, <2>6, <3>1 DEF Joins
    <2>8. \A i \in 1..Len(ns) : (h \o ns)[upto[n] + Len(end) + i] = ns[i]
      BY <2>3, <2>5 DEF Joins
    <2>9. h \o ns = line
      BY DEF h
    <2>10. Len(line) = upto[n] + Len(end) + Len(ns) /\ upto[n] <= Len(line)
      BY <1>1, <1>4, <2>4, <2>5, <2>9
    <2> QED BY <2>7, <2>8, <2>9, <2>10
  <1>12. Ends(line, upto[n], ns)
    <2>1. Len(end) = 0 /\ ns # Empty => ~IsOption(ns[1])
      BY DEF ns
    <2> HIDE DEF line
    <2> QED BY <1>4, <1>11, <2>1 DEF Ends, w
  <1>13. ASSUME NEW j \in 1..n PROVE Sound(os[j], j = n /\ upto[n] = Len(line))
    <2>1. Sound(os[j], j = n /\ ns = Empty)
      BY <1>1 DEF os, ns, n
    <2>2. j = n /\ ns = Empty /\ os[j].arg = NoArg => upto[n] = Len(line)
      <3> SUFFICES ASSUME j = n, ns = Empty, os[j].arg = NoArg PROVE upto[n] = Len(line)
        OBVIOUS
      <3>1. os # Empty /\ Last(os) = os[n]
        BY <1>1 DEF Last, n, Empty
      <3>2. Len(end) = 0
        BY <1>4, <3>1
      <3>3. Len(ns) = 0
        BY DEF Empty
      <3>4. upto[n] \in Nat
        BY <1>1, <1>7
      <3> QED BY <1>11, <3>2, <3>3, <3>4
    <2> QED BY <2>1, <2>2 DEF Sound
  <1>14. Spelling(line, os, ns, upto, mrg)
    <2> HIDE DEF line
    <2> QED BY <1>7, <1>10, <1>11, <1>12, <1>13 DEF Spelling, n
  <1> QED BY <1>2, <1>7, <1>14 DEF os, ns, n

-----------------------------------------------------------------------------
(* What getopt makes of a command line *)

LEMMA GetOptIs ==
    LET w == argv[ind]
        rest == After(w, pos)
    IN  /\ ind > Len(argv) \/ ~IsOption(w) \/ Len(w) = 1 =>
              GetOpt = [c |-> None, arg |-> Empty, ind |-> ind, pos |-> 2]
        /\ ~(ind > Len(argv) \/ ~IsOption(w) \/ Len(w) = 1) =>
              /\ w = <<"-", "-">> =>
                    GetOpt = [c |-> None, arg |-> Empty, ind |-> ind + 1, pos |-> 2]
              /\ w # <<"-", "-">> /\ w[pos] \notin WantArg =>
                    /\ GetOpt.c = IF w[pos] = "l" THEN "l" ELSE "?"
                    /\ rest = Empty => GetOpt.ind = ind + 1 /\ GetOpt.pos = 2
                    /\ rest # Empty => GetOpt.ind = ind /\ GetOpt.pos = pos + 1
              /\ w # <<"-", "-">> /\ w[pos] \in WantArg /\ rest # Empty =>
                    GetOpt = [c |-> w[pos], arg |-> rest, ind |-> ind + 1, pos |-> 2]
              /\ w # <<"-", "-">> /\ w[pos] \in WantArg /\ rest = Empty /\ ind < Len(argv) =>
                    GetOpt = [c |-> w[pos], arg |-> argv[ind + 1], ind |-> ind + 2, pos |-> 2]
              /\ w # <<"-", "-">> /\ w[pos] \in WantArg /\ rest = Empty /\ ~(ind < Len(argv)) =>
                    GetOpt = [c |-> ":", arg |-> Empty, ind |-> ind + 1, pos |-> 2]
  BY DEF GetOpt

\* The letter that getopt answers with.
Answer(o) ==
    IF o.flag \in WantArg THEN IF o.arg = NoArg THEN ":" ELSE o.flag
    ELSE IF o.flag = "l" THEN "l" ELSE "?"

\* getopt is in the word and at the letter of the next option, or behind the last.
Reading(k, upto, mrg) == ind = At(upto, mrg, k + 1) /\ pos = Letter(mrg, k + 1)

\* At an option, getopt answers with it and goes on to the next.
LEMMA GetOptReads ==
    ASSUME NEW os \in Seq(Opts), NEW names, NEW upto, NEW mrg, argv \in Lines,
           Spelling(argv, os, names, upto, mrg),
           NEW k \in 0..(Len(os) - 1), Reading(k, upto, mrg)
    PROVE  LET o == os[k + 1]
           IN  /\ GetOpt.c = Answer(o)
               /\ o.flag \in WantArg /\ o.arg # NoArg => GetOpt.arg = o.arg
               /\ GetOpt.ind = At(upto, mrg, k + 2) /\ GetOpt.pos = Letter(mrg, k + 2)
  <1> DEFINE n == Len(os)
             j == k + 1
             o == os[j]
             w == argv[ind]
             rest == After(w, pos)
             x == IF j < n /\ mrg[j + 1] THEN 1 ELSE 0
             end == upto[j]
             m == mrg[j + 1]
  <1>1. /\ n \in Nat /\ j \in 1..n /\ j + 1 = k + 2 /\ j + 1 \in 1..(n + 1) /\ o \in Opts
        /\ Len(argv) \in Nat /\ \A i \in 1..Len(argv) : argv[i] \in Texts
    <2>1. n \in Nat /\ \A i \in 1..n : os[i] \in Opts
      BY Typed
    <2>2. Len(argv) \in Nat /\ \A i \in 1..Len(argv) : argv[i] \in Texts
      BY Typed DEF Lines
    <2> HIDE DEF n
    <2>3. j \in 1..n /\ j + 1 = k + 2 /\ j + 1 \in 1..(n + 1)
      BY <2>1 DEF n
    <2> QED BY <2>1, <2>2, <2>3
  <1>2. /\ Wrote(argv, ind, pos, end, o, x) /\ (j < n /\ m => o.flag = "l" /\ ~mrg[j])
        /\ Sound(o, j = n /\ upto[n] = Len(argv)) /\ upto \in [0..n -> Nat]
        /\ m \in BOOLEAN /\ (j = n => ~m) /\ (pos = 2 \/ pos = 3) /\ (~mrg[j] => pos = 2)
    BY <1>1 DEF Spelling, Spelled, Reading, Letter
  <1>3. /\ At(upto, mrg, j + 1) = (IF m THEN end ELSE end + 1)
        /\ Letter(mrg, j + 1) = (IF m THEN 3 ELSE 2)
    BY <1>1 DEF At, Letter
  <1>4. x = (IF m THEN 1 ELSE 0)
    BY <1>1, <1>2
  <1> HIDE DEF n, j, o, w, rest, x, end, m
  <1>5. /\ ind \in 1..Len(argv) /\ w \in Texts /\ Len(w) \in Nat /\ Len(w) >= pos
        /\ w[1] = "-" /\ w[pos] = o.flag
        /\ \/ Alone(o) /\ end = ind /\ Len(w) = pos + x
           \/ ~Alone(o) /\ x = 0 /\ end = ind /\ o.arg # Empty /\ rest = o.arg
           \/ ~Alone(o) /\ x = 0 /\ end = ind + 1 /\ end <= Len(argv) /\ Len(w) = pos
              /\ argv[end] = o.arg
    <2>1. ind \in 1..Len(argv) /\ w \in Texts /\ Len(w) \in Nat
      BY <1>1, <1>2, TextTyped DEF Wrote, w
    <2> HIDE DEF Alone
    <2> QED BY <1>2, <2>1 DEF Wrote, w, rest
  <1>6. rest \in Texts /\ Len(rest) = Len(w) - pos /\ (rest = Empty <=> Len(w) = pos)
    <2>1. pos \in 0..Len(w) /\ w \in Seq(Tokens)
      BY <1>2, <1>5, TextTyped
    <2>2. rest \in Seq(Tokens) /\ Len(rest) = Len(w) - pos
      BY <2>1, AfterIs DEF rest
    <2> QED BY <1>5, <2>1, <2>2, TextTyped DEF Texts, Empty
  <1>7. IsOption(w) /\ Len(w) # 1 /\ ind <= Len(argv) /\ w # <<"-", "-">>
    <2>1. IsOption(w) /\ Len(w) # 1 /\ ind <= Len(argv)
      BY <1>1, <1>2, <1>5, SMTT(30) DEF IsOption
    <2>2. ASSUME w = <<"-", "-">> PROVE FALSE
      <3>1. Len(w) = 2 /\ w[2] = "-"
        BY <2>2
      <3>2. o.flag = "-"
        BY <1>2, <1>5, <3>1
      <3> QED BY <1>2, <3>2 DEF Sound
    <2> QED BY <2>1, <2>2
  <1>8. CASE o.flag \notin WantArg
    <2>1. Alone(o)
      BY <1>8 DEF Alone
    <2>2. /\ GetOpt.c = (IF o.flag = "l" THEN "l" ELSE "?")
          /\ rest = Empty => GetOpt.ind = ind + 1 /\ GetOpt.pos = 2
          /\ rest # Empty => GetOpt.ind = ind /\ GetOpt.pos = pos + 1
      BY <1>1, <1>5, <1>7, <1>8, GetOptIs DEF w, rest
    <2>3. end = ind /\ Len(w) = pos + x
      BY <1>5, <2>1
    <2>4. GetOpt.ind = At(upto, mrg, j + 1) /\ GetOpt.pos = Letter(mrg, j + 1)
      <3>1. CASE m
        <4>1. rest # Empty /\ pos = 2
          BY <1>1, <1>2, <1>4, <1>5, <1>6, <2>3, <3>1
        <4> QED BY <1>3, <2>2, <2>3, <3>1, <4>1
      <3>2. CASE ~m
        <4>1. rest = Empty
          BY <1>2, <1>4, <1>5, <1>6, <2>3, <3>2
        <4> QED BY <1>3, <2>2, <2>3, <3>2, <4>1
      <3> QED BY <3>1, <3>2
    <2> QED BY <1>1, <1>8, <2>2, <2>4 DEF Answer, j, o
  <1>9. CASE o.flag \in WantArg /\ o.arg = NoArg
    <2>1. Alone(o) /\ end = ind /\ Len(w) = pos + x /\ j = n /\ upto[n] = Len(argv)
      BY <1>2, <1>5, <1>9 DEF Alone, Sound
    <2>2. ~m /\ rest = Empty /\ ~(ind < Len(argv))
      BY <1>1, <1>2, <1>4, <1>5, <1>6, <2>1 DEF end
    <2>3. GetOpt = [c |-> ":", arg |-> Empty, ind |-> ind + 1, pos |-> 2]
      BY <1>1, <1>5, <1>7, <1>9, <2>2, GetOptIs DEF w, rest
    <2> QED BY <1>1, <1>3, <1>9, <2>1, <2>2, <2>3 DEF Answer, j, o
  <1>10. CASE o.flag \in WantArg /\ o.arg # NoArg
    <2>1. ~Alone(o) /\ x = 0 /\ ~m
      BY <1>4, <1>5, <1>10 DEF Alone
    <2>2. CASE end = ind /\ o.arg # Empty /\ rest = o.arg
      <3>1. GetOpt = [c |-> w[pos], arg |-> rest, ind |-> ind + 1, pos |-> 2]
        BY <1>1, <1>5, <1>7, <1>10, <2>2, GetOptIs DEF w, rest
      <3> QED BY <1>1, <1>3, <1>5, <1>10, <2>1, <2>2, <3>1 DEF Answer, j, o
    <2>3. CASE end = ind + 1 /\ end <= Len(argv) /\ Len(w) = pos /\ argv[end] = o.arg
      <3>1. rest = Empty /\ ind < Len(argv)
        BY <1>1, <1>5, <1>6, <2>3
      <3>2. GetOpt = [c |-> w[pos], arg |-> argv[ind + 1], ind |-> ind + 2, pos |-> 2]
        BY <1>1, <1>5, <1>7, <1>10, <3>1, GetOptIs DEF w, rest
      <3>3. end + 1 = ind + 2
        BY <1>5, <2>3
      <3> QED BY <1>1, <1>3, <1>5, <1>10, <2>1, <2>3, <3>2, <3>3 DEF Answer, j, o
    <2> QED BY <1>5, <2>1, <2>2, <2>3
  <1> QED BY <1>8, <1>9, <1>10

\* Behind the options, getopt ends and what is left are the names.
LEMMA GetOptEnds ==
    ASSUME NEW os \in Seq(Opts), NEW names \in Lines, NEW upto, NEW mrg, argv \in Lines,
           Spelling(argv, os, names, upto, mrg), Reading(Len(os), upto, mrg)
    PROVE  GetOpt.c = None /\ After(argv, GetOpt.ind - 1) = names
  <1> DEFINE n == Len(os)
             w == argv[ind]
  <1>1. n \in Nat /\ Len(argv) \in Nat /\ Len(names) \in Nat /\ argv \in Seq(Texts) /\ names \in Seq(Texts)
    BY Typed DEF Lines
  <1> HIDE DEF n
  <1>2. upto[n] \in Nat /\ ind = upto[n] + 1 /\ upto[n] <= Len(argv) /\ Ends(argv, upto[n], names)
    BY <1>1 DEF Spelling, Reading, At, n
  <1>3. PICK e \in {0, 1} :
            /\ Len(argv) = upto[n] + e + Len(names)
            /\ e = 1 => argv[upto[n] + 1] = <<"-", "-">>
            /\ e = 0 /\ names # Empty => ~IsOption(names[1])
            /\ \A i \in 1..Len(names) : argv[upto[n] + e + i] = names[i]
    BY <1>2 DEF Ends
  <1>4. GetOpt.c = None /\ GetOpt.ind = upto[n] + 1 + e
    <2>1. CASE e = 1
      <3>1. w = <<"-", "-">>
        BY <1>2, <1>3, <2>1
      <3>2. Len(w) = 2 /\ IsOption(w)
        BY <3>1 DEF IsOption
      <3>3. ~(ind > Len(argv))
        BY <1>1, <1>2, <1>3, <2>1
      <3>4. GetOpt = [c |-> None, arg |-> Empty, ind |-> ind + 1, pos |-> 2]
        BY <3>1, <3>2, <3>3, GetOptIs
      <3> QED BY <1>2, <2>1, <3>4
    <2>2. CASE e = 0
      <3>1. ind > Len(argv) \/ ~IsOption(w)
        <4>1. CASE names = Empty
          BY <1>1, <1>2, <1>3, <2>2, <4>1 DEF Empty
        <4>2. CASE names # Empty
          <5>1. 1 \in 1..Len(names)
            BY <1>1, <4>2 DEF Empty
          <5>2. w = names[1]
            BY <1>2, <1>3, <2>2, <5>1
          <5> QED BY <1>3, <2>2, <4>2, <5>2
        <4> QED BY <4>1, <4>2
      <3>2. GetOpt = [c |-> None, arg |-> Empty, ind |-> ind, pos |-> 2]
        BY <3>1, GetOptIs
      <3> QED BY <1>2, <2>2, <3>2
    <2> QED BY <1>3, <2>1, <2>2
  <1>5. After(argv, GetOpt.ind - 1) = names
    <2> DEFINE b == upto[n] + e
               t == After(argv, b)
    <2>1. GetOpt.ind - 1 = b /\ b \in 0..Len(argv) /\ b \in Nat
      BY <1>1, <1>2, <1>3, <1>4, SMTT(30)
    <2>2. t \in Seq(Texts) /\ Len(t) = Len(argv) - b /\ \A j \in 1..(Len(argv) - b) : t[j] = argv[b + j]
      BY <1>1, <2>1, AfterIs
    <2>3. Len(argv) - b = Len(names)
      <3>1. Len(argv) = b + Len(names) /\ Len(names) \in Nat
        BY <1>1, <1>3
      <3> HIDE DEF b
      <3> QED BY <2>1, <3>1
    <2>4. \A j \in 1..Len(names) : argv[b + j] = names[j]
      BY <1>3
    <2> HIDE DEF t, b
    <2>5. Len(t) = Len(names) /\ \A j \in 1..Len(t) : t[j] = names[j]
      BY <2>2, <2>3, <2>4
    <2>6. t = names
      BY <1>1, <2>2, <2>5, Same
    <2> QED BY <2>1, <2>6 DEF t
  <1> QED BY <1>4, <1>5

-----------------------------------------------------------------------------
(* What Windows makes of a command line *)

\* An option after atfw_enter.
Reached(o) ==
    IF host.windows /\ o.flag \in {"r", "s"} /\ o.arg # NoArg
    THEN [flag |-> o.flag, arg |-> Entered(o.arg)] ELSE o

LEMMA EnteredIs ==
    ASSUME host \in Hosts, NEW w \in Texts
    PROVE  /\ Entered(w) \in Texts /\ (Entered(w) = Empty <=> w = Empty)
           /\ w # NoArg => Entered(w) # NoArg
  <1>1. Entered(w) \in Texts
    BY EnteredTyped
  <1>2. Len(NoArg) = 2 /\ NoArg[1] = "no" /\ NoArg[2] = "arg"
    BY DEF NoArg
  <1>3. w \in Seq(Tokens) /\ Len(w) \in Nat /\ host.root \in Seq(Tokens) /\ Len(host.root) \in Nat
    BY HostTyped, TextTyped
  <1>4. CASE OnDrive(w)
    <2> DEFINE d == <<"C:">>
               t == IF Len(w) = 4 THEN <<"/">> ELSE After(w, 4)
               u == d \o t
    <2>1. t \in Seq(Tokens) /\ d \in Seq(Tokens) /\ Len(d) = 1 /\ d[1] = "C:"
      BY <1>3, AfterTyped, DirTokens DEF Texts
    <2> HIDE DEF d, t
    <2>2. Joins(Tokens, d, t, u)
      BY <2>1, Concat
    <2>3. NativePath(w) = u
      BY <1>4 DEF NativePath, d, t
    <2> HIDE DEF u
    <2>4. Len(u) > 0 /\ u[1] = "C:"
      <3>1. Len(t) \in Nat
        BY <2>1, TextTyped DEF Texts
      <3> QED BY <2>1, <2>2, <3>1 DEF Joins
    <2>5. u # NoArg /\ u # Empty
      BY <1>2, <2>4 DEF Empty
    <2>6. w # Empty
      BY <1>4 DEF Empty, OnDrive
    <2> QED BY <1>1, <2>3, <2>5, <2>6 DEF Entered, NoPath
  <1>5. CASE ~OnDrive(w) /\ IsCygwin(w) /\ host.root # NoPath
    <2> DEFINE u == host.root \o w
    <2>1. Joins(Tokens, host.root, w, u)
      BY <1>3, Concat
    <2>2. NativePath(w) = u
      BY <1>5 DEF NativePath
    <2> HIDE DEF u
    <2>3. Len(w) > 0 /\ Len(u) > 0
      BY <1>3, <1>5, <2>1, TextTyped DEF Joins, IsCygwin
    <2>4. Len(host.root) + 1 \in 1..Len(u) /\ u[Len(host.root) + 1] = "/"
      BY <1>3, <1>5, <2>1, <2>3 DEF Joins, IsCygwin
    <2>5. u # NoArg
      <3> SUFFICES ASSUME u = NoArg PROVE FALSE
        OBVIOUS
      <3>1. Len(host.root) + 1 \in {1, 2}
        BY <1>2, <1>3, <2>4
      <3> QED BY <1>2, <2>4, <3>1
    <2>6. u # Empty
      BY <2>3 DEF Empty
    <2>7. w # Empty
      BY <1>5 DEF Empty, IsCygwin
    <2> QED BY <1>1, <2>2, <2>5, <2>6, <2>7 DEF Entered, NoPath
  <1>6. CASE ~OnDrive(w) /\ ~(IsCygwin(w) /\ host.root # NoPath)
    <2>1. Entered(w) = w
      BY <1>6 DEF Entered, NativePath
    <2> QED BY <1>1, <2>1
  <1> QED BY <1>4, <1>5, <1>6

LEMMA ReachedIs ==
    ASSUME host \in Hosts, NEW o \in Opts
    PROVE  /\ Reached(o) \in Opts /\ Reached(o).flag = o.flag /\ (Alone(Reached(o)) <=> Alone(o))
           /\ (Reached(o).arg = Empty <=> o.arg = Empty) /\ (Reached(o).arg = NoArg <=> o.arg = NoArg)
           /\ \A last : Sound(o, last) => Sound(Reached(o), last)
           /\ o.flag \notin {"r", "s"} \/ o.arg = NoArg => Reached(o) = o
           /\ o.flag \in {"r", "s"} /\ o.arg # NoArg /\ host.windows => Reached(o).arg = Entered(o.arg)
  <1>1. o.flag \in Tokens /\ o.arg \in Texts
    BY DEF Opts
  <1>2. Entered(o.arg) \in Texts /\ (Entered(o.arg) = Empty <=> o.arg = Empty)
        /\ (o.arg # NoArg => Entered(o.arg) # NoArg)
    BY <1>1, EnteredIs
  <1>3. /\ Reached(o) \in Opts /\ Reached(o).flag = o.flag
        /\ (Reached(o).arg = Empty <=> o.arg = Empty) /\ (Reached(o).arg = NoArg <=> o.arg = NoArg)
    BY <1>1, <1>2 DEF Reached, Opts
  <1>4. Alone(Reached(o)) <=> Alone(o)
    BY <1>3 DEF Alone
  <1>5. \A last : Sound(o, last) => Sound(Reached(o), last)
    BY <1>3 DEF Sound
  <1>6. o.flag \notin {"r", "s"} \/ o.arg = NoArg => Reached(o) = o
    BY DEF Reached
  <1>7. o.flag \in {"r", "s"} /\ o.arg # NoArg /\ host.windows => Reached(o).arg = Entered(o.arg)
    BY DEF Reached
  <1> QED BY <1>3, <1>4, <1>5, <1>6, <1>7

\* The options of which the first k went through atfw_enter.
Mixed(os, k) == [i \in 1..Len(os) |-> IF i <= k THEN Reached(os[i]) ELSE os[i]]

Unmerged(mrg, n) == \A j \in 1..(n + 1) : ~mrg[j]

\* Options that are written each in words of its own.
Apart(line, os, n, upto) ==
    \A j \in 1..n :
        /\ (\A i \in 0..(j - 1) : upto[i] <= upto[j]) /\ upto[j] <= Len(line)
        /\ Wrote(line, upto[j - 1] + 1, 2, upto[j], os[j], 0)

LEMMA ApartIs ==
    ASSUME NEW line, NEW os, NEW n \in Nat, NEW upto, NEW mrg, Unmerged(mrg, n)
    PROVE  Spelled(line, os, n, upto, mrg) <=> Apart(line, os, n, upto)
  <1>1. \A j \in 1..n : ~mrg[j] /\ ~mrg[j + 1]
    BY DEF Unmerged
  <1>2. \A j \in 1..n : At(upto, mrg, j) = upto[j - 1] + 1 /\ Letter(mrg, j) = 2
                        /\ (IF j < n /\ mrg[j + 1] THEN 1 ELSE 0) = 0
    BY <1>1 DEF At, Letter
  <1> QED BY <1>1, <1>2 DEF Spelled, Apart

LEMMA WroteEnds ==
    ASSUME NEW line, NEW at, NEW p, NEW end, NEW o, NEW x, Wrote(line, at, p, end, o, x)
    PROVE  at \in 1..Len(line) /\ (end = at \/ end = at + 1)
  BY DEF Wrote

\* The words of one option changed.
Changed(line, new, os, ps, n, upto, k) ==
    /\ Len(new) = Len(line)
    /\ \A i \in 1..Len(line) : i <= upto[k - 1] \/ i > upto[k] => new[i] = line[i]
    /\ \A i \in 1..n : i # k => ps[i] = os[i]
    /\ Wrote(new, upto[k - 1] + 1, 2, upto[k], ps[k], 0)

LEMMA OneChanged ==
    ASSUME NEW line, NEW new, NEW os, NEW ps, NEW n \in Nat, NEW upto \in [0..n -> Nat],
           Len(line) \in Nat, Apart(line, os, n, upto), NEW k \in 1..n,
           Changed(line, new, os, ps, n, upto, k)
    PROVE  Apart(new, ps, n, upto)
  <1>0. /\ Len(new) = Len(line)
        /\ \A i \in 1..Len(line) : i <= upto[k - 1] \/ i > upto[k] => new[i] = line[i]
        /\ \A i \in 1..n : i # k => ps[i] = os[i]
        /\ Wrote(new, upto[k - 1] + 1, 2, upto[k], ps[k], 0)
    BY DEF Changed
  <1>1. ASSUME NEW j \in 1..n
        PROVE  /\ (\A i \in 0..(j - 1) : upto[i] <= upto[j]) /\ upto[j] <= Len(new)
               /\ Wrote(new, upto[j - 1] + 1, 2, upto[j], ps[j], 0)
    <2>1. /\ (\A i \in 0..(j - 1) : upto[i] <= upto[j]) /\ upto[j] <= Len(line)
          /\ Wrote(line, upto[j - 1] + 1, 2, upto[j], os[j], 0)
      BY DEF Apart
    <2>2. CASE j = k
      BY <1>0, <2>1, <2>2
    <2>3. CASE j # k
      <3> DEFINE at == upto[j - 1] + 1
                 end == upto[j]
      <3>1. at \in 1..Len(line) /\ end \in Nat /\ end <= Len(line) /\ (end > at => end \in 1..Len(line))
        BY <2>1 DEF Wrote
      <3>2. upto[k] \in Nat /\ upto[k - 1] \in Nat /\ upto[j - 1] \in Nat /\ at <= end
        <4>1. k \in 0..n /\ k - 1 \in 0..n /\ j - 1 \in 0..n
          OBVIOUS
        <4>2. end = at \/ end = at + 1
          BY <2>1, WroteEnds
        <4> QED BY <4>1, <4>2
      <3>3. CASE j < k
        <4>1. end <= upto[k - 1]
          <5>1. CASE j = k - 1
            BY <3>2, <5>1
          <5>2. CASE j < k - 1
            <6>1. k - 1 \in 1..n /\ j \in 0..((k - 1) - 1)
              BY <5>2
            <6> QED BY <6>1 DEF Apart
          <5> QED BY <3>3, <5>1, <5>2
        <4>2. new[at] = line[at] /\ (end > at => new[end] = line[end])
          <5>1. at \in 1..Len(line) /\ at <= upto[k - 1]
            BY <3>1, <3>2, <4>1
          <5>2. end > at => end \in 1..Len(line) /\ end <= upto[k - 1]
            BY <3>1, <3>2, <4>1
          <5> HIDE DEF at, end
          <5> QED BY <1>0, <5>1, <5>2
        <4>3. Wrote(line, at, 2, end, os[j], 0)
          BY <2>1
        <4> HIDE DEF at, end
        <4>4. Wrote(new, at, 2, end, os[j], 0)
          <5>1. Len(line) \in Nat /\ Len(new) \in Nat /\ Len(line) <= Len(new)
            BY <1>0
          <5> QED BY <4>2, <4>3, <5>1, WroteSame
        <4> QED BY <1>0, <2>1, <2>3, <4>4 DEF at, end
      <3>4. CASE j > k
        <4>1. upto[k] <= upto[j - 1]
          <5>1. CASE j - 1 = k
            BY <3>2, <5>1
          <5>2. CASE k < j - 1
            <6>1. j - 1 \in 1..n /\ k \in 0..((j - 1) - 1)
              BY <5>2
            <6> QED BY <6>1 DEF Apart
          <5> QED BY <3>4, <5>1, <5>2
        <4>2. new[at] = line[at] /\ (end > at => new[end] = line[end])
          <5>1. at \in 1..Len(line) /\ at > upto[k]
            BY <3>1, <3>2, <4>1
          <5>2. end > at => end \in 1..Len(line) /\ end > upto[k]
            BY <3>1, <3>2, <4>1
          <5> HIDE DEF at, end
          <5> QED BY <1>0, <5>1, <5>2
        <4>3. Wrote(line, at, 2, end, os[j], 0)
          BY <2>1
        <4> HIDE DEF at, end
        <4>4. Wrote(new, at, 2, end, os[j], 0)
          <5>1. Len(line) \in Nat /\ Len(new) \in Nat /\ Len(line) <= Len(new)
            BY <1>0
          <5> QED BY <4>2, <4>3, <5>1, WroteSame
        <4> QED BY <1>0, <2>1, <2>3, <4>4 DEF at, end
      <3> QED BY <2>3, <3>3, <3>4
    <2> QED BY <2>2, <2>3
  <1> QED BY <1>1 DEF Apart

\* atfw_enter at the word of an option.
LEMMA ScanOption ==
    ASSUME host \in Hosts, host.windows, NEW line \in Lines, NEW s \in Scans(line),
           NEW i, NEW end, NEW o \in Opts, Wrote(line, i, 2, end, o, 0), o.flag # "-", o.arg = NoArg => end = Len(line),
           ~s.stop, s.next <= i, \A x \in i..Len(line) : s.line[x] = line[x]
    PROVE  LET t == Scan(line, s, i)
           IN  /\ ~t.stop
               /\ \A x \in 1..Len(line) : x < i \/ x > end => t.line[x] = s.line[x]
               /\ Wrote(t.line, i, 2, end, Reached(o), 0)
               /\ t.next <= end + 1 \/ end = Len(line)
               /\ i < end => t.next = end + 1
  <1> DEFINE w == line[i]
             t == Scan(line, s, i)
             r == Reached(o)
             n == Len(line)
             l == s.line
  <1>1. /\ i \in 1..n /\ i \in Nat /\ n \in Nat /\ (end = i \/ end = i + 1) /\ end \in 1..n
        /\ w \in Texts /\ Len(w) \in Nat /\ l[i] = w /\ (end = i + 1 => l[end] = line[end] /\ line[end] \in Texts)
        /\ l \in Lines /\ Len(l) = n /\ DOMAIN l = 1..n /\ s.stop = FALSE /\ s.next \in Nat
        /\ s = [line |-> l, stop |-> s.stop, next |-> s.next]
    <2>1. i \in 1..n /\ (end = i \/ end = i + 1)
      BY WroteEnds
    <2>2. n \in Nat /\ \A x \in 1..n : line[x] \in Texts
      BY Typed DEF Lines
    <2>3. end \in 1..n
      <3>1. end = i + 1 => end <= n
        BY <2>1, <2>2 DEF Wrote
      <3> QED BY <2>1, <2>2, <3>1
    <2>4. l \in Lines /\ Len(l) = n /\ s.stop = FALSE /\ s.next \in Nat
          /\ s = [line |-> l, stop |-> s.stop, next |-> s.next]
      BY DEF Scans
    <2>5. DOMAIN l = 1..n
      BY <2>4, Typed DEF Lines
    <2>6. w \in Texts /\ Len(w) \in Nat /\ l[i] = w
      BY <2>1, <2>2, TextTyped
    <2>7. end = i + 1 => l[end] = line[end] /\ line[end] \in Texts
      BY <2>1, <2>2, <2>3
    <2> HIDE DEF w, n, l
    <2> QED BY <2>1, <2>2, <2>3, <2>4, <2>5, <2>6, <2>7
  <1>2. /\ r \in Opts /\ r.flag = o.flag /\ (Alone(r) <=> Alone(o))
        /\ (r.arg = Empty <=> o.arg = Empty)
        /\ o.flag \notin {"r", "s"} \/ o.arg = NoArg => r = o
        /\ o.flag \in {"r", "s"} /\ o.arg # NoArg => r.arg = Entered(o.arg)
    BY ReachedIs
  <1>3. /\ Len(w) >= 2 /\ w[1] = "-" /\ w[2] = o.flag /\ o.flag # "-"
        /\ \/ Alone(o) /\ end = i /\ Len(w) = 2
           \/ ~Alone(o) /\ end = i /\ o.arg # Empty /\ Len(w) > 2 /\ After(w, 2) = o.arg
           \/ ~Alone(o) /\ end = i + 1 /\ Len(w) = 2 /\ line[end] = o.arg
    <2> HIDE DEF Alone
    <2> QED BY <1>1 DEF Wrote
  <1> HIDE DEF w, t, r, n, l, Alone
  <1>4. /\ IsOption(w) /\ w # <<"-", "-">> /\ (IsPathOption(w) <=> o.flag \in {"r", "s"})
        /\ (SkipsNext(w) <=> o.flag = "v" /\ Len(w) = 2)
    <2>1. IsOption(w) /\ (IsPathOption(w) <=> o.flag \in {"r", "s"})
      BY <1>1, <1>3 DEF IsOption, IsPathOption
    <2>2. w # <<"-", "-">>
      BY <1>3
    <2>3. Len(w) = 2 /\ o.flag = "v" => w = <<"-", "v">>
      <3> SUFFICES ASSUME Len(w) = 2, o.flag = "v" PROVE w = <<"-", "v">>
        OBVIOUS
      <3> DEFINE u == <<"-", "v">>
      <3>1. o.flag \in Tokens /\ "-" \in Tokens
        BY OptionTokens DEF Opts
      <3>2. u \in Seq(Tokens) /\ Len(u) = 2 /\ u[1] = "-" /\ u[2] = "v"
        BY <3>1
      <3> HIDE DEF u
      <3>3. w \in Seq(Tokens) /\ \A x \in 1..2 : x = 1 \/ x = 2
        BY <1>1, TextTyped
      <3>4. Len(w) = Len(u) /\ \A x \in 1..Len(w) : w[x] = u[x]
        BY <1>3, <3>2, <3>3
      <3>5. w = u
        BY <3>2, <3>3, <3>4, Same
      <3> QED BY <3>5 DEF u
    <2>4. w = <<"-", "v">> => Len(w) = 2 /\ o.flag = "v"
      BY <1>3
    <2> QED BY <2>1, <2>2, <2>3, <2>4 DEF SkipsNext
  <1>5. /\ o.flag \in {"r", "s"} /\ Len(w) > 2 =>
              t = [s EXCEPT !.line[i] = SubSeq(w, 1, 2) \o Entered(After(w, 2))]
        /\ o.flag \in {"r", "s"} /\ ~(Len(w) > 2) /\ i < n =>
              t = [s EXCEPT !.line[i + 1] = Entered(line[i + 1]), !.next = i + 2]
        /\ o.flag \in {"r", "s"} /\ ~(Len(w) > 2) /\ ~(i < n) => t = s
        /\ o.flag \notin {"r", "s"} /\ o.flag = "v" /\ Len(w) = 2 => t = [s EXCEPT !.next = i + 2]
        /\ o.flag \notin {"r", "s"} /\ ~(o.flag = "v" /\ Len(w) = 2) => t = s
    <2>1. ~(s.stop \/ i < s.next)
      BY <1>1
    <2>2. t = IF IsPathOption(w) /\ Len(w) > 2
              THEN [s EXCEPT !.line[i] = SubSeq(w, 1, 2) \o Entered(After(w, 2))]
              ELSE IF IsPathOption(w) /\ i < n
              THEN [s EXCEPT !.line[i + 1] = Entered(line[i + 1]), !.next = i + 2]
              ELSE IF SkipsNext(w) THEN [s EXCEPT !.next = i + 2]
              ELSE s
      BY <1>4, <2>1 DEF Scan, t, w, n
    <2>3. CASE IsPathOption(w)
      <3>1. ~SkipsNext(w)
        BY <1>4, <2>3
      <3> QED BY <1>4, <2>2, <2>3, <3>1
    <2>4. CASE ~IsPathOption(w)
      BY <1>4, <2>2, <2>4
    <2> QED BY <2>3, <2>4
  <1>6. ASSUME o.flag \in {"r", "s"}, ~Alone(o), end = i, Len(w) > 2
        PROVE  /\ ~t.stop /\ t.next = s.next
               /\ \A x \in 1..n : x < i \/ x > end => t.line[x] = l[x]
               /\ Wrote(t.line, i, 2, end, r, 0)
    <2> DEFINE a == Entered(o.arg)
               h == SubSeq(w, 1, 2)
               u == h \o a
    <2>1. o.arg # Empty /\ After(w, 2) = o.arg /\ o.arg # NoArg /\ o.arg \in Texts
      BY <1>1, <1>3, <1>6 DEF Alone, Opts
    <2>2. a \in Texts /\ a # Empty /\ r.arg = a
      BY <1>2, <1>6, <2>1, EnteredIs
    <2> HIDE DEF a
    <2>3. h \in Seq(Tokens) /\ Len(h) = 2 /\ h[1] = "-" /\ h[2] = o.flag
      <3>1. w \in Seq(Tokens) /\ 0 \in 0..Len(w) /\ 2 \in 0..Len(w) /\ 0 + 1 = 1 /\ 2 - 0 = 2
        BY <1>1, <1>3, TextTyped
      <3>2. 1 \in 1..2 /\ 2 \in 1..2 /\ 0 + 2 = 2
        OBVIOUS
      <3>3. h \in Seq(Tokens) /\ Len(h) = 2 /\ \A x \in 1..2 : h[x] = w[0 + x]
        BY <3>1, Cut
      <3> QED BY <1>3, <3>1, <3>2, <3>3
    <2> HIDE DEF h
    <2>4. Joins(Tokens, h, a, u)
      BY <2>2, <2>3, TextTyped, Concat
    <2> HIDE DEF u
    <2>5. Len(a) \in Nat /\ Len(a) > 0 /\ a \in Seq(Tokens)
      BY <2>2, TextTyped
    <2>6. u \in Seq(Tokens) /\ Len(u) = 2 + Len(a) /\ u[1] = "-" /\ u[2] = o.flag
          /\ \A x \in 1..Len(a) : u[2 + x] = a[x]
      BY <2>3, <2>4 DEF Joins
    <2>7. After(u, 2) = a
      <3> DEFINE v == After(u, 2)
      <3>1. 2 \in 0..Len(u) /\ Len(u) - 2 = Len(a)
        BY <2>5, <2>6
      <3>2. v \in Seq(Tokens) /\ Len(v) = Len(u) - 2 /\ \A x \in 1..(Len(u) - 2) : v[x] = u[2 + x]
        <4>1. u \in Seq(Tokens)
          BY <2>6
        <4> QED BY <3>1, <4>1, AfterIs
      <3> HIDE DEF v
      <3>3. Len(v) = Len(a) /\ \A x \in 1..Len(v) : v[x] = a[x]
        BY <2>6, <3>1, <3>2
      <3>4. v = a
        BY <2>5, <3>2, <3>3, Same
      <3> QED BY <3>4 DEF v
    <2>8. t = [line |-> [l EXCEPT ![i] = u], stop |-> FALSE, next |-> s.next]
      <3>1. t = [s EXCEPT !.line[i] = u]
        BY <1>5, <1>6, <2>1 DEF u, h, a
      <3>2. [s EXCEPT !.line[i] = u] = [s EXCEPT !.line = [l EXCEPT ![i] = u]]
        BY <1>1 DEF l
      <3>3. [s EXCEPT !.line = [l EXCEPT ![i] = u]]
                = [line |-> [l EXCEPT ![i] = u], stop |-> s.stop, next |-> s.next]
        <4> DEFINE k == [l EXCEPT ![i] = u]
        <4> HIDE DEF k
        <4>1. [s EXCEPT !.line = k] = [line |-> k, stop |-> s.stop, next |-> s.next]
          BY <1>1
        <4> QED BY <4>1 DEF k
      <3> QED BY <1>1, <3>1, <3>2, <3>3
    <2> DEFINE k == [l EXCEPT ![i] = u]
    <2>9. /\ t.line = k /\ ~t.stop /\ t.next = s.next /\ k[i] = u
          /\ \A x \in 1..n : x # i => k[x] = l[x]
      BY <1>1, <2>8
    <2>10. Len(k) = n
      BY <1>1, <2>6, LineReplaced DEF Texts
    <2> HIDE DEF k
    <2>11. Wrote(k, i, 2, end, r, 0)
      <3>1. i \in 1..Len(k) /\ Len(u) >= 2 /\ Len(u) > 2 /\ ~Alone(r) /\ r.arg # Empty
        BY <1>1, <1>2, <1>6, <2>1, <2>5, <2>6, <2>10
      <3> QED BY <1>2, <1>6, <2>2, <2>6, <2>7, <2>9, <3>1 DEF Wrote
    <2>12. \A x \in 1..n : x < i \/ x > end => x # i
      BY <1>1, <1>6
    <2> QED BY <2>9, <2>11, <2>12
  <1>7. ASSUME o.flag \in {"r", "s"}, ~Alone(o), end = i + 1
        PROVE  /\ ~t.stop /\ t.next = i + 2
               /\ \A x \in 1..n : x < i \/ x > end => t.line[x] = l[x]
               /\ Wrote(t.line, i, 2, end, r, 0)
    <2> DEFINE a == Entered(o.arg)
               k == [l EXCEPT ![end] = a]
    <2>1. Len(w) = 2 /\ line[end] = o.arg /\ o.arg # NoArg /\ o.arg \in Texts
      BY <1>1, <1>3, <1>7 DEF Alone, Opts
    <2>2. a \in Texts /\ r.arg = a
      BY <1>2, <1>7, <2>1, EnteredIs
    <2>3. t = [s EXCEPT !.line[end] = a, !.next = i + 2]
      <3>1. ~(Len(w) > 2) /\ i < n
        BY <1>1, <1>7, <2>1
      <3> QED BY <1>5, <1>7, <2>1, <3>1
    <2> HIDE DEF a
    <2>4. [s EXCEPT !.line[end] = a, !.next = i + 2] = [s EXCEPT !.line = k, !.next = i + 2]
      BY <1>1 DEF l
    <2>5. /\ k[end] = a /\ (\A x \in 1..n : x # end => k[x] = l[x]) /\ Len(k) = n
      BY <1>1, <2>2, LineReplaced
    <2> HIDE DEF k
    <2>6. LET q == [s EXCEPT !.line = k, !.next = i + 2]
          IN  q.line = k /\ q.stop = s.stop /\ q.next = i + 2
      BY DEF Scans
    <2>7. t.line = k /\ ~t.stop /\ t.next = i + 2
      BY <1>1, <2>3, <2>4, <2>6
    <2>8. k[i] = w
      BY <1>1, <1>7, <2>5
    <2>9. Wrote(k, i, 2, end, r, 0)
      <3>1. i \in 1..Len(k) /\ end <= Len(k) /\ ~Alone(r)
        BY <1>1, <1>2, <1>7, <2>5
      <3> QED BY <1>2, <1>3, <1>7, <2>1, <2>2, <2>5, <2>8, <3>1 DEF Wrote
    <2>10. \A x \in 1..n : x < i \/ x > end => x # end
      BY <1>1, <1>7
    <2> QED BY <2>5, <2>7, <2>9, <2>10
  <1>8. ASSUME r = o, t = s \/ t = [s EXCEPT !.next = i + 2]
        PROVE  /\ ~t.stop /\ (t = s => t.next = s.next) /\ (t # s => t.next = i + 2)
               /\ \A x \in 1..n : x < i \/ x > end => t.line[x] = l[x]
               /\ Wrote(t.line, i, 2, end, r, 0)
    <2>1. t.line = l /\ t.stop = s.stop /\ (t # s => t.next = i + 2)
      BY <1>1, <1>8
    <2>2. Wrote(l, i, 2, end, o, 0)
      BY <1>1, WroteSame DEF w, n
    <2> QED BY <1>1, <1>8, <2>1, <2>2
  <1>9. /\ ~t.stop
        /\ \A x \in 1..n : x < i \/ x > end => t.line[x] = l[x]
        /\ Wrote(t.line, i, 2, end, r, 0)
        /\ t.next <= end + 1 \/ end = n
        /\ i < end => t.next = end + 1
    <2>1. CASE Alone(o)
      <3>1. end = i /\ Len(w) = 2
        BY <1>3, <2>1
      <3>2. o.flag \in {"r", "s", "v"} => o.arg = NoArg /\ end = n
        BY <2>1 DEF Alone, WantArg, n
      <3>3. r = o
        BY <1>2, <3>2
      <3>4. CASE o.flag \in {"r", "s", "v"}
        <4>1. t = s \/ t = [s EXCEPT !.next = i + 2]
          BY <1>1, <1>5, <3>1, <3>2, <3>4
        <4> QED BY <1>1, <1>8, <3>1, <3>2, <3>3, <3>4, <4>1
      <3>5. CASE o.flag \notin {"r", "s", "v"}
        <4>1. t = s
          BY <1>5, <3>5
        <4>2. s.next <= end + 1
          BY <1>1, <3>1
        <4> QED BY <1>1, <1>8, <3>1, <3>3, <4>1, <4>2
      <3> QED BY <3>4, <3>5
    <2>2. CASE ~Alone(o) /\ o.flag \in {"r", "s"}
      <3>1. CASE end = i
        <4>1. Len(w) > 2
          BY <1>1, <1>3, <2>2, <3>1
        <4>2. s.next <= end + 1
          BY <1>1, <3>1
        <4> QED BY <1>1, <1>6, <2>2, <3>1, <4>1, <4>2
      <3>2. CASE end = i + 1
        <4>1. end + 1 = i + 2 /\ t.next <= end + 1
          BY <1>1, <1>7, <2>2, <3>2
        <4> QED BY <1>1, <1>7, <2>2, <3>2, <4>1
      <3> QED BY <1>1, <3>1, <3>2
    <2>3. CASE ~Alone(o) /\ o.flag \notin {"r", "s"}
      <3>1. o.flag = "v" /\ r = o
        BY <1>2, <2>3 DEF Alone, WantArg
      <3>2. CASE end = i
        <4>1. Len(w) # 2
          <5>1. Len(w) > 2
            BY <1>1, <1>3, <2>3, <3>2
          <5>2. \A x \in Nat : x > 2 => x # 2
            OBVIOUS
          <5> QED BY <1>1, <5>1, <5>2
        <4>2. t = s
          <5>1. ~(o.flag = "v" /\ Len(w) = 2)
            BY <4>1
          <5> QED BY <1>5, <2>3, <5>1
        <4>3. s.next <= end + 1
          BY <1>1, <3>2
        <4> QED BY <1>1, <1>8, <3>1, <3>2, <4>2, <4>3
      <3>3. CASE end = i + 1
        <4>1. Len(w) = 2
          BY <1>1, <1>3, <2>3, <3>3
        <4>2. t = [s EXCEPT !.next = i + 2]
          BY <1>5, <2>3, <3>1, <4>1
        <4>3. t.next = i + 2
          BY <1>1, <4>2
        <4>4. end + 1 = i + 2 /\ t.next <= end + 1
          BY <1>1, <3>3, <4>3
        <4> QED BY <1>1, <1>8, <3>1, <3>3, <4>2, <4>3, <4>4
      <3> QED BY <1>1, <3>2, <3>3
    <2> QED BY <2>1, <2>2, <2>3
  <1> QED BY <1>9 DEF t, r, n, l

\* After i words of the line, j options went through.
Scanned(line, s, i, os, upto, j) ==
    /\ Apart(s.line, Mixed(os, j), Len(os), upto)
    /\ \A x \in 1..Len(line) : x > upto[j] => s.line[x] = line[x]
    /\ s.stop => j = Len(os)
    /\ ~s.stop => /\ i <= upto[j]
                  /\ s.next <= upto[j] + 1 \/ upto[j] = Len(line)
                  /\ i < upto[j] => s.next = upto[j] + 1

LEMMA MixedIs ==
    ASSUME host \in Hosts, NEW os \in Seq(Opts), NEW k \in 0..Len(os)
    PROVE  /\ Mixed(os, k) \in Seq(Opts) /\ Len(Mixed(os, k)) = Len(os)
           /\ \A i \in 1..Len(os) : Mixed(os, k)[i] = IF i <= k THEN Reached(os[i]) ELSE os[i]
  <1> DEFINE n == Len(os)
             m == Mixed(os, k)
  <1>1. n \in Nat /\ \A i \in 1..n : os[i] \in Opts /\ Reached(os[i]) \in Opts
    BY Typed, ReachedIs
  <1>2. m = [i \in 1..n |-> IF i <= k THEN Reached(os[i]) ELSE os[i]]
    BY DEF Mixed
  <1>3. \A i \in 1..n : (IF i <= k THEN Reached(os[i]) ELSE os[i]) \in Opts
    BY <1>1
  <1>4. \A i \in 1..n : m[i] = IF i <= k THEN Reached(os[i]) ELSE os[i]
    BY <1>2
  <1>5. m \in [1..n -> Opts]
    BY <1>2, <1>3
  <1> HIDE DEF n, m
  <1>6. m \in Seq(Opts) /\ Len(m) = n
    BY <1>1, <1>5
  <1> QED BY <1>4, <1>6 DEF n, m

LEMMA EnteredSpelling ==
    ASSUME host \in Hosts, host.windows, NEW line \in Lines, NEW os \in Seq(Opts),
           NEW names \in Lines, NEW upto, NEW mrg,
           Spelling(line, os, names, upto, mrg), Unmerged(mrg, Len(os))
    PROVE  Spelling(EnteredLine(line), Mixed(os, Len(os)), names, upto, mrg)
  <1> DEFINE n == Len(os)
             N == Len(line)
             is == [i \in DOMAIN line |-> i]
             new == EnteredLine(line)
  <1>1. /\ n \in Nat /\ (\A j \in 1..n : os[j] \in Opts) /\ N \in Nat /\ Len(names) \in Nat
        /\ DOMAIN line = 1..N /\ n \in 0..n /\ N \in 0..N
    BY Typed DEF Lines
  <1>2. /\ is \in Seq(1..N) /\ Len(is) = N /\ \A i \in 1..N : is[i] = i
    <2>1. is = [i \in 1..N |-> i]
      BY <1>1
    <2> HIDE DEF is, N
    <2> QED BY <1>1, <2>1
  <1>3. /\ upto \in [0..n -> Nat] /\ upto[0] = 0 /\ Apart(line, os, n, upto) /\ upto[n] <= N
        /\ \A j \in 1..n : Sound(os[j], j = n /\ upto[n] = N)
        /\ Ends(line, upto[n], names)
    BY <1>1, ApartIs DEF Spelling
  <1>4. new = Scanning(line, is).line /\ new \in Lines /\ Len(new) = N
    BY EnteredLineTyped DEF EnteredLine, Scanning
  <1> HIDE DEF is, new, n, N
  <1>5. PICK c \in Looking(line, is) : Scanning(line, is) = c[N]
    BY <1>2, ScanChain DEF N
  <1>6. /\ c \in [0..N -> Scans(line)] /\ c[0] = [line |-> line, stop |-> FALSE, next |-> 1]
        /\ \A i \in 1..N : c[i] = Scan(line, c[i - 1], i)
    BY <1>2, <1>5 DEF Looking
  <1> DEFINE T == {i \in 0..N : \E j \in 0..n : Scanned(line, c[i], i, os, upto, j)}
  <1>7. 0 \in T
    <2>1. Apart(line, Mixed(os, 0), n, upto)
      <3>1. 0 \in 0..Len(os)
        BY <1>1 DEF n
      <3>2. \A j \in 1..n : Mixed(os, 0)[j] = os[j]
        <4>1. \A j \in 1..n : ~(j <= 0)
          BY <1>1
        <4> QED BY <3>1, <4>1, MixedIs DEF n
      <3> QED BY <1>3, <3>2 DEF Apart
    <2>2. Scanned(line, c[0], 0, os, upto, 0)
      BY <1>3, <1>6, <2>1 DEF Scanned, n
    <2> QED BY <1>1, <2>2
  <1>8. ASSUME NEW i \in 0..N, i \in T, i < N PROVE i + 1 \in T
    <2> DEFINE s == c[i]
               t == c[i + 1]
    <2>1. PICK j \in 0..n : Scanned(line, s, i, os, upto, j)
      BY <1>8
    <2>2. /\ i + 1 \in 1..N /\ i \in Nat /\ s \in Scans(line) /\ t = Scan(line, s, i + 1) /\ i + 1 \in 0..N
          /\ s.stop \in BOOLEAN /\ s.next \in Nat /\ upto[j] \in Nat /\ Len(s.line) = N
      <3>1. i + 1 \in 1..N /\ i \in Nat /\ s \in Scans(line) /\ i + 1 \in 0..N /\ (i + 1) - 1 = i
        BY <1>1, <1>6, <1>8
      <3> QED BY <1>3, <1>6, <3>1 DEF Scans, N
    <2> HIDE DEF s, t, T
    <2>3. /\ Apart(s.line, Mixed(os, j), n, upto)
          /\ \A x \in 1..N : x > upto[j] => s.line[x] = line[x]
          /\ s.stop => j = n
          /\ ~s.stop => /\ i <= upto[j]
                        /\ s.next <= upto[j] + 1 \/ upto[j] = N
                        /\ i < upto[j] => s.next = upto[j] + 1
      BY <2>1 DEF Scanned, n, N
    <2>4. SUFFICES \E k \in 0..n : Scanned(line, t, i + 1, os, upto, k)
      BY <2>2 DEF T, t
    <2>5. CASE s.stop \/ i + 1 < s.next
      <3>1. t = s
        BY <2>2, <2>5 DEF Scan
      <3>2. ~s.stop => i + 1 <= upto[j] /\ (i + 1 < upto[j] => s.next = upto[j] + 1)
        <4> SUFFICES ASSUME ~s.stop PROVE i + 1 <= upto[j] /\ (i + 1 < upto[j] => s.next = upto[j] + 1)
          OBVIOUS
        <4>1. i < upto[j] \/ i = upto[j]
          BY <2>2, <2>3
        <4>2. CASE i < upto[j]
          BY <2>2, <2>3, <4>2
        <4>3. CASE i = upto[j]
          <5>1. s.next <= upto[j] + 1 \/ upto[j] = N
            BY <2>3
          <5> QED BY <1>1, <1>8, <2>2, <2>5, <4>3, <5>1
        <4> QED BY <4>1, <4>2, <4>3
      <3>3. Scanned(line, s, i + 1, os, upto, j)
        BY <2>3, <3>2 DEF Scanned, n, N
      <3> QED BY <3>1, <3>3
    <2>6. CASE ~(s.stop \/ i + 1 < s.next)
      <3>1. i = upto[j] /\ ~s.stop /\ s.next <= i + 1
        <4>1. i <= upto[j] /\ (i < upto[j] => s.next = upto[j] + 1)
          BY <2>3, <2>6
        <4>2. ~(i < upto[j])
          BY <2>2, <2>6, <4>1
        <4> QED BY <2>2, <2>6, <4>1, <4>2
      <3>2. CASE j = n
        <4>1. ~IsOption(line[i + 1]) \/ line[i + 1] = <<"-", "-">>
          <5>1. PICK e \in {0, 1} :
                    /\ N = upto[n] + e + Len(names)
                    /\ e = 1 => line[upto[n] + 1] = <<"-", "-">>
                    /\ e = 0 /\ names # Empty => ~IsOption(names[1])
                    /\ \A k \in 1..Len(names) : line[upto[n] + e + k] = names[k]
            BY <1>3 DEF Ends, N
          <5>2. CASE e = 1
            BY <3>1, <3>2, <5>1, <5>2
          <5>3. CASE e = 0
            <6>1. names # Empty /\ 1 \in 1..Len(names)
              <7>1. Len(names) > 0
                BY <1>1, <1>8, <2>2, <3>1, <3>2, <5>1, <5>3
              <7> QED BY <1>1, <7>1 DEF Empty
            <6>2. line[i + 1] = names[1]
              BY <2>2, <3>1, <3>2, <5>1, <5>3, <6>1
            <6> QED BY <5>1, <5>3, <6>1, <6>2
          <5> QED BY <5>2, <5>3
        <4>2. t = [s EXCEPT !.stop = TRUE]
          BY <2>2, <2>6, <4>1 DEF Scan
        <4>3. t.stop /\ t.line = s.line
          BY <2>2, <4>2 DEF Scans
        <4>4. Scanned(line, t, i + 1, os, upto, j)
          BY <2>3, <3>2, <4>3 DEF Scanned, n, N
        <4> QED BY <4>4
      <3>3. CASE j # n
        <4> DEFINE k == j + 1
                   o == os[k]
                   end == upto[k]
        <4>1. k \in 1..n /\ k \in 0..n /\ k - 1 = j /\ o \in Opts /\ end \in Nat
          <5>1. k \in 1..n /\ k \in 0..n /\ k - 1 = j
            BY <1>1, <3>3
          <5> QED BY <1>1, <1>3, <5>1
        <4>2. Wrote(line, i + 1, 2, end, o, 0) /\ end <= N /\ o.flag # "-" /\ (o.arg = NoArg => end = N)
          <5>1. Wrote(line, upto[k - 1] + 1, 2, upto[k], os[k], 0) /\ upto[k] <= Len(line)
            BY <1>3, <4>1 DEF Apart
          <5>2. Sound(os[k], k = n /\ upto[n] = N)
            BY <1>3, <4>1
          <5> QED BY <3>1, <4>1, <5>1, <5>2 DEF Sound, N
        <4> HIDE DEF k, o, end
        <4>3. \A x \in (i + 1)..N : s.line[x] = line[x]
          <5>1. \A x \in (i + 1)..N : x \in 1..N /\ x > upto[j]
            BY <2>2, <3>1
          <5> QED BY <2>3, <5>1
        <4>4. /\ ~t.stop
              /\ \A x \in 1..N : x < i + 1 \/ x > end => t.line[x] = s.line[x]
              /\ Wrote(t.line, i + 1, 2, end, Reached(o), 0)
              /\ t.next <= end + 1 \/ end = N
              /\ i + 1 < end => t.next = end + 1
          <5>1. s \in Scans(line) /\ t = Scan(line, s, i + 1) /\ o \in Opts /\ ~s.stop /\ s.next <= i + 1
            BY <2>2, <3>1, <4>1
          <5>2. /\ Wrote(line, i + 1, 2, end, o, 0) /\ o.flag # "-" /\ (o.arg = NoArg => end = Len(line))
                /\ \A x \in (i + 1)..Len(line) : s.line[x] = line[x]
            BY <4>2, <4>3 DEF N
          <5> QED BY <5>1, <5>2, ScanOption DEF N
        <4>5. Apart(t.line, Mixed(os, k), n, upto)
          <5>1. t \in Scans(line)
            BY <2>2, ScanTyped DEF N
          <5>2. Len(t.line) = N
            BY <5>1 DEF Scans, N
          <5>3. \A x \in 1..N : x <= upto[k - 1] \/ x > upto[k] => t.line[x] = s.line[x]
            <6>1. \A x \in 1..N : x <= i => x < i + 1
              BY <2>2
            <6> QED BY <3>1, <4>1, <4>4, <6>1 DEF end
          <5>4. (\A x \in 1..n : x # k => Mixed(os, k)[x] = Mixed(os, j)[x]) /\ Mixed(os, k)[k] = Reached(o)
            <6>1. j \in 0..Len(os) /\ k \in 0..Len(os) /\ k \in 1..Len(os)
              BY <4>1 DEF n
            <6>2. \A x \in 1..n : x # k => (x <= k <=> x <= j)
              BY <1>1, <4>1
            <6>3. k <= k
              BY <4>1
            <6> QED BY <6>1, <6>2, <6>3, MixedIs, SMTT(30) DEF n, o
          <5>5. Wrote(t.line, upto[k - 1] + 1, 2, upto[k], Mixed(os, k)[k], 0)
            BY <3>1, <4>1, <4>4, <5>4 DEF end
          <5> DEFINE l == s.line
                     l2 == t.line
                     ps == Mixed(os, j)
                     qs == Mixed(os, k)
          <5> HIDE DEF l, l2, ps, qs
          <5>6. Len(l) = N /\ N \in Nat /\ Len(l2) = Len(l) /\ Apart(l, ps, n, upto) /\ k \in 1..n
                /\ n \in Nat /\ upto \in [0..n -> Nat] /\ Len(l) \in Nat
            BY <1>1, <1>3, <2>2, <2>3, <4>1, <5>2 DEF l, l2, ps
          <5>7. \A x \in 1..Len(l) : x <= upto[k - 1] \/ x > upto[k] => l2[x] = l[x]
            BY <5>3, <5>6 DEF l, l2
          <5>8. (\A x \in 1..n : x # k => qs[x] = ps[x]) /\ Wrote(l2, upto[k - 1] + 1, 2, upto[k], qs[k], 0)
            BY <5>4, <5>5 DEF ps, qs, l2
          <5>9. Apart(l2, qs, n, upto)
            <6>1. Changed(l, l2, ps, qs, n, upto, k)
              BY <5>6, <5>7, <5>8 DEF Changed
            <6> QED BY <5>6, <6>1, OneChanged
          <5> QED BY <5>9 DEF l2, qs
        <4>6. \A x \in 1..N : x > end => t.line[x] = line[x]
          <5>1. upto[j] <= end
            <6>1. j \in 0..(k - 1)
              BY <1>1, <4>1
            <6> QED BY <1>3, <4>1, <6>1 DEF Apart, end
          <5>2. \A x \in 1..N : x > end => x > upto[j]
            BY <2>2, <4>1, <5>1
          <5> QED BY <2>3, <4>4, <5>2
        <4>7. i + 1 <= end
          <5>1. end = i + 1 \/ end = (i + 1) + 1
            BY <4>2, WroteEnds
          <5> QED BY <2>2, <5>1
        <4>8. Scanned(line, t, i + 1, os, upto, k)
          BY <4>4, <4>5, <4>6, <4>7 DEF Scanned, n, N, end
        <4> QED BY <4>1, <4>8
      <3> QED BY <3>2, <3>3
    <2> QED BY <2>5, <2>6
  <1> HIDE DEF T
  <1>9. N \in T
    BY <1>1, <1>7, <1>8, StepsUpTo
  <1>10. PICK j \in 0..n : Scanned(line, c[N], N, os, upto, j)
    BY <1>9 DEF T
  <1>11. new = c[N].line
    BY <1>4, <1>5
  <1>12. j = n
    <2>1. CASE c[N].stop
      BY <1>10, <2>1 DEF Scanned, n
    <2>2. CASE ~c[N].stop
      <3>1. N <= upto[j]
        BY <1>10, <2>2 DEF Scanned
      <3>2. ASSUME j # n PROVE FALSE
        <4>1. j + 1 \in 1..n /\ (j + 1) - 1 = j /\ j + 1 \in 0..n
          BY <1>1, <3>2
        <4>2. Wrote(line, upto[j] + 1, 2, upto[j + 1], os[j + 1], 0)
          BY <1>3, <4>1 DEF Apart
        <4>3. upto[j] + 1 \in 1..N
          BY <4>2, WroteEnds DEF N
        <4>4. upto[j] \in Nat
          BY <1>3
        <4> QED BY <1>1, <3>1, <4>3, <4>4
      <3> QED BY <3>2
    <2> QED BY <2>1, <2>2
  <1>13. Apart(new, Mixed(os, n), n, upto) /\ \A x \in 1..N : x > upto[n] => new[x] = line[x]
    BY <1>10, <1>11, <1>12 DEF Scanned, n, N
  <1>14. Spelled(new, Mixed(os, n), n, upto, mrg)
    BY <1>1, <1>13, ApartIs DEF n
  <1>15. Ends(new, upto[n], names)
    <2>1. PICK e \in {0, 1} :
              /\ N = upto[n] + e + Len(names)
              /\ e = 1 => line[upto[n] + 1] = <<"-", "-">>
              /\ e = 0 /\ names # Empty => ~IsOption(names[1])
              /\ \A k \in 1..Len(names) : line[upto[n] + e + k] = names[k]
      BY <1>3 DEF Ends, N
    <2>2. upto[n] \in Nat
      BY <1>1, <1>3
    <2>3. e = 1 => upto[n] + 1 \in 1..N /\ upto[n] + 1 > upto[n]
      BY <1>1, <2>1, <2>2
    <2>4. \A k \in 1..Len(names) : upto[n] + e + k \in 1..N /\ upto[n] + e + k > upto[n]
      BY <1>1, <2>1, <2>2, SMTT(30)
    <2>5. e = 1 => new[upto[n] + 1] = <<"-", "-">>
      BY <1>13, <2>1, <2>3
    <2>6. \A k \in 1..Len(names) : new[upto[n] + e + k] = names[k]
      BY <1>13, <2>1, <2>4
    <2> QED BY <1>4, <2>1, <2>5, <2>6 DEF Ends
  <1>16. Len(Mixed(os, n)) = n /\ \A j0 \in 1..n : Sound(Mixed(os, n)[j0], j0 = n /\ upto[n] = N)
    <2>1. n \in 0..Len(os)
      BY <1>1 DEF n
    <2>2. Len(Mixed(os, n)) = n /\ \A j0 \in 1..n : Mixed(os, n)[j0] = Reached(os[j0])
      <3>1. \A j0 \in 1..n : j0 <= n
        BY <1>1
      <3> QED BY <2>1, <3>1, MixedIs DEF n
    <2>3. \A j0 \in 1..n : Sound(Reached(os[j0]), j0 = n /\ upto[n] = N)
      BY <1>1, <1>3, ReachedIs
    <2> QED BY <2>2, <2>3
  <1> QED BY <1>3, <1>4, <1>14, <1>15, <1>16 DEF Spelling, n, new

-----------------------------------------------------------------------------
(* The last name of a path *)

\* Names put together with one more.
LEMMA JoinedAppend ==
    ASSUME NEW ns \in Seq(PathNames), ns # <<>>, NEW x \in PathNames
    PROVE  Joined(Append(ns, x)) = (Joined(ns) \o <<"/">>) \o x
  <1> DEFINE n == Len(ns)
             ms == Append(ns, x)
  <1>1. n \in Nat /\ n > 0 /\ ms \in Seq(PathNames) /\ Len(ms) = n + 1
        /\ (\A i \in 1..n : ms[i] = ns[i]) /\ ms[n + 1] = x
    BY Appended
  <1> HIDE DEF n, ms
  <1>2. PICK c \in Joining(ns) : Joined(ns) = c[n]
    BY JoinChain DEF n
  <1>3. PICK d \in Joining(ms) : Joined(ms) = d[n + 1]
    BY <1>1, JoinChain
  <1>4. c[0] = Empty /\ \A i \in 1..n : c[i] = Join(c[i - 1], ns[i])
    BY <1>2 DEF Joining, n
  <1>5. d[0] = Empty /\ \A i \in 1..(n + 1) : d[i] = Join(d[i - 1], ms[i])
    BY <1>1, <1>3 DEF Joining
  <1> DEFINE same == {i \in 0..n : c[i] = d[i]}
  <1>6. ASSUME NEW i \in same, i < n PROVE i + 1 \in same
    <2>1. i + 1 \in 1..n /\ i + 1 \in 1..(n + 1) /\ (i + 1) - 1 = i /\ i + 1 \in 0..n
      BY <1>1, <1>6
    <2>2. c[i + 1] = Join(c[i], ns[i + 1]) /\ d[i + 1] = Join(d[i], ms[i + 1])
      BY <1>4, <1>5, <2>1
    <2>3. ms[i + 1] = ns[i + 1]
      BY <1>1, <2>1
    <2> QED BY <1>6, <2>1, <2>2, <2>3
  <1>7. \A i \in 0..n : i \in same
    <2>1. 0 \in same
      BY <1>1, <1>4, <1>5
    <2> HIDE DEF same
    <2> QED BY <1>1, <1>6, <2>1, StepsUpTo
  <1>8. c[n] = d[n]
    <2>1. n \in 0..n
      BY <1>1
    <2> QED BY <1>7, <2>1
  <1>9. d[n + 1] = Join(d[n], x)
    <2>1. n + 1 \in 1..(n + 1) /\ (n + 1) - 1 = n
      BY <1>1
    <2> QED BY <1>1, <1>5, <2>1
  <1>10. Joined(ns) # Empty
    <2>1. Joined(ns) \in Texts /\ Split(Joined(ns), "/") = ns
      BY JoinedSplit
    <2>2. Split(Empty, "/") = <<>>
      BY SplitEmpty
    <2> QED BY <2>1, <2>2
  <1> QED BY <1>2, <1>3, <1>8, <1>9, <1>10 DEF Join, ms

End(w) == w[Len(w)]

LEMMA EndOfConcat ==
    ASSUME NEW u \in Texts, NEW v \in Texts, v # Empty
    PROVE  u \o v \in Texts /\ u \o v # Empty /\ End(u \o v) = End(v)
  <1> DEFINE w == u \o v
  <1>1. Len(u) \in Nat /\ Len(v) \in Nat /\ Len(v) > 0 /\ Joins(Tokens, u, v, w)
    BY TextTyped, Concat DEF Texts
  <1> HIDE DEF w
  <1>2. w \in Texts /\ Len(w) = Len(u) + Len(v) /\ \A i \in 1..Len(v) : w[Len(u) + i] = v[i]
    BY <1>1 DEF Joins, Texts
  <1>3. Len(v) \in 1..Len(v) /\ Len(w) > 0 /\ Len(Empty) = 0
    BY <1>1, <1>2 DEF Empty
  <1>4. w[Len(w)] = v[Len(v)]
    BY <1>2, <1>3
  <1> QED BY <1>2, <1>3, <1>4 DEF w, End

LEMMA NameIs ==
    ASSUME NEW x \in PathNames
    PROVE  /\ x \in Texts /\ x # Empty /\ x # <<>> /\ Len(x) \in Nat /\ Len(x) > 0
           /\ \A i \in 1..Len(x) : x[i] # "/"
           /\ End(x) # "/" /\ x[1] # "/"
  <1>1. x \in Texts /\ x # <<>> /\ \A i \in 1..Len(x) : x[i] # "/"
    BY DEF PathNames, NamesOf
  <1>2. Len(x) \in Nat /\ Len(x) > 0
    BY <1>1, TextTyped DEF Empty
  <1>3. 1 \in 1..Len(x) /\ Len(x) \in 1..Len(x)
    BY <1>2
  <1> QED BY <1>1, <1>2, <1>3 DEF End, Empty

\* Names put together do not end in a slash.
LEMMA JoinedEnds ==
    ASSUME NEW ns \in Seq(PathNames), ns # <<>>
    PROVE  Joined(ns) \in Texts /\ Joined(ns) # Empty /\ End(Joined(ns)) # "/"
  <1> DEFINE n == Len(ns)
             x == ns[n]
  <1>1. n \in Nat /\ n > 0 /\ n \in 1..n /\ n - 1 \in 0..n /\ x \in PathNames
    BY Typed
  <1> HIDE DEF n, x
  <1>2. PICK c \in Joining(ns) : Joined(ns) = c[n]
    BY JoinChain DEF n
  <1>3. c \in [0..n -> Texts] /\ \A i \in 1..n : c[i] = Join(c[i - 1], ns[i])
    BY <1>2 DEF Joining, n
  <1>4. c[n - 1] \in Texts /\ Joined(ns) = Join(c[n - 1], x)
    BY <1>1, <1>2, <1>3 DEF x
  <1>5. x \in Texts /\ x # Empty /\ End(x) # "/"
    BY <1>1, NameIs
  <1>6. CASE c[n - 1] = Empty
    BY <1>4, <1>5, <1>6 DEF Join
  <1>7. CASE c[n - 1] # Empty
    <2> DEFINE u == c[n - 1] \o <<"/">>
    <2>1. u \in Texts
      BY <1>4, Slash, TextConcat
    <2>2. Joined(ns) = u \o x
      BY <1>4, <1>7 DEF Join
    <2> HIDE DEF u
    <2> QED BY <1>5, <2>1, <2>2, EndOfConcat
  <1> QED BY <1>6, <1>7

LEMMA SplitRoot == Split(<<"/">>, "/") = <<>>
  <1>1. <<"/">> = (Empty \o <<"/">>) \o Empty
    BY DEF Empty
  <1>2. Split((Empty \o <<"/">>) \o Empty, "/") = Split(Empty, "/") \o Split(Empty, "/")
    BY Slash, SplitConcat
  <1>3. Split(Empty, "/") = <<>>
    BY SplitEmpty
  <1>4. <<>> \o <<>> = <<>>
    OBVIOUS
  <1> QED BY <1>1, <1>2, <1>3, <1>4, Zenon

\* The leaf of a path that does not end in a slash is the last of its names.
LEMMA LeafIs ==
    ASSUME NEW a \in Texts, a # Empty, End(a) # "/"
    PROVE  /\ LeafName(a) \in PathNames
           /\ RFindCh(a, "/") = 0 => /\ a \in PathNames /\ LeafName(a) = a
                                     /\ BranchPath(a) = <<".">>
           /\ RFindCh(a, "/") # 0 =>
                 Split(a, "/") = Split(BranchPath(a), "/") \o <<LeafName(a)>>
           /\ Split(a, "/") \in Seq(PathNames) /\ Split(a, "/") # <<>>
           /\ Split(a, "/")[Len(Split(a, "/"))] = LeafName(a)
  <1> DEFINE e == RFindCh(a, "/")
             leaf == After(a, e)
             top == Before(a, e)
  <1>1. /\ e \in 0..Len(a) /\ Len(a) \in Nat /\ Len(a) > 0 /\ (e # 0 => a[e] = "/")
        /\ \A i \in 1..Len(a) : a[i] = "/" => i <= e
    BY RFindChIs, TextTyped
  <1>2. LeafName(a) = leaf
    BY DEF LeafName
  <1>3. leaf \in Texts /\ Len(leaf) = Len(a) - e /\ \A j \in 1..(Len(a) - e) : leaf[j] = a[e + j]
    BY <1>1, AfterIs DEF Texts
  <1>4. e # 0 => top \in Texts /\ Len(top) = e - 1 /\ \A j \in 1..(e - 1) : top[j] = a[j]
    <2>1. e # 0 => e \in 1..Len(a)
      BY <1>1
    <2> QED BY <2>1, BeforeIs DEF Texts
  <1> HIDE DEF e, leaf, top
  <1>5. leaf \in PathNames
    <2>1. e # Len(a)
      BY <1>1 DEF End
    <2>2. Len(leaf) > 0
      BY <1>1, <1>3, <2>1
    <2>3. \A j \in 1..Len(leaf) : leaf[j] # "/"
      <3> TAKE j \in 1..Len(leaf)
      <3>1. e + j \in 1..Len(a) /\ ~(e + j <= e) /\ j \in 1..(Len(a) - e)
        BY <1>1, <1>3
      <3> QED BY <1>1, <1>3, <3>1
    <2>4. leaf # <<>>
      BY <2>2
    <2> QED BY <1>3, <2>3, <2>4 DEF PathNames, NamesOf
  <1>6. Split(leaf, "/") = <<leaf>>
    BY <1>5, SplitOne DEF PathNames
  <1>7. Split(a, "/") \in Seq(PathNames)
    BY NormalizeSplit
  <1>8. CASE e = 0
    <2>1. leaf = a
      <3>1. Len(leaf) = Len(a) /\ \A j \in 1..Len(leaf) : leaf[j] = a[j]
        BY <1>1, <1>3, <1>8
      <3> QED BY <1>3, <3>1, Same DEF Texts
    <2>2. BranchPath(a) = <<".">>
      BY <1>8 DEF BranchPath, e
    <2>3. Len(<<leaf>>) = 1 /\ <<leaf>>[1] = leaf /\ <<leaf>> # <<>>
      OBVIOUS
    <2> QED BY <1>2, <1>5, <1>6, <1>7, <1>8, <2>1, <2>2, <2>3 DEF e
  <1>9. CASE e # 0
    <2>1. a = (top \o <<"/">>) \o leaf
      <3> DEFINE u == top \o <<"/">>
                 v == u \o leaf
                 s == <<"/">>
      <3>1. s \in Texts /\ Len(s) = 1 /\ s[1] = "/"
        BY Slash
      <3> HIDE DEF s
      <3>2. Joins(Tokens, top, s, u)
        BY <1>4, <1>9, <3>1, Concat DEF Texts, s
      <3> HIDE DEF u
      <3>3. u \in Texts /\ Len(u) = e /\ (\A j \in 1..(e - 1) : u[j] = a[j]) /\ u[e] = "/"
        BY <1>1, <1>4, <1>9, <3>1, <3>2 DEF Joins, Texts
      <3>4. Joins(Tokens, u, leaf, v)
        BY <1>3, <3>3, Concat DEF Texts
      <3> HIDE DEF v
      <3>5. v \in Texts /\ Len(v) = Len(a) /\ (\A j \in 1..e : v[j] = u[j])
            /\ \A j \in 1..Len(leaf) : v[e + j] = leaf[j]
        BY <1>1, <1>3, <3>3, <3>4 DEF Joins, Texts
      <3>6. \A j \in 1..Len(a) : v[j] = a[j]
        <4> TAKE j \in 1..Len(a)
        <4>1. CASE j < e
          BY <1>1, <3>3, <3>5, <4>1
        <4>2. CASE j = e
          BY <1>1, <3>3, <3>5, <4>2, <1>9
        <4>3. CASE j > e
          <5>1. j - e \in 1..Len(leaf) /\ e + (j - e) = j /\ j - e \in 1..(Len(a) - e)
            BY <1>1, <1>3, <4>3
          <5>2. v[e + (j - e)] = a[e + (j - e)]
            BY <1>3, <3>5, <5>1
          <5> QED BY <5>1, <5>2
        <4> QED BY <1>1, <4>1, <4>2, <4>3
      <3>7. v = a
        BY <3>5, <3>6, Same DEF Texts
      <3> QED BY <3>7 DEF u, v
    <2>2. Split(a, "/") = Split(top, "/") \o <<leaf>>
      <3>1. Split((top \o <<"/">>) \o leaf, "/") = Split(top, "/") \o Split(leaf, "/")
        BY <1>3, <1>4, <1>9, Slash, SplitConcat
      <3> QED BY <1>6, <2>1, <3>1
    <2>3. Split(top, "/") = Split(BranchPath(a), "/") /\ Split(top, "/") \in Seq(PathNames)
      <3>1. CASE e = 1
        <4>1. top = Empty
          BY <1>4, <1>9, <3>1 DEF Texts, Empty
        <4>2. BranchPath(a) = <<"/">>
          BY <3>1 DEF BranchPath, e
        <4>3. Split(Empty, "/") = <<>> /\ Split(<<"/">>, "/") = <<>>
          BY SplitEmpty, SplitRoot
        <4>4. <<>> \in Seq(PathNames)
          OBVIOUS
        <4> QED BY <4>1, <4>2, <4>3, <4>4, Zenon
      <3>2. CASE e # 1
        <4>1. BranchPath(a) = top
          BY <1>9, <3>2 DEF BranchPath, e, top
        <4> QED BY <1>4, <1>9, <4>1, NormalizeSplit
      <3> QED BY <3>1, <3>2
    <2>4. Split(top, "/") \o <<leaf>> # <<>> /\ (Split(top, "/") \o <<leaf>>)[Len(Split(top, "/") \o <<leaf>>)] = leaf
      <3> DEFINE ts == Split(top, "/")
      <3> HIDE DEF ts
      <3>1. ts \in Seq(PathNames)
        BY <2>3 DEF ts
      <3>2. ts \o <<leaf>> # <<>> /\ (ts \o <<leaf>>)[Len(ts \o <<leaf>>)] = leaf
        BY <1>5, <3>1
      <3> QED BY <3>2 DEF ts
    <2> QED BY <1>2, <1>5, <1>7, <1>9, <2>2, <2>3, <2>4 DEF e
  <1> QED BY <1>8, <1>9

\* A name after a slash is the leaf, and what is before is the branch.
LEMMA LeafOf ==
    ASSUME NEW u \in Texts, NEW x \in PathNames
    PROVE  LET a == (u \o <<"/">>) \o x
           IN  /\ a \in Texts /\ a # Empty /\ End(a) # "/" /\ LeafName(a) = x
               /\ BranchPath(a) = IF u = Empty THEN <<"/">> ELSE u
  <1> DEFINE s == <<"/">>
             h == u \o s
             a == h \o x
             e == RFindCh(a, "/")
             n == Len(u)
  <1>1. s \in Texts /\ Len(s) = 1 /\ s[1] = "/"
    BY Slash
  <1>2. x \in Texts /\ x # Empty /\ Len(x) \in Nat /\ Len(x) > 0 /\ \A i \in 1..Len(x) : x[i] # "/"
    BY NameIs
  <1>3. n \in Nat /\ Joins(Tokens, u, s, h)
    BY <1>1, TextTyped, Concat DEF Texts
  <1> HIDE DEF s, h
  <1>4. h \in Texts /\ Len(h) = n + 1 /\ (\A i \in 1..n : h[i] = u[i]) /\ h[n + 1] = "/"
    BY <1>1, <1>3 DEF Joins, Texts
  <1>5. Joins(Tokens, h, x, a)
    BY <1>2, <1>4, Concat DEF Texts
  <1>6. End(x) # "/"
    BY NameIs
  <1>7. a \in Texts /\ a # Empty /\ End(a) # "/"
    BY <1>2, <1>4, <1>6, EndOfConcat
  <1> HIDE DEF a, n
  <1>8. Len(a) = n + 1 + Len(x) /\ (\A i \in 1..n : a[i] = u[i]) /\ a[n + 1] = "/"
        /\ \A i \in 1..Len(x) : a[n + 1 + i] = x[i]
    <2>1. Len(a) = Len(h) + Len(x) /\ (\A i \in 1..Len(h) : a[i] = h[i])
          /\ \A i \in 1..Len(x) : a[Len(h) + i] = x[i]
      BY <1>5 DEF Joins
    <2> QED BY <1>3, <1>4, <2>1 DEF n
  <1>9. e = n + 1
    <2>1. e \in 0..Len(a) /\ (e # 0 => a[e] = "/") /\ \A i \in 1..Len(a) : a[i] = "/" => i <= e
      BY <1>7, RFindChIs
    <2> HIDE DEF e
    <2>2. n + 1 \in 1..Len(a)
      BY <1>2, <1>3, <1>8
    <2>3. n + 1 <= e /\ a[e] = "/"
      BY <1>3, <1>8, <2>1, <2>2
    <2>4. ASSUME e > n + 1 PROVE FALSE
      <3>1. e - (n + 1) \in 1..Len(x) /\ n + 1 + (e - (n + 1)) = e
        BY <1>2, <1>3, <1>8, <2>1, <2>4
      <3>2. a[n + 1 + (e - (n + 1))] # "/"
        BY <1>2, <1>8, <3>1
      <3> QED BY <2>3, <3>1, <3>2
    <2> QED BY <1>3, <2>1, <2>3, <2>4
  <1>10. LeafName(a) = x
    <2>1. LeafName(a) = After(a, n + 1)
      BY <1>9 DEF LeafName, e
    <2>2. n + 1 \in 0..Len(a) /\ Len(a) - (n + 1) = Len(x)
      BY <1>2, <1>3, <1>8
    <2>3. /\ After(a, n + 1) \in Seq(Tokens) /\ Len(After(a, n + 1)) = Len(x)
          /\ \A j \in 1..Len(x) : After(a, n + 1)[j] = a[n + 1 + j]
      BY <1>7, <2>2, AfterIs DEF Texts
    <2>4. \A j \in 1..Len(x) : After(a, n + 1)[j] = x[j]
      BY <1>8, <2>3
    <2> QED BY <1>2, <2>1, <2>3, <2>4, Same DEF Texts
  <1>11. BranchPath(a) = IF u = Empty THEN <<"/">> ELSE u
    <2>1. CASE u = Empty
      <3>1. n = 0
        BY <2>1 DEF n, Empty
      <3>2. e = 1
        BY <1>9, <3>1
      <3> QED BY <2>1, <3>2 DEF BranchPath, e
    <2>2. CASE u # Empty
      <3>1. n > 0
        BY <2>2, TextTyped DEF n
      <3>2. e # 0 /\ e # 1 /\ n + 1 \in 1..Len(a) /\ (n + 1) - 1 = n
        BY <1>2, <1>3, <1>8, <1>9, <3>1
      <3>3. BranchPath(a) = Before(a, n + 1)
        BY <1>9, <3>2 DEF BranchPath, e
      <3>4. /\ Before(a, n + 1) \in Seq(Tokens) /\ Len(Before(a, n + 1)) = n
            /\ \A j \in 1..n : Before(a, n + 1)[j] = a[j]
        BY <1>7, <3>2, BeforeIs DEF Texts
      <3>5. Before(a, n + 1) = u
        BY <1>8, <3>4, Same DEF Texts, n
      <3> QED BY <2>2, <3>3, <3>5
    <2> QED BY <2>1, <2>2
  <1> QED BY <1>7, <1>10, <1>11 DEF a, h, s

LEMMA TextAssociative == \A s, t, q \in Texts : (s \o t) \o q = s \o (t \o q)
  <1> TAKE s \in Texts, t \in Texts, q \in Texts
  <1>1. s \in Seq(Tokens) /\ t \in Seq(Tokens) /\ q \in Seq(Tokens)
    BY DEF Texts
  <1> QED BY <1>1, Associative

LEMMA JoinedNone == Joined(<<>>) = Empty
  <1>1. <<>> \in Seq(PathNames) /\ Len(<<>>) = 0
    OBVIOUS
  <1>2. PICK c \in Joining(<<>>) : Joined(<<>>) = c[0]
    BY <1>1, JoinChain
  <1> QED BY <1>2 DEF Joining

LEMMA JoinedFirst ==
    ASSUME NEW ns \in Seq(PathNames), ns # <<>>
    PROVE  Joined(ns)[1] # "/"
  <1>1. Begins(ns[1], Joined(ns)) /\ Joined(ns) \in Texts
    BY JoinedBegins, JoinedSplit
  <1>2. ns[1] \in PathNames
    OBVIOUS
  <1> DEFINE j == Joined(ns)
             x == ns[1]
  <1> HIDE DEF j, x
  <1>3. Len(x) \in Nat /\ Len(x) > 0 /\ x[1] # "/"
    BY <1>2, NameIs DEF x
  <1>4. 1 \in 1..Len(x) /\ \A i \in 1..Len(x) : j[i] = x[i]
    BY <1>1, <1>3 DEF Begins, j, x
  <1> QED BY <1>3, <1>4 DEF j

\* The branch and the leaf of a normal path; the branch is normal again.
LEMMA BranchOfNormal ==
    ASSUME NEW w \in Texts, w # Empty, NEW ms \in Seq(PathNames), NEW x \in PathNames,
           Split(w, "/") = Append(ms, x)
    PROVE  LET v == Normalize(w)
           IN  /\ v \in Texts /\ v # Empty /\ End(v) # "/" /\ LeafName(v) = x
               /\ BranchPath(v) = IF ms # <<>> THEN Root(w) \o Joined(ms)
                                  ELSE IF w[1] = "/" THEN <<"/">> ELSE <<".">>
               /\ Normalize(BranchPath(v)) = BranchPath(v)
  <1> DEFINE v == Normalize(w)
             r == Root(w)
             j == Joined(ms)
  <1>1. v \in Texts /\ v # Empty
    BY NormalizeSplit, NormalizeFirst
  <1>2. v = r \o Joined(Append(ms, x))
    BY NormalizeIs
  <1>3. x \in Texts /\ x # Empty /\ x[1] # "/" /\ End(x) # "/"
    BY NameIs
  <1> HIDE DEF v
  <1>4. CASE ms = <<>>
    <2>1. Append(ms, x) = <<x>> /\ Joined(<<x>>) = x
      BY <1>4, JoinedOne
    <2>2. v = r \o x
      BY <1>2, <2>1
    <2>3. CASE w[1] = "/"
      <3>1. v = (Empty \o <<"/">>) \o x
        <4>1. r = <<"/">> /\ Empty \o <<"/">> = <<"/">>
          BY <2>3 DEF Root, Empty
        <4> QED BY <2>2, <4>1
      <3>2. End(v) # "/" /\ LeafName(v) = x /\ BranchPath(v) = <<"/">>
        BY <3>1, Slash, LeafOf
      <3>3. Normalize(<<"/">>) = <<"/">>
        <4>1. Normalize(<<"/">>) = Root(<<"/">>) \o Joined(<<>>)
          BY SplitRoot, NormalizeIs
        <4>2. Root(<<"/">>) = <<"/">>
          BY DEF Root
        <4>3. <<"/">> \o <<>> = <<"/">>
          OBVIOUS
        <4> QED BY <4>1, <4>2, <4>3, JoinedNone DEF Empty
      <3> QED BY <1>1, <1>4, <2>3, <3>2, <3>3 DEF v
    <2>4. CASE w[1] # "/"
      <3>1. v = x
        <4>1. r = <<>> /\ <<>> \o x = x
          BY <1>3, <2>4 DEF Root, Empty, Texts
        <4> QED BY <2>2, <4>1
      <3>2. RFindCh(x, "/") = 0
        <4>1. RFindCh(x, "/") \in 0..Len(x) /\ (RFindCh(x, "/") # 0 => x[RFindCh(x, "/")] = "/")
          BY <1>3, RFindChIs
        <4>2. Len(x) \in Nat /\ \A i \in 1..Len(x) : x[i] # "/"
          BY NameIs
        <4> QED BY <4>1, <4>2
      <3>3. LeafName(x) = x /\ BranchPath(x) = <<".">>
        BY <1>3, <3>2, LeafIs
      <3>4. Normalize(<<".">>) = <<".">>
        <4>1. <<".">> \in PathNames
          BY DirTokens DEF PathNames, NamesOf
        <4> QED BY <4>1, NormalizeName
      <3> QED BY <1>1, <1>3, <1>4, <2>4, <3>1, <3>3, <3>4 DEF v
    <2> QED BY <2>3, <2>4
  <1>5. CASE ms # <<>>
    <2> DEFINE u == r \o j
    <2>1. j \in Texts /\ j # Empty /\ Split(j, "/") = ms /\ j[1] # "/"
      BY <1>5, JoinedSplit, JoinedEnds, JoinedFirst
    <2>2. r \in Texts
      BY Slash DEF Root
    <2>3. v = (u \o <<"/">>) \o x
      <3>1. v = r \o ((j \o <<"/">>) \o x)
        BY <1>2, <1>5, JoinedAppend
      <3>2. \A s, t, q \in Texts : (s \o t) \o q = s \o (t \o q)
        BY TextAssociative
      <3>3. j \o <<"/">> \in Texts
        BY <2>1, Slash, TextConcat
      <3>4. r \o ((j \o <<"/">>) \o x) = (r \o (j \o <<"/">>)) \o x
        BY <1>3, <2>2, <3>2, <3>3
      <3>5. r \o (j \o <<"/">>) = (r \o j) \o <<"/">>
        BY <2>1, <2>2, <3>2, Slash, SMTT(30)
      <3> QED BY <3>1, <3>4, <3>5
    <2> HIDE DEF j
    <2>4. u \in Texts /\ u # Empty
      BY <2>1, <2>2, EndOfConcat
    <2> HIDE DEF u
    <2>5. End(v) # "/" /\ LeafName(v) = x /\ BranchPath(v) = u
      BY <2>3, <2>4, LeafOf
    <2>6. Normalize(u) = u
      <3>1. CASE w[1] = "/"
        <4>1. r = <<"/">> /\ u = (Empty \o <<"/">>) \o j
          <5>1. r = <<"/">> /\ Empty \o <<"/">> = <<"/">>
            BY <3>1 DEF Root, Empty
          <5> QED BY <5>1 DEF u
        <4>2. Split(u, "/") = Split(Empty, "/") \o Split(j, "/")
          BY <2>1, <4>1, Slash, SplitConcat
        <4>3. Split(u, "/") = ms
          <5>1. <<>> \o ms = ms
            OBVIOUS
          <5> QED BY <2>1, <4>2, <5>1, SplitEmpty
        <4>4. u[1] = "/"
          <5> DEFINE s == <<"/">>
          <5>1. s # Empty /\ s \in Texts /\ s[1] = "/"
            BY DirTokens
          <5> HIDE DEF s
          <5>2. (s \o j)[1] = s[1]
            BY <2>1, <5>1, LongerAbsolute
          <5> QED BY <4>1, <5>1, <5>2 DEF u, s
        <4>5. Root(u) = r
          BY <4>1, <4>4 DEF Root
        <4> QED BY <4>3, <4>5, NormalizeIs DEF u, j
      <3>2. CASE w[1] # "/"
        <4>1. r = <<>> /\ u = j
          <5>1. r = <<>> /\ <<>> \o j = j
            BY <2>1, <3>2 DEF Root, Empty, Texts
          <5> QED BY <5>1 DEF u
        <4>2. Root(u) = r
          BY <2>1, <4>1 DEF Root, Empty
        <4>3. Split(u, "/") = ms
          BY <2>1, <4>1
        <4> QED BY <4>2, <4>3, NormalizeIs DEF u, j
      <3> QED BY <3>1, <3>2
    <2> QED BY <1>1, <1>5, <2>5, <2>6 DEF v, u, j
  <1> QED BY <1>4, <1>5 DEF v

LEMMA SplitFrontLast ==
    ASSUME NEW ns \in Seq(PathNames), ns # <<>>
    PROVE  \E ms \in Seq(PathNames), x \in PathNames : ns = Append(ms, x)
  <1>1. Front(ns) \in Seq(PathNames) /\ Len(Front(ns)) = Len(ns) - 1
        /\ (\A i \in 1..(Len(ns) - 1) : Front(ns)[i] = ns[i]) /\ Last(ns) \in PathNames /\ Last(ns) = ns[Len(ns)]
    BY FrontTyped
  <1> DEFINE ms == Front(ns)
             x == Last(ns)
             t == Append(ms, x)
  <1>2. Len(ns) \in Nat /\ Len(ns) > 0
    OBVIOUS
  <1> HIDE DEF ms, x
  <1>3. t \in Seq(PathNames) /\ Len(t) = Len(ms) + 1 /\ (\A i \in 1..Len(ms) : t[i] = ms[i]) /\ t[Len(ms) + 1] = x
    BY <1>1, Appended DEF ms, x
  <1> HIDE DEF t
  <1>4. Len(t) = Len(ns) /\ \A i \in 1..Len(ns) : t[i] = ns[i]
    BY <1>1, <1>2, <1>3 DEF ms, x
  <1>5. t = ns
    BY <1>3, <1>4, Same
  <1> QED BY <1>1, <1>5 DEF t, ms, x

-----------------------------------------------------------------------------
(* Where a path leads *)

LEMMA StepTyped == \A q \in Texts : \A n \in PathNames : StepInto(q, n) \in Texts
  <1> TAKE q \in Texts
  <1> TAKE n \in PathNames
  <1>1. n \in Texts
    BY DEF PathNames, NamesOf
  <1>2. q \o <<"/">> \in Texts
    BY Slash, TextConcat
  <1>3. (q \o <<"/">>) \o n \in Texts
    BY <1>1, <1>2, TextConcat
  <1> QED BY <1>3 DEF StepInto

Stepping(top, ns) ==
    {c \in [0..Len(ns) -> Texts] :
        c[0] = top /\ \A i \in 1..Len(ns) : c[i] = StepInto(c[i - 1], ns[i])}

\* One directory after the other.
LEMMA BelowChain ==
    ASSUME NEW top \in Texts, NEW ns \in Seq(PathNames)
    PROVE  \E c \in Stepping(top, ns) : Below(top, ns) = c[Len(ns)]
  <1> DEFINE n == Len(ns)
             start == top
             D == Texts
             F == [i \in 1..n |-> [s \in D |-> StepInto(s, ns[i])]]
             fold == Below(top, ns)
  <1>1. n \in Nat /\ DOMAIN ns = 1..n /\ start \in D /\ \A i \in 1..n : ns[i] \in PathNames
    <2>1. start \in D
      OBVIOUS
    <2>2. ns \in Seq(PathNames)
      BY DEF Texts, Maps
    <2> QED BY <2>1, <2>2, Typed
  <1>2. \A i \in 1..n : \A s \in D : StepInto(s, ns[i]) \in D
    BY <1>1, StepTyped
  <1>3. F \in [1..n -> [D -> D]]
    BY <1>2
  <1>4. \A i \in 1..n : \A s \in D : F[i][s] = StepInto(s, ns[i])
    OBVIOUS
  <1> DEFINE iter[s \in SUBSET (1..n)] ==
               IF s = {} THEN start
               ELSE LET x == Max(s) IN StepInto(iter[s \ {x}], ns[x])
  <1>5. fold = iter[1..n]
    BY <1>1 DEF Below, FoldLeft, MapThenFoldSet
  <1> HIDE DEF F, start, D, n
  <1>6. PICK g \in LargestFirst(D, start, n, F) : TRUE
    BY <1>1, <1>3, SubsetRecursion
  <1>7. /\ g \in [SUBSET (1..n) -> D]
        /\ \A s \in SUBSET (1..n) : g[s] = IF s = {} THEN start ELSE F[Max(s)][g[s \ {Max(s)}]]
    BY <1>6 DEF LargestFirst
  <1>8. ASSUME NEW s \in SUBSET (1..n)
        PROVE  g[s] = IF s = {} THEN start ELSE StepInto(g[s \ {Max(s)}], ns[Max(s)])
    <2>1. CASE s = {}
      BY <1>7, <2>1
    <2>2. CASE s # {}
      <3>1. Max(s) \in 1..n
        BY <1>1, <2>2, MaxIn
      <3>2. g[s \ {Max(s)}] \in D
        BY <1>7
      <3>3. g[s] = F[Max(s)][g[s \ {Max(s)}]]
        BY <1>7, <2>2, Zenon
      <3> QED BY <1>4, <2>2, <3>1, <3>2, <3>3, Zenon
    <2> QED BY <2>1, <2>2
  <1>9. g = [s \in SUBSET (1..n) |->
                IF s = {} THEN start ELSE StepInto(g[s \ {Max(s)}], ns[Max(s)])]
    BY <1>7, <1>8, Zenon
  <1>10. iter = [s \in SUBSET (1..n) |->
                    IF s = {} THEN start ELSE StepInto(iter[s \ {Max(s)}], ns[Max(s)])]
    BY <1>9 DEF iter
  <1> HIDE DEF iter
  <1>11. iter[{}] = start
    BY <1>10, Zenon
  <1>12. ASSUME NEW s \in SUBSET (1..n), s # {}, iter[s \ {Max(s)}] \in D
         PROVE  iter[s] = F[Max(s)][iter[s \ {Max(s)}]]
    <2>1. Max(s) \in 1..n
      BY <1>1, <1>12, MaxIn
    <2>2. iter[s] = StepInto(iter[s \ {Max(s)}], ns[Max(s)])
      BY <1>10, <1>12, Zenon
    <2> QED BY <1>4, <1>12, <2>1, <2>2, Zenon
  <1>13. PICK c \in Chains(D, start, n, F) : iter[1..n] = c[n]
    <2>1. FoldsTo(D, start, n, F, iter)
      BY <1>11, <1>12 DEF FoldsTo
    <2>2. ChainsOf(D, start, n, F, iter[1..n]) # {}
      BY <1>1, <1>3, <2>1, FoldChain
    <2> QED BY <2>2 DEF ChainsOf
  <1>14. c \in [0..n -> D] /\ c[0] = start /\ \A i \in 1..n : c[i] = F[i][c[i - 1]]
    BY <1>13 DEF Chains
  <1>15. ASSUME NEW i \in 1..n PROVE c[i] = StepInto(c[i - 1], ns[i])
    <2>1. c[i - 1] \in D
      BY <1>1, <1>14
    <2> QED BY <1>4, <1>14, <2>1, Zenon
  <1> HIDE DEF fold
  <1>16. c \in Stepping(top, ns)
    BY <1>14, <1>15, Zenon DEF Stepping, D, n, start
  <1> QED BY <1>5, <1>13, <1>16, Zenon DEF fold, start, n

\* The file of a name is in the directory of the names before it.
LEMMA BelowAppend ==
    ASSUME NEW top \in Texts, NEW ns \in Seq(PathNames), NEW x \in PathNames
    PROVE  /\ Below(top, ns) \in Texts
           /\ Below(top, Append(ns, x)) = StepInto(Below(top, ns), x)
  <1> DEFINE n == Len(ns)
             ms == Append(ns, x)
  <1>1. n \in Nat /\ ms \in Seq(PathNames) /\ Len(ms) = n + 1
        /\ (\A i \in 1..n : ms[i] = ns[i]) /\ ms[n + 1] = x
    BY Appended
  <1> HIDE DEF n, ms
  <1>2. PICK c \in Stepping(top, ns) : Below(top, ns) = c[n]
    BY BelowChain DEF n
  <1>3. PICK d \in Stepping(top, ms) : Below(top, ms) = d[n + 1]
    BY <1>1, BelowChain
  <1>4. c \in [0..n -> Texts] /\ c[0] = top /\ \A i \in 1..n : c[i] = StepInto(c[i - 1], ns[i])
    BY <1>2 DEF Stepping, n
  <1>5. d[0] = top /\ \A i \in 1..(n + 1) : d[i] = StepInto(d[i - 1], ms[i])
    BY <1>1, <1>3 DEF Stepping
  <1> DEFINE same == {i \in 0..n : c[i] = d[i]}
  <1>6. ASSUME NEW i \in same, i < n PROVE i + 1 \in same
    <2>1. i + 1 \in 1..n /\ i + 1 \in 1..(n + 1) /\ (i + 1) - 1 = i /\ i + 1 \in 0..n
      BY <1>1, <1>6
    <2>2. c[i + 1] = StepInto(c[i], ns[i + 1]) /\ d[i + 1] = StepInto(d[i], ms[i + 1])
      BY <1>4, <1>5, <2>1
    <2>3. ms[i + 1] = ns[i + 1]
      BY <1>1, <2>1
    <2> QED BY <1>6, <2>1, <2>2, <2>3
  <1>7. \A i \in 0..n : i \in same
    <2>1. 0 \in same
      BY <1>1, <1>4, <1>5
    <2> HIDE DEF same
    <2> QED BY <1>1, <1>6, <2>1, StepsUpTo
  <1>8. c[n] = d[n] /\ c[n] \in Texts
    <2>1. n \in 0..n
      BY <1>1
    <2> QED BY <1>4, <1>7, <2>1
  <1>9. d[n + 1] = StepInto(d[n], x)
    <2>1. n + 1 \in 1..(n + 1) /\ (n + 1) - 1 = n
      BY <1>1
    <2> QED BY <1>1, <1>5, <2>1
  <1> QED BY <1>2, <1>3, <1>8, <1>9 DEF ms

\* The same of the names of an absolute path, the first of which may be a drive.
LeadsTo(first, ns) ==
    IF host.windows /\ first = "C:" THEN Below(ns[1], Tail(ns)) ELSE Below(Empty, ns)

LEMMA LeadsAppend ==
    ASSUME NEW first, NEW ns \in Seq(PathNames), host.windows /\ first = "C:" => ns # <<>>,
           NEW x \in PathNames
    PROVE  LeadsTo(first, ns) \in Texts /\ LeadsTo(first, Append(ns, x)) = StepInto(LeadsTo(first, ns), x)
  <1> DEFINE ms == Append(ns, x)
             ts == Tail(ns)
             top == ns[1]
  <1>1. ASSUME ns # <<>>
        PROVE  top \in PathNames /\ ts \in Seq(PathNames) /\ ms[1] = top /\ Tail(ms) = Append(ts, x)
    <2>1. top \in PathNames /\ ts \in Seq(PathNames)
      BY <1>1
    <2>2. ms[1] = top
      BY <1>1, SMTT(30)
    <2>3. Tail(ms) = Append(ts, x)
      <3>1. Len(ns) \in Nat /\ Len(ns) > 0 /\ ms \in Seq(PathNames) /\ Len(ms) = Len(ns) + 1
            /\ (\A i \in 1..Len(ns) : ms[i] = ns[i]) /\ ms[Len(ns) + 1] = x
        BY <1>1, Appended
      <3>2. Len(ts) = Len(ns) - 1 /\ \A i \in 1..Len(ts) : ts[i] = ns[i + 1]
        BY <1>1
      <3> DEFINE t == Append(ts, x)
                 u == Tail(ms)
      <3>3. t \in Seq(PathNames) /\ Len(t) = Len(ts) + 1 /\ (\A i \in 1..Len(ts) : t[i] = ts[i]) /\ t[Len(ts) + 1] = x
        BY <2>1, Appended
      <3>4. u \in Seq(PathNames) /\ Len(u) = Len(ms) - 1 /\ \A i \in 1..Len(u) : u[i] = ms[i + 1]
        <4> HIDE DEF ms
        <4>1. ms # <<>>
          BY <3>1
        <4> QED BY <3>1, <4>1
      <3> HIDE DEF t, u, ms, ts
      <3>5. Len(u) = Len(t) /\ \A i \in 1..Len(u) : u[i] = t[i]
        <4>1. Len(u) = Len(ns) /\ Len(t) = Len(ns)
          BY <3>1, <3>2, <3>3, <3>4
        <4>2. ASSUME NEW i \in 1..Len(u) PROVE u[i] = t[i]
          <5>1. CASE i < Len(ns)
            <6>1. i \in 1..Len(ts) /\ i + 1 \in 1..Len(ns)
              BY <3>1, <3>2, <4>1, <5>1
            <6>2. u[i] = ms[i + 1] /\ ms[i + 1] = ns[i + 1]
              BY <3>1, <3>4, <6>1
            <6>3. t[i] = ts[i] /\ ts[i] = ns[i + 1]
              BY <3>2, <3>3, <6>1
            <6> QED BY <6>2, <6>3
          <5>2. CASE i = Len(ns)
            BY <3>1, <3>2, <3>3, <3>4, <4>1, <5>2
          <5> QED BY <3>1, <4>1, <5>1, <5>2
        <4> QED BY <4>1, <4>2
      <3> QED BY <3>3, <3>4, <3>5, Same DEF t, u
    <2> QED BY <2>1, <2>2, <2>3
  <1>2. ns # <<>> => top \in Texts
    BY <1>1, NameIs
  <1> HIDE DEF ms, ts, top
  <1>3. ns # <<>> => Below(top, ts) \in Texts /\ Below(top, Append(ts, x)) = StepInto(Below(top, ts), x)
    BY <1>1, <1>2, BelowAppend
  <1>4. /\ Below(Empty, ns) \in Texts /\ Below(Empty, ms) = StepInto(Below(Empty, ns), x)
    BY Slash, BelowAppend DEF ms
  <1>5. CASE host.windows /\ first = "C:"
    BY <1>1, <1>3, <1>5 DEF LeadsTo, ms, ts, top
  <1>6. CASE ~(host.windows /\ first = "C:")
    BY <1>4, <1>6 DEF LeadsTo, ms
  <1> QED BY <1>5, <1>6

LEMMA CutAt ==
    ASSUME NEW a \in Texts, NEW b \in Tokens, NEW e \in 1..Len(a), a[e] = b
    PROVE  a = (Before(a, e) \o <<b>>) \o After(a, e)
  <1> DEFINE leaf == After(a, e)
             top == Before(a, e)
             u == top \o <<b>>
             v == u \o leaf
             s == <<b>>
  <1>0. Len(a) \in Nat /\ e \in 1..Len(a) /\ a[e] = b
    BY TextTyped
  <1>1. leaf \in Texts /\ Len(leaf) = Len(a) - e /\ \A j \in 1..(Len(a) - e) : leaf[j] = a[e + j]
    BY <1>0, AfterIs DEF Texts
  <1>2. top \in Texts /\ Len(top) = e - 1 /\ \A j \in 1..(e - 1) : top[j] = a[j]
    BY BeforeIs DEF Texts
  <1>3. s \in Texts /\ Len(s) = 1 /\ s[1] = b
    BY DEF Texts
  <1> HIDE DEF s, leaf, top
  <1>4. Joins(Tokens, top, s, u)
    BY <1>2, <1>3, Concat DEF Texts, s
  <1> HIDE DEF u
  <1>5. u \in Texts /\ Len(u) = e /\ (\A j \in 1..(e - 1) : u[j] = a[j]) /\ u[e] = b
    BY <1>0, <1>2, <1>3, <1>4 DEF Joins, Texts
  <1>6. Joins(Tokens, u, leaf, v)
    BY <1>1, <1>5, Concat DEF Texts
  <1> HIDE DEF v
  <1>7. v \in Texts /\ Len(v) = Len(a) /\ (\A j \in 1..e : v[j] = u[j])
        /\ \A j \in 1..Len(leaf) : v[e + j] = leaf[j]
    BY <1>0, <1>1, <1>5, <1>6 DEF Joins, Texts
  <1>8. \A j \in 1..Len(a) : v[j] = a[j]
    <2> TAKE j \in 1..Len(a)
    <2>1. CASE j < e
      BY <1>0, <1>5, <1>7, <2>1
    <2>2. CASE j = e
      BY <1>0, <1>5, <1>7, <2>2
    <2>3. CASE j > e
      <3>1. j - e \in 1..Len(leaf) /\ e + (j - e) = j /\ j - e \in 1..(Len(a) - e)
        BY <1>0, <1>1, <2>3
      <3>2. v[e + (j - e)] = a[e + (j - e)]
        BY <1>1, <1>7, <3>1
      <3> QED BY <3>1, <3>2
    <2> QED BY <1>0, <2>1, <2>2, <2>3
  <1>9. v = a
    BY <1>7, <1>8, Same DEF Texts
  <1> QED BY <1>9 DEF u, v, leaf, top

LEMMA FindChFirst ==
    ASSUME NEW w \in Texts, NEW b
    PROVE  /\ FindCh(w, b) \in 0..Len(w)
           /\ FindCh(w, b) # 0 => w[FindCh(w, b)] = b
           /\ FindCh(w, b) = 0 => \A i \in 1..Len(w) : w[i] # b
           /\ \A i \in 1..Len(w) : i < FindCh(w, b) => w[i] # b
  <1> DEFINE is == Places(w, b)
  <1>1. Len(w) \in Nat /\ is \in SUBSET (1..Len(w)) /\ \A i \in 1..Len(w) : i \in is <=> w[i] = b
    BY TextTyped DEF Places
  <1>2. FindCh(w, b) = IF is = {} THEN 0 ELSE Min(is)
    BY DEF FindCh
  <1> HIDE DEF is
  <1>3. CASE is = {}
    BY <1>1, <1>2, <1>3
  <1>4. CASE is # {}
    <2>1. Min(is) \in is /\ \A y \in is : Min(is) <= y
      BY <1>1, <1>4, MinIn
    <2>2. Min(is) \in 1..Len(w)
      BY <1>1, <2>1
    <2>3. ASSUME NEW i \in 1..Len(w), i < Min(is) PROVE w[i] # b
      <3>1. i \notin is
        BY <1>1, <2>1, <2>2, <2>3
      <3> QED BY <1>1, <3>1
    <2> QED BY <1>1, <1>2, <1>4, <2>1, <2>2, <2>3
  <1> QED BY <1>3, <1>4

\* A relative path stays relative when it is made normal.
LEMMA RelativeStays ==
    ASSUME host \in Hosts, NEW w \in Texts, w # Empty, ~IsAbsolute(w)
    PROVE  ~IsAbsolute(Normalize(w))
  <1> DEFINE v == Normalize(w)
             ns == Split(w, "/")
  <1>1. v \in Texts /\ v # Empty /\ v[1] = w[1] /\ ns \in Seq(PathNames)
    BY NormalizeSplit, NormalizeFirst
  <1>2. w[1] # "/" /\ Len(w) \in Nat /\ Len(w) > 0 /\ w \in Seq(Tokens)
    BY TextTyped DEF IsAbsolute
  <1>3. v = Joined(ns)
    <2>1. v = Root(w) \o Joined(ns) /\ Root(w) = <<>>
      BY <1>2, NormalizeIs DEF Root, Empty
    <2>2. Joined(ns) \in Seq(Tokens)
      BY <1>1, JoinedSplit DEF Texts
    <2>3. <<>> \o Joined(ns) = Joined(ns)
      <3> DEFINE j == Joined(ns)
      <3> HIDE DEF j
      <3>1. j \in Seq(Tokens) => <<>> \o j = j
        OBVIOUS
      <3> QED BY <2>2, <3>1 DEF j
    <2> QED BY <2>1, <2>3
  <1>4. SUFFICES ASSUME host.windows, Len(v) > 1, v[1] = "C:", v[2] = "/" PROVE FALSE
    BY <1>1, <1>2 DEF IsAbsolute
  <1>5. w[1] = "C:" /\ (Len(w) > 1 => w[2] # "/")
    BY <1>1, <1>4 DEF IsAbsolute
  <1>6. w \notin PathNames
    <2>1. SUFFICES ASSUME w \in PathNames PROVE FALSE
      OBVIOUS
    <2>2. v = w
      BY <2>1, NormalizeName
    <2> HIDE DEF v
    <2> QED BY <1>4, <1>5, <2>2
  <1> HIDE DEF v
  <1> DEFINE i == FindCh(w, "/")
             top == Before(w, i)
             rest == After(w, i)
  <1>7. /\ i \in 0..Len(w) /\ (i # 0 => w[i] = "/") /\ (i = 0 => \A j \in 1..Len(w) : w[j] # "/")
        /\ \A j \in 1..Len(w) : j < i => w[j] # "/"
    BY FindChFirst
  <1>8. i # 0
    BY <1>2, <1>6, <1>7 DEF PathNames, NamesOf, Empty
  <1> HIDE DEF i
  <1>9. i > 2 /\ i \in 1..Len(w) /\ w[i] = "/"
    BY <1>2, <1>5, <1>7, <1>8
  <1>10. top \in Texts /\ Len(top) = i - 1 /\ \A j \in 1..(i - 1) : top[j] = w[j]
    BY <1>2, <1>9, BeforeIs DEF Texts
  <1>11. rest \in Texts
    BY <1>2, <1>9, AfterIs DEF Texts
  <1>12. w = (top \o <<"/">>) \o rest
    BY <1>9, Slash, CutAt
  <1> HIDE DEF top, rest
  <1>13. top \in PathNames
    <2>1. \A j \in 1..Len(top) : top[j] # "/"
      BY <1>2, <1>7, <1>9, <1>10
    <2>2. top # <<>>
      BY <1>9, <1>10
    <2> QED BY <1>10, <2>1, <2>2 DEF PathNames, NamesOf
  <1>14. ns = <<top>> \o Split(rest, "/")
    <2>1. Split((top \o <<"/">>) \o rest, "/") = Split(top, "/") \o Split(rest, "/")
      BY <1>10, <1>11, Slash, SplitConcat
    <2>2. Split(top, "/") = <<top>>
      BY <1>13, SplitOne DEF PathNames
    <2> QED BY <1>12, <2>1, <2>2
  <1> HIDE DEF ns
  <1>15. ns # <<>> /\ ns[1] = top
    <2>1. Split(rest, "/") \in Seq(PathNames)
      BY <1>11, NormalizeSplit
    <2> QED BY <1>13, <1>14, <2>1
  <1>16. Begins(top, v)
    BY <1>1, <1>3, <1>15, JoinedBegins
  <1>17. v[2] = w[2] /\ w[2] # "/"
    <2>1. 2 \in 1..Len(top) /\ 2 \in 1..(i - 1)
      BY <1>9, <1>10
    <2>2. v[2] = top[2] /\ top[2] = w[2]
      BY <1>10, <1>16, <2>1 DEF Begins
    <2> QED BY <1>2, <1>5, <1>9, <2>2
  <1> QED BY <1>4, <1>17

\* A normal absolute path is absolute, unless it is a drive.
LEMMA NormalAbsolute ==
    ASSUME host \in Hosts, NEW w \in Texts, w # Empty, IsAbsolute(w),
           ~(host.windows /\ Normalize(w) = <<"C:">>)
    PROVE  IsAbsolute(Normalize(w))
  <1>1. Normalize(w)[1] = w[1]
    BY NormalizeFirst
  <1>2. CASE w[1] = "/"
    BY <1>1, <1>2 DEF IsAbsolute
  <1>3. CASE host.windows /\ Len(w) > 1 /\ w[1] = "C:" /\ w[2] = "/"
    BY <1>3, NormalizeDrive DEF IsAbsolute
  <1> QED BY <1>2, <1>3 DEF IsAbsolute

\* A path whose branch is a drive is absolute.
LEMMA DriveBranch ==
    ASSUME host \in Hosts, host.windows, NEW v \in Texts, v # Empty, BranchPath(v) = <<"C:">>
    PROVE  IsAbsolute(v) /\ v[1] = "C:"
  <1> DEFINE e == RFindCh(v, "/")
             d == Before(v, e)
  <1>1. e \in 0..Len(v) /\ (e # 0 => v[e] = "/") /\ Len(v) \in Nat
    BY RFindChIs, TextTyped
  <1>2. BranchPath(v) = IF e = 0 THEN <<".">> ELSE IF e = 1 THEN <<"/">> ELSE d
    BY DEF BranchPath
  <1> HIDE DEF e
  <1>3. <<".">>[1] = "." /\ <<"/">>[1] = "/" /\ <<"C:">>[1] = "C:" /\ Len(<<"C:">>) = 1
    OBVIOUS
  <1>4. e # 0 /\ e # 1 /\ d = <<"C:">>
    BY <1>2, <1>3
  <1>5. e \in 1..Len(v)
    BY <1>1, <1>4
  <1>6. Len(d) = e - 1 /\ \A j \in 1..(e - 1) : d[j] = v[j]
    BY <1>5, TextTyped, BeforeIs
  <1> HIDE DEF d
  <1>7. e = 2 /\ v[1] = "C:" /\ Len(v) > 1
    <2>1. e = 2
      BY <1>1, <1>3, <1>4, <1>6
    <2>2. d[1] = "C:" /\ 1 \in 1..(e - 1)
      BY <1>3, <1>4, <2>1
    <2> QED BY <1>5, <1>6, <2>1, <2>2
  <1> QED BY <1>1, <1>7 DEF IsAbsolute

LEMMA FromRootIs ==
    ASSUME host \in Hosts, NEW p \in Texts, p # Empty
    PROVE  /\ FromRoot(p) \in Texts /\ FromRoot(p) # Empty /\ IsAbsolute(FromRoot(p))
           /\ FromRoot(FromRoot(p)) = FromRoot(p)
           /\ Resolve(p) = LeadsTo(FromRoot(p)[1], Split(FromRoot(p), "/"))
           /\ Resolve(FromRoot(p)) = Resolve(p)
           /\ Split(FromRoot(p), "/") \in Seq(PathNames)
           /\ FromRoot(p)[1] = "C:" => Split(FromRoot(p), "/") # <<>>
  <1>1. FromRoot(p) \in Texts /\ FromRoot(p) # Empty /\ IsAbsolute(FromRoot(p))
    <2>1. CASE IsAbsolute(p)
      BY <2>1 DEF FromRoot
    <2>2. CASE ~IsAbsolute(p)
      BY <2>2, ToAbsoluteIs DEF FromRoot
    <2> QED BY <2>1, <2>2
  <1>2. FromRoot(FromRoot(p)) = FromRoot(p)
    <2> DEFINE f == FromRoot(p)
    <2> HIDE DEF f
    <2>1. IsAbsolute(f) => FromRoot(f) = f
      BY DEF FromRoot
    <2> QED BY <1>1, <2>1 DEF f
  <1>3. Resolve(p) = LeadsTo(FromRoot(p)[1], Split(FromRoot(p), "/"))
    BY DEF Resolve, LeadsTo
  <1>4. Resolve(FromRoot(p)) = Resolve(p)
    BY <1>2 DEF Resolve
  <1>5. FromRoot(p)[1] = "C:" => Split(FromRoot(p), "/") # <<>>
    <2> DEFINE f == FromRoot(p)
    <2> HIDE DEF f
    <2>1. f \in Texts /\ f # Empty
      BY <1>1 DEF f
    <2>2. f[1] = "C:" => Len(Split(f, "/")) > 0
      BY <2>1, SplitNotEmpty
    <2>3. Len(<<>>) = 0
      OBVIOUS
    <2>4. f[1] = "C:" => Split(f, "/") # <<>>
      BY <2>2, <2>3
    <2> QED BY <2>4 DEF f
  <1> QED BY <1>1, <1>2, <1>3, <1>4, <1>5, NormalizeSplit

\* The path of one more name leads one name further.
LEMMA NextName ==
    ASSUME host \in Hosts, NEW p \in Texts, p # Empty, NEW q \in Texts, q # Empty,
           IsAbsolute(p) <=> IsAbsolute(q), IsAbsolute(p) => ((p[1] = "C:") <=> (q[1] = "C:")),
           NEW x \in PathNames, Split(q, "/") = Append(Split(p, "/"), x)
    PROVE  Resolve(p) \in Texts /\ Resolve(q) = StepInto(Resolve(p), x)
  <1> DEFINE fp == FromRoot(p)
             fq == FromRoot(q)
             ns == Split(fp, "/")
  <1>1. /\ fp \in Texts /\ ns \in Seq(PathNames) /\ Resolve(p) = LeadsTo(fp[1], ns)
        /\ (fp[1] = "C:" => ns # <<>>) /\ Resolve(q) = LeadsTo(fq[1], Split(fq, "/"))
    BY FromRootIs
  <1>2. ((fp[1] = "C:") <=> (fq[1] = "C:")) /\ Split(fq, "/") = Append(ns, x)
    <2>1. CASE IsAbsolute(p)
      BY <2>1 DEF FromRoot
    <2>2. CASE ~IsAbsolute(p)
      <3> DEFINE cs == Split(host.cwd, "/")
                 ps == Split(p, "/")
                 qs == Split(q, "/")
      <3>1. fp = ToAbsolute(host.cwd, p) /\ fq = ToAbsolute(host.cwd, q)
        BY <2>2 DEF FromRoot
      <3>2. fp[1] = host.cwd[1] /\ fq[1] = host.cwd[1] /\ ns = cs \o ps /\ Split(fq, "/") = cs \o qs
        <4> HIDE DEF fp, fq
        <4>1. \A v \in Texts : v # Empty => /\ ToAbsolute(host.cwd, v)[1] = host.cwd[1]
                                          /\ Split(ToAbsolute(host.cwd, v), "/") = cs \o Split(v, "/")
          BY ToAbsoluteIs
        <4> QED BY <3>1, <4>1
      <3>3. cs \in Seq(PathNames) /\ ps \in Seq(PathNames) /\ qs = Append(ps, x)
        BY HostTyped, NormalizeSplit
      <3> HIDE DEF cs, ps, qs, fp, fq, ns
      <3>4. Append(ps, x) = ps \o <<x>> /\ Append(cs \o ps, x) = (cs \o ps) \o <<x>> /\ <<x>> \in Seq(PathNames)
        BY <3>3
      <3>5. (cs \o ps) \o <<x>> = cs \o (ps \o <<x>>)
        BY <3>3, <3>4, Associative
      <3> QED BY <3>2, <3>3, <3>4, <3>5
    <2> QED BY <2>1, <2>2
  <1> HIDE DEF fp, fq, ns
  <1>3. LeadsTo(fq[1], Append(ns, x)) = LeadsTo(fp[1], Append(ns, x))
    BY <1>2 DEF LeadsTo
  <1>4. LeadsTo(fp[1], ns) \in Texts /\ LeadsTo(fp[1], Append(ns, x)) = StepInto(LeadsTo(fp[1], ns), x)
    BY <1>1, LeadsAppend
  <1> QED BY <1>1, <1>2, <1>3, <1>4

\* A relative path with more after it stays one.
LEMMA RelativeLonger ==
    ASSUME host \in Hosts, NEW d \in Texts, d # Empty, ~IsAbsolute(d),
           ~(host.windows /\ d = <<"C:">>), NEW w \in Texts
    PROVE  ~IsAbsolute((d \o <<"/">>) \o w)
  <1> DEFINE h == d \o <<"/">>
             y == h \o w
  <1>1. d[1] # "/" /\ (host.windows => ~(Len(d) > 1 /\ d[1] = "C:" /\ d[2] = "/"))
    BY DEF IsAbsolute
  <1>2. h \in Texts /\ h # Empty /\ h[1] = d[1] /\ (Len(d) > 1 => h[2] = d[2])
    BY Slash, LongerAbsolute
  <1>3. Len(h) = Len(d) + 1
    BY Slash, TextTyped
  <1>4. Len(d) \in Nat /\ Len(d) > 0
    BY TextTyped
  <1> HIDE DEF h
  <1>5. y # Empty /\ y[1] = h[1] /\ (Len(h) > 1 => y[2] = h[2])
    BY <1>2, LongerAbsolute
  <1> HIDE DEF y
  <1>6. y[1] # "/"
    BY <1>1, <1>2, <1>5
  <1>7. ASSUME host.windows, y[1] = "C:", y[2] = "/" PROVE FALSE
    <2>1. d[1] = "C:"
      BY <1>2, <1>5, <1>7
    <2>2. Len(d) # 1
      <3>1. SUFFICES ASSUME Len(d) = 1 PROVE FALSE
        OBVIOUS
      <3>2. d = <<d[1]>>
        BY <3>1, TextTyped, OnlyOne
      <3> QED BY <1>7, <2>1, <3>2
    <2>3. Len(d) > 1 /\ Len(h) > 1
      <3> DEFINE k == Len(d)
      <3> HIDE DEF k
      <3>1. k \in Nat /\ k > 0 /\ k # 1 /\ Len(h) = k + 1
        BY <1>3, <1>4, <2>2 DEF k
      <3>2. k > 1 /\ k + 1 > 1
        BY <3>1
      <3> QED BY <3>1, <3>2 DEF k
    <2>4. y[2] = d[2]
      BY <1>2, <1>5, <2>3
    <2> QED BY <1>1, <1>7, <2>1, <2>3, <2>4
  <1>8. ~IsAbsolute(y)
    BY <1>6, <1>7 DEF IsAbsolute
  <1> QED BY <1>8 DEF y, h

\* A name in a directory is in what the directory leads to.
LEMMA ResolveAppend ==
    ASSUME host \in Hosts, NEW p \in Texts, p # Empty, ~(host.windows /\ p = <<"C:">>),
           NEW x \in PathNames
    PROVE  Resolve(p) \in Texts /\ Resolve(AppendTo(p, x)) = StepInto(Resolve(p), x)
  <1> DEFINE h == p \o <<"/">>
             q == h \o x
  <1>1. x \in Texts /\ Split(x, "/") = <<x>>
    BY NameIs, SplitOne DEF PathNames
  <1>2. AppendTo(p, x) = q
    BY AppendName
  <1>3. q \in Texts /\ Split(q, "/") = Split(p, "/") \o <<x>>
    <2>1. q \in Texts /\ Split(q, "/") = Split(p, "/") \o Split(x, "/")
      BY <1>1, Slash, SplitConcat
    <2> QED BY <1>1, <2>1
  <1>4. Split(p, "/") \o <<x>> = Append(Split(p, "/"), x)
    <2>1. Split(p, "/") \in Seq(PathNames)
      BY NormalizeSplit
    <2> DEFINE ns == Split(p, "/")
    <2> HIDE DEF ns
    <2>2. ns \in Seq(PathNames) => ns \o <<x>> = Append(ns, x)
      OBVIOUS
    <2> QED BY <2>1, <2>2 DEF ns
  <1>5. h \in Texts /\ h # Empty /\ h[1] = p[1] /\ (IsAbsolute(p) => IsAbsolute(h))
    BY Slash, LongerAbsolute
  <1>6. q # Empty /\ q[1] = p[1] /\ (IsAbsolute(p) => IsAbsolute(q))
    <2> HIDE DEF h
    <2>1. q # Empty /\ q[1] = h[1] /\ (IsAbsolute(h) => IsAbsolute(q))
      BY <1>1, <1>5, LongerAbsolute
    <2> QED BY <1>5, <2>1
  <1>7. ~IsAbsolute(p) => ~IsAbsolute(q)
    BY <1>1, RelativeLonger
  <1> HIDE DEF q, h
  <1>8. Split(q, "/") = Append(Split(p, "/"), x)
    BY <1>3, <1>4, Zenon
  <1>9. (IsAbsolute(p) <=> IsAbsolute(q)) /\ (IsAbsolute(p) => ((p[1] = "C:") <=> (q[1] = "C:")))
    BY <1>6, <1>7
  <1>10. Resolve(p) \in Texts /\ Resolve(q) = StepInto(Resolve(p), x)
    BY <1>3, <1>6, <1>8, <1>9, NextName
  <1> QED BY <1>2, <1>10

LEMMA BranchFirst ==
    ASSUME NEW w \in Texts, w # Empty, RFindCh(w, "/") # 0
    PROVE  /\ BranchPath(w)[1] = w[1]
           /\ ~IsAbsolute(w) => ~IsAbsolute(BranchPath(w))
  <1> DEFINE e == RFindCh(w, "/")
             d == Before(w, e)
  <1>1. e \in 1..Len(w) /\ w[e] = "/" /\ Len(w) \in Nat
    BY RFindChIs, TextTyped
  <1>2. e = 1 => BranchPath(w) = <<"/">>
    BY DEF BranchPath
  <1>3. e > 1 => BranchPath(w) = d
    BY <1>1 DEF BranchPath
  <1>4. d \in Texts /\ Len(d) = e - 1 /\ \A j \in 1..(e - 1) : d[j] = w[j]
    BY <1>1, BeforeIs DEF Texts
  <1> HIDE DEF e, d
  <1>5. CASE e = 1
    <2>1. w[1] = "/" /\ <<"/">>[1] = "/"
      BY <1>1, <1>5
    <2> QED BY <1>2, <1>5, <2>1 DEF IsAbsolute
  <1>6. CASE e > 1
    <2>1. d[1] = w[1]
      BY <1>1, <1>4, <1>6
    <2>2. IsAbsolute(d) => IsAbsolute(w)
      <3>1. Len(d) > 1 => d[2] = w[2] /\ Len(w) > 1
        BY <1>1, <1>4
      <3> QED BY <2>1, <3>1 DEF IsAbsolute
    <2> QED BY <1>3, <1>6, <2>1, <2>2
  <1> QED BY <1>1, <1>5, <1>6

\* A path leads to its leaf in what its branch leads to.
LEMMA BranchResolve ==
    ASSUME host \in Hosts, NEW w \in Texts, w # Empty, End(w) # "/",
           ~(host.windows /\ BranchPath(w) = <<"C:">>)
    PROVE  /\ Resolve(BranchPath(w)) \in Texts
           /\ Resolve(w) = StepInto(Resolve(BranchPath(w)), LeafName(w))
  <1> DEFINE b == BranchPath(w)
             x == LeafName(w)
  <1>1. b \in Texts /\ b # Empty /\ x \in PathNames
    BY BranchTyped, LeafIs
  <1>2. CASE RFindCh(w, "/") # 0
    <2>1. Split(w, "/") = Split(b, "/") \o <<x>>
      BY <1>2, LeafIs
    <2>2. b[1] = w[1] /\ (~IsAbsolute(w) => ~IsAbsolute(b)) /\ (IsAbsolute(w) => IsAbsolute(b))
      BY <1>2, BranchFirst, BranchAbsolute
    <2>3. Split(b, "/") \in Seq(PathNames)
      BY <1>1, NormalizeSplit
    <2> HIDE DEF b, x
    <2> DEFINE ns == Split(b, "/")
    <2> HIDE DEF ns
    <2>4. ns \o <<x>> = Append(ns, x)
      BY <2>3 DEF ns
    <2>5. Split(w, "/") = Append(Split(b, "/"), x)
      BY <2>1, <2>4 DEF ns
    <2> QED BY <1>1, <2>2, <2>5, NextName, Zenon DEF b, x
  <1>3. CASE RFindCh(w, "/") = 0
    <2> DEFINE dot == <<".">>
               cs == Split(host.cwd, "/")
               first == host.cwd[1]
    <2>1. w \in PathNames /\ x = w /\ b = dot
      BY <1>3, LeafIs
    <2>2. ASSUME NEW v \in PathNames
          PROVE  Resolve(v) = LeadsTo(first, Append(cs, v))
      <3>1. v \in Texts /\ v # Empty /\ Len(v) \in Nat /\ Len(v) > 0 /\ \A i \in 1..Len(v) : v[i] # "/"
        BY NameIs
      <3>2. ~IsAbsolute(v)
        <4>1. v[1] # "/" /\ (Len(v) > 1 => v[2] # "/")
          <5>1. 1 \in 1..Len(v) /\ (Len(v) > 1 => 2 \in 1..Len(v))
            BY <3>1
          <5> QED BY <3>1, <5>1
        <4> QED BY <4>1 DEF IsAbsolute
      <3>3. FromRoot(v) = ToAbsolute(host.cwd, v)
        BY <3>2 DEF FromRoot
      <3>4. FromRoot(v)[1] = first /\ Split(FromRoot(v), "/") = cs \o Split(v, "/")
        BY <3>1, <3>3, ToAbsoluteIs
      <3>5. Split(v, "/") = <<v>>
        BY SplitOne DEF PathNames
      <3>6. cs \in Seq(PathNames)
        BY HostTyped, NormalizeSplit
      <3>7. Resolve(v) = LeadsTo(FromRoot(v)[1], Split(FromRoot(v), "/"))
        BY <3>1, FromRootIs
      <3> HIDE DEF cs, first
      <3>8. cs \o <<v>> = Append(cs, v)
        BY <3>6
      <3> QED BY <3>4, <3>5, <3>7, <3>8
    <2>3. dot \in PathNames
      BY DirTokens DEF PathNames, NamesOf
    <2>4. cs \in Seq(PathNames) /\ (host.windows /\ first = "C:" => cs # <<>>)
      <3>1. cs \in Seq(PathNames)
        BY HostTyped, NormalizeSplit
      <3>2. host.cwd \in Texts /\ host.cwd # Empty
        BY HostTyped
      <3>3. first = "C:" => Len(cs) > 0
        BY <3>2, SplitNotEmpty
      <3> HIDE DEF cs
      <3> QED BY <3>1, <3>3
    <2> HIDE DEF cs, first, dot
    <2>5. \A v \in PathNames : /\ LeadsTo(first, cs) \in Texts
                               /\ LeadsTo(first, Append(cs, v)) = StepInto(LeadsTo(first, cs), v)
      BY <2>4, LeadsAppend
    <2>6. Resolve(dot) = LeadsTo(first, cs) /\ LeadsTo(first, cs) \in Texts
      <3>1. StepInto(LeadsTo(first, cs), dot) = LeadsTo(first, cs)
        BY DEF StepInto, dot
      <3> QED BY <2>2, <2>3, <2>5, <3>1
    <2>7. Resolve(w) = StepInto(LeadsTo(first, cs), w)
      BY <2>1, <2>2, <2>5
    <2> QED BY <2>1, <2>6, <2>7
  <1> QED BY <1>2, <1>3

LEMMA StepOnce ==
    ASSUME NEW q \in Texts, NEW r \in Texts, NEW x \in PathNames, StepInto(q, x) = StepInto(r, x)
    PROVE  q = r
  <1> DEFINE t == <<"/">> \o x
             u == q \o t
             v == r \o t
  <1>1. x \in Texts /\ t \in Texts /\ Len(t) \in Nat /\ Len(q) \in Nat /\ Len(r) \in Nat
    BY NameIs, Slash, TextConcat, TextTyped
  <1>2. CASE x = <<".">>
    BY <1>2 DEF StepInto
  <1>3. CASE x # <<".">>
    <2>1. StepInto(q, x) = u /\ StepInto(r, x) = v
      BY <1>1, <1>3, TextAssociative, Slash, Zenon DEF StepInto
    <2> HIDE DEF t
    <2>2. Joins(Tokens, q, t, u) /\ Joins(Tokens, r, t, v)
      BY <1>1, Concat DEF Texts
    <2>3. u = v
      BY <2>1
    <2> HIDE DEF u, v
    <2>4. Len(q) = Len(r) /\ \A i \in 1..Len(q) : q[i] = r[i]
      BY <1>1, <2>2, <2>3 DEF Joins
    <2> QED BY <2>4, Same DEF Texts
  <1> QED BY <1>2, <1>3

\* A path leads where it does when it is made normal.
LEMMA NormalResolve ==
    ASSUME host \in Hosts, NEW w \in Texts, w # Empty, ~(host.windows /\ Normalize(w) = <<"C:">>)
    PROVE  Resolve(Normalize(w)) = Resolve(w)
  <1> DEFINE v == Normalize(w)
  <1>1. v \in Texts /\ v # Empty /\ v[1] = w[1] /\ Split(v, "/") = Split(w, "/")
    BY NormalizeSplit, NormalizeFirst
  <1>2. CASE IsAbsolute(w)
    <2>1. IsAbsolute(v)
      BY <1>2, NormalAbsolute
    <2> HIDE DEF v
    <2>2. Resolve(v) = Resolve(w)
      BY <1>1, <1>2, <2>1, ResolveSame
    <2> QED BY <2>2 DEF v
  <1>3. CASE ~IsAbsolute(w)
    <2>1. ~IsAbsolute(v) /\ Normalize(v) = v
      BY <1>3, RelativeStays, NormalizeTwice
    <2>2. ToAbsolute(host.cwd, v) = ToAbsolute(host.cwd, w)
      <3>1. \A p : AppendTo(p, v) = AppendTo(p, w)
        BY <2>1 DEF AppendTo
      <3> QED BY <3>1 DEF ToAbsolute
    <2> HIDE DEF v
    <2>3. FromRoot(v) = FromRoot(w)
      BY <1>3, <2>1, <2>2 DEF FromRoot
    <2>4. Resolve(v) = Resolve(w)
      BY <2>3 DEF Resolve
    <2> QED BY <2>4 DEF v
  <1> QED BY <1>2, <1>3

LastName(w) == Split(w, "/")[Len(Split(w, "/"))]

LEMMA NormalLeaf ==
    ASSUME NEW w \in Texts, w # Empty, Split(w, "/") # <<>>
    PROVE  LET v == Normalize(w)
           IN  /\ v \in Texts /\ v # Empty /\ End(v) # "/" /\ LeafName(v) = LastName(w)
               /\ BranchPath(v) \in Texts /\ BranchPath(v) # Empty
               /\ Normalize(BranchPath(v)) = BranchPath(v)
  <1> DEFINE ns == Split(w, "/")
  <1>1. ns \in Seq(PathNames)
    BY NormalizeSplit
  <1>2. PICK ms \in Seq(PathNames), x \in PathNames : ns = Append(ms, x)
    BY <1>1, SplitFrontLast
  <1>3. Len(ns) = Len(ms) + 1 /\ ns[Len(ms) + 1] = x
    BY <1>2, Appended
  <1>4. LastName(w) = x
    BY <1>3 DEF LastName
  <1> DEFINE v == Normalize(w)
  <1>5. /\ v \in Texts /\ v # Empty /\ End(v) # "/" /\ LeafName(v) = x
        /\ Normalize(BranchPath(v)) = BranchPath(v)
    BY <1>2, BranchOfNormal
  <1> HIDE DEF v
  <1>6. BranchPath(v) \in Texts /\ BranchPath(v) # Empty
    BY <1>5, BranchTyped
  <1> QED BY <1>4, <1>5, <1>6 DEF v

LEMMA RootLeaf == LeafName(<<"/">>) = Empty
  <1> DEFINE r == <<"/">>
  <1>1. r \in Texts /\ Len(r) = 1 /\ r[1] = "/" /\ 1 \in 1..Len(r)
    BY Slash
  <1> HIDE DEF r
  <1>2. RFindCh(r, "/") \in 0..Len(r) /\ 1 <= RFindCh(r, "/")
    BY <1>1, RFindChIs
  <1>3. RFindCh(r, "/") = 1
    BY <1>1, <1>2
  <1>4. After(r, 1) \in Seq(Tokens) /\ Len(After(r, 1)) = 0
    <2>1. 1 \in 0..Len(r) /\ Len(r) - 1 = 0
      BY <1>1
    <2> QED BY <1>1, <2>1, AfterIs DEF Texts
  <1>5. LeafName(r) = <<>>
    BY <1>3, <1>4 DEF LeafName
  <1> QED BY <1>5 DEF r, Empty

LEMMA LibsName == Libs \in Texts => Libs \in PathNames
  <1>1. Len(Libs) = 1 /\ Libs[1] = ".libs" /\ Libs # <<>>
    BY DEF Libs
  <1>2. ASSUME Libs \in Texts PROVE \A i \in 1..Len(Libs) : Libs[i] # "/"
    BY <1>1
  <1> QED BY <1>1, <1>2 DEF PathNames, NamesOf

\* A path that has no names is the root.
LEMMA NoNames ==
    ASSUME NEW w \in Texts, w # Empty, LeafName(Normalize(w)) = Libs
    PROVE  Split(w, "/") # <<>>
  <1>1. SUFFICES ASSUME Split(w, "/") = <<>> PROVE FALSE
    OBVIOUS
  <1>2. w[1] = "/"
    <2>1. w[1] # "/" => Len(Split(w, "/")) > 0
      BY SplitNotEmpty
    <2>2. Len(<<>>) = 0
      OBVIOUS
    <2> QED BY <1>1, <2>1, <2>2
  <1>3. Normalize(w) = <<"/">>
    <2>1. Normalize(w) = <<"/">> \o <<>>
      BY <1>1, <1>2, NormalizeIs, JoinedNone DEF Root, Empty
    <2>2. <<"/">> \o <<>> = <<"/">>
      OBVIOUS
    <2> QED BY <2>1, <2>2
  <1>4. Libs # Empty
    BY DEF Libs, Empty
  <1> QED BY <1>3, <1>4, RootLeaf

\* The names of a path are the last of its names from the root.
LEMMA FromRootNames ==
    ASSUME host \in Hosts, NEW p \in Texts, p # Empty, ~IsAbsolute(p)
    PROVE  LET f == FromRoot(p)
           IN  /\ Split(p, "/") # <<>> /\ Split(f, "/") # <<>> /\ LastName(f) = LastName(p)
               /\ End(f) # "/" /\ FromRoot(Normalize(p)) = f
  <1> DEFINE f == FromRoot(p)
             cs == Split(host.cwd, "/")
             ps == Split(p, "/")
             fs == Split(f, "/")
  <1>1. p[1] # "/"
    BY DEF IsAbsolute
  <1>2. ps \in Seq(PathNames) /\ Len(ps) \in Nat /\ Len(ps) > 0
    BY <1>1, SplitNotEmpty
  <1>3. f = ToAbsolute(host.cwd, p)
    BY DEF FromRoot
  <1>4. fs = cs \o ps
    <2>1. Split(ToAbsolute(host.cwd, p), "/") = cs \o ps
      BY ToAbsoluteIs
    <2> QED BY <1>3, <2>1
  <1>5. cs \in Seq(PathNames)
    BY HostTyped, NormalizeSplit
  <1> HIDE DEF cs, fs, ps
  <1>6. fs # <<>> /\ fs[Len(fs)] = ps[Len(ps)] /\ ps # <<>>
    BY <1>2, <1>4, <1>5
  <1>7. LastName(f) = LastName(p)
    BY <1>6 DEF LastName, fs, ps
  <1> DEFINE np == Normalize(p)
             nc == Normalize(host.cwd)
  <1>8. nc \in Texts /\ np \in Texts /\ np # Empty /\ np[1] # "/" /\ Normalize(np) = np /\ End(np) # "/"
    <2>1. nc \in Texts
      BY HostTyped, NormalizeSplit
    <2>2. np \in Texts /\ np # Empty /\ np[1] # "/" /\ Normalize(np) = np
      BY <1>1, NormalizeSplit, NormalizeFirst, NormalizeTwice
    <2>3. End(np) # "/"
      BY <1>6, NormalLeaf DEF ps
    <2> QED BY <2>1, <2>2, <2>3
  <1> HIDE DEF np, nc
  <1>9. \A q : AppendTo(q, np) = AppendTo(q, p) /\ AppendTo(q, p) = (q \o <<"/">>) \o np
    BY <1>8 DEF AppendTo, np
  <1>10. FromRoot(np) = f
    <2>1. ~IsAbsolute(np)
      BY RelativeStays DEF np
    <2> QED BY <1>3, <1>9, <2>1 DEF FromRoot, ToAbsolute
  <1>11. End(f) # "/"
    <2>1. f = (nc \o <<"/">>) \o np
      BY <1>3, <1>9 DEF ToAbsolute, nc
    <2> DEFINE h == nc \o <<"/">>
    <2>2. h \in Texts
      BY <1>8, Slash, TextConcat
    <2> HIDE DEF h, f
    <2>3. f = h \o np
      BY <2>1 DEF h
    <2>4. End(h \o np) = End(np)
      BY <1>8, <2>2, EndOfConcat
    <2> QED BY <1>8, <2>3, <2>4
  <1> QED BY <1>6, <1>7, <1>10, <1>11 DEF f, fs, ps, np

LEMMA TwoBranches ==
    ASSUME host \in Hosts, NEW u \in Texts, u # Empty, End(u) # "/", NEW v \in Texts, v # Empty,
           End(v) # "/", LeafName(u) = LeafName(v), Resolve(u) = Resolve(v),
           ~(host.windows /\ BranchPath(u) = <<"C:">>), ~(host.windows /\ BranchPath(v) = <<"C:">>)
    PROVE  Resolve(BranchPath(u)) = Resolve(BranchPath(v))
  <1>1. Resolve(BranchPath(u)) \in Texts /\ Resolve(u) = StepInto(Resolve(BranchPath(u)), LeafName(u))
    BY BranchResolve
  <1>2. Resolve(BranchPath(v)) \in Texts /\ Resolve(v) = StepInto(Resolve(BranchPath(v)), LeafName(v))
    BY BranchResolve
  <1>3. LeafName(u) \in PathNames
    BY LeafIs
  <1> QED BY <1>1, <1>2, <1>3, StepOnce

Drive(w) == host.windows /\ w = <<"C:">>

\* The path from the root out of libtool's directory.
OutOf(p) == StripLibtool(Normalize(FromRoot(p)))

LEMMA DriveName == <<"C:">> \in PathNames
  BY DirTokens DEF PathNames, NamesOf, Texts

LEMMA NotLibs == <<"C:">> # Libs /\ LeafName(<<"C:">>) # Libs
  <1>1. <<"C:">> \in PathNames
    BY DriveName
  <1> DEFINE c == <<"C:">>
  <1>2. c[1] = "C:" /\ Libs[1] = ".libs"
    BY DEF Libs
  <1> HIDE DEF c
  <1>3. c # Libs
    BY <1>2
  <1>4. RFindCh(c, "/") = 0
    <2>1. c \in Texts /\ \A i \in 1..Len(c) : c[i] # "/"
      BY <1>1, NameIs DEF c
    <2>2. RFindCh(c, "/") \in 0..Len(c) /\ (RFindCh(c, "/") # 0 => c[RFindCh(c, "/")] = "/") /\ Len(c) \in Nat
      BY <2>1, RFindChIs, TextTyped
    <2> QED BY <2>1, <2>2
  <1>5. c \in Texts /\ c # Empty /\ End(c) # "/"
    BY <1>1, NameIs DEF c
  <1>6. LeafName(c) = c
    BY <1>4, <1>5, LeafIs
  <1> QED BY <1>3, <1>6 DEF c

LEMMA OutOfIs ==
    ASSUME host \in Hosts, NEW p \in Texts, p # Empty, ~Drive(OutOf(p))
    PROVE  LET f == FromRoot(p)
               v == Normalize(f)
           IN  /\ f \in Texts /\ f # Empty /\ IsAbsolute(f) /\ v \in Texts /\ v # Empty /\ ~Drive(v)
               /\ Resolve(v) = Resolve(p) /\ Resolve(f) = Resolve(p)
               /\ LeafName(v) = Libs =>
                     /\ OutOf(p) = BranchPath(v) /\ ~Drive(BranchPath(v)) /\ Split(f, "/") # <<>>
                     /\ End(v) # "/" /\ Libs \in PathNames
               /\ LeafName(v) # Libs => OutOf(p) = v
  <1> DEFINE f == FromRoot(p)
             v == Normalize(f)
  <1>1. f \in Texts /\ f # Empty /\ IsAbsolute(f) /\ Resolve(f) = Resolve(p)
    BY FromRootIs
  <1> HIDE DEF f
  <1>2. v \in Texts /\ v # Empty
    BY <1>1, NormalizeSplit, NormalizeFirst
  <1>3. /\ LeafName(v) = Libs => OutOf(p) = BranchPath(v)
        /\ LeafName(v) # Libs => OutOf(p) = v
    BY DEF OutOf, StripLibtool, f
  <1>4. ~Drive(v)
    BY <1>3, NotLibs DEF Drive
  <1>5. Resolve(v) = Resolve(f)
    BY <1>1, <1>4, NormalResolve DEF Drive
  <1>6. LeafName(v) = Libs => Split(f, "/") # <<>>
    BY <1>1, NoNames
  <1>7. Split(f, "/") # <<>> => End(v) # "/"
    BY <1>1, NormalLeaf
  <1>8. End(v) # "/" => LeafName(v) \in PathNames
    BY <1>2, LeafIs
  <1> HIDE DEF v
  <1> QED BY <1>1, <1>2, <1>3, <1>4, <1>5, <1>6, <1>7, <1>8 DEF v, f

\* The directory of a C program leads where it was asked to.
LEMMA SameInC ==
    ASSUME host \in Hosts, NEW p \in Texts, p # Empty, ~Drive(Normalize(p)), ~Drive(OutOf(p))
    PROVE  LET d == StripLibtool(FromRoot(Normalize(p)))
           IN  d \in Texts /\ d # Empty /\ ~Drive(d) /\ Resolve(d) = Resolve(OutOf(p))
  <1> DEFINE f == FromRoot(p)
             v == Normalize(f)
             np == Normalize(p)
             d == StripLibtool(FromRoot(np))
  <1>1. /\ f \in Texts /\ f # Empty /\ IsAbsolute(f) /\ v \in Texts /\ v # Empty /\ ~Drive(v)
        /\ Resolve(v) = Resolve(f)
        /\ LeafName(v) = Libs =>
              /\ OutOf(p) = BranchPath(v) /\ ~Drive(BranchPath(v)) /\ Split(f, "/") # <<>>
              /\ End(v) # "/" /\ Libs \in PathNames
        /\ LeafName(v) # Libs => OutOf(p) = v
    BY OutOfIs
  <1>2. CASE IsAbsolute(p)
    <2>1. f = p
      BY <1>2 DEF FromRoot
    <2>2. IsAbsolute(np)
      BY <1>2, NormalAbsolute DEF Drive
    <2>3. FromRoot(np) = v
      BY <2>1, <2>2 DEF FromRoot
    <2>4. d = OutOf(p)
      BY <2>3 DEF OutOf
    <2> HIDE DEF v, f, d, np
    <2>5. d \in Texts /\ d # Empty
      BY <1>1, <2>4, BranchTyped
    <2> QED BY <2>4, <2>5 DEF d, np
  <1>3. CASE ~IsAbsolute(p)
    <2>1. FromRoot(np) = f /\ End(f) # "/" /\ Split(f, "/") # <<>>
      BY <1>3, FromRootNames
    <2>2. d = StripLibtool(f)
      BY <2>1
    <2> HIDE DEF f, d, np
    <2>3. LeafName(f) = LeafName(v)
      <3>1. LeafName(f) = LastName(f)
        BY <1>1, <2>1, LeafIs DEF LastName
      <3>2. LeafName(v) = LastName(f)
        BY <1>1, <2>1, NormalLeaf
      <3> QED BY <3>1, <3>2
    <2>4. CASE LeafName(v) # Libs
      <3>1. d = f
        BY <2>2, <2>3, <2>4 DEF StripLibtool
      <3>2. ~Drive(f)
        <4>1. ~IsAbsolute(<<"C:">>)
          BY DEF IsAbsolute
        <4> QED BY <1>1, <4>1 DEF Drive
      <3>3. Resolve(d) = Resolve(OutOf(p))
        BY <1>1, <2>4, <3>1
      <3> QED BY <1>1, <3>1, <3>2, <3>3 DEF d, np
    <2>5. CASE LeafName(v) = Libs
      <3>1. d = BranchPath(f)
        BY <2>2, <2>3, <2>5 DEF StripLibtool
      <3>2. BranchPath(f) \in Texts /\ BranchPath(f) # Empty
        BY <1>1, BranchTyped
      <3>3. ~Drive(BranchPath(f))
        <4>1. SUFFICES ASSUME host.windows, BranchPath(f) = <<"C:">> PROVE FALSE
          BY DEF Drive
        <4>2. f[1] = "C:"
          BY <1>1, <4>1, DriveBranch
        <4>3. RFindCh(f, "/") # 0
          <5>1. <<".">>[1] = "." /\ <<"C:">>[1] = "C:"
            OBVIOUS
          <5>2. RFindCh(f, "/") = 0 => BranchPath(f) = <<".">>
            BY DEF BranchPath
          <5> QED BY <4>1, <5>1, <5>2
        <4> DEFINE c == <<"C:">>
        <4>4. c \in PathNames /\ Split(c, "/") = <<c>>
          <5>1. c \in PathNames
            BY DriveName
          <5> QED BY <5>1, SplitOne DEF PathNames
        <4>5. Split(f, "/") = <<c>> \o <<Libs>>
          BY <1>1, <2>1, <2>3, <2>5, <4>1, <4>3, <4>4, LeafIs
        <4>6. <<c>> \o <<Libs>> = Append(<<c>>, Libs) /\ <<c>> \in Seq(PathNames) /\ <<c>> # <<>>
          BY <4>4
        <4>7. BranchPath(v) = Root(f) \o Joined(<<c>>)
          <5> HIDE DEF c
          <5>1. Split(f, "/") = Append(<<c>>, Libs) /\ Libs \in PathNames
            BY <1>1, <2>5, <4>5, <4>6
          <5>2. BranchPath(Normalize(f)) = Root(f) \o Joined(<<c>>)
            BY <1>1, <4>6, <5>1, BranchOfNormal
          <5> QED BY <5>2 DEF v
        <4>8. Joined(<<c>>) = c /\ Root(f) = <<>>
          BY <4>2, <4>4, JoinedOne DEF Root, Empty
        <4>9. <<>> \o c = c
          OBVIOUS
        <4>10. BranchPath(v) = c
          BY <4>7, <4>8, <4>9
        <4> QED BY <1>1, <2>5, <4>1, <4>10 DEF Drive
      <3>4. Resolve(BranchPath(f)) = Resolve(BranchPath(v))
        <4> HIDE DEF v
        <4> QED BY <1>1, <2>1, <2>3, <2>5, <3>3, TwoBranches DEF Drive
      <3> QED BY <1>1, <2>5, <3>1, <3>2, <3>3, <3>4 DEF d, np
    <2> QED BY <2>4, <2>5
  <1> QED BY <1>2, <1>3

\* So does that of a C++ program: a -s as it is, and its own out of libtool's.
LEMMA SameInCxx ==
    ASSUME host \in Hosts, NEW p \in Texts, p # Empty, ~Drive(Normalize(p))
    PROVE  LET d == Normalize(p)
               e == IF LeafName(d) = Libs THEN CxxBranchPath(d) ELSE d
           IN  /\ d \in Texts /\ d # Empty
               /\ ~Drive(Normalize(FromRoot(p))) => Resolve(d) = Resolve(Normalize(FromRoot(p)))
               /\ ~Drive(OutOf(p)) =>
                     e \in Texts /\ e # Empty /\ ~Drive(e) /\ Resolve(e) = Resolve(OutOf(p))
  <1> DEFINE f == FromRoot(p)
             v == Normalize(f)
             d == Normalize(p)
             e == IF LeafName(d) = Libs THEN CxxBranchPath(d) ELSE d
  <1>1. f \in Texts /\ f # Empty /\ IsAbsolute(f) /\ Resolve(f) = Resolve(p)
    BY FromRootIs
  <1>2. d \in Texts /\ d # Empty /\ Resolve(d) = Resolve(p)
    BY NormalizeSplit, NormalizeFirst, NormalResolve DEF Drive
  <1>3. ASSUME ~Drive(v) PROVE Resolve(d) = Resolve(v)
    <2> HIDE DEF f
    <2>1. Resolve(v) = Resolve(f)
      BY <1>1, <1>3, NormalResolve DEF Drive
    <2> QED BY <1>1, <1>2, <2>1
  <1>4. ASSUME ~Drive(OutOf(p))
        PROVE  e \in Texts /\ e # Empty /\ ~Drive(e) /\ Resolve(e) = Resolve(OutOf(p))
    <2>1. /\ v \in Texts /\ v # Empty /\ ~Drive(v) /\ Resolve(v) = Resolve(p)
          /\ LeafName(v) = Libs =>
                /\ OutOf(p) = BranchPath(v) /\ ~Drive(BranchPath(v)) /\ Split(f, "/") # <<>>
                /\ End(v) # "/" /\ Libs \in PathNames
          /\ LeafName(v) # Libs => OutOf(p) = v
      BY <1>4, OutOfIs
    <2>2. LeafName(d) = LeafName(v)
      <3>1. CASE IsAbsolute(p)
        BY <3>1 DEF FromRoot
      <3>2. CASE ~IsAbsolute(p)
        <4>1. Split(p, "/") # <<>> /\ Split(f, "/") # <<>> /\ LastName(f) = LastName(p)
          BY <3>2, FromRootNames
        <4>2. LeafName(d) = LastName(p)
          BY <4>1, NormalLeaf
        <4> HIDE DEF f
        <4>3. LeafName(v) = LastName(f)
          BY <1>1, <4>1, NormalLeaf
        <4> QED BY <4>1, <4>2, <4>3
      <3> QED BY <3>1, <3>2
    <2>3. CASE LeafName(v) # Libs
      <3>1. e = d
        BY <2>2, <2>3
      <3> QED BY <1>2, <2>1, <2>3, <3>1
    <2>4. CASE LeafName(v) = Libs
      <3>1. Split(p, "/") # <<>>
        BY <2>2, <2>4, NoNames
      <3>2. /\ End(d) # "/" /\ BranchPath(d) \in Texts /\ BranchPath(d) # Empty
            /\ Normalize(BranchPath(d)) = BranchPath(d)
        BY <3>1, NormalLeaf
      <3>3. e = BranchPath(d)
        BY <2>2, <2>4, <3>2 DEF CxxBranchPath
      <3>4. CASE IsAbsolute(p)
        <4>1. d = v
          BY <3>4 DEF FromRoot
        <4> QED BY <2>1, <2>4, <3>2, <3>3, <4>1
      <3>5. CASE ~IsAbsolute(p)
        <4>1. ~IsAbsolute(d)
          BY <3>5, RelativeStays
        <4> HIDE DEF d, v, f, e
        <4>2. ~Drive(BranchPath(d))
          BY <1>2, <4>1, DriveBranch DEF Drive
        <4>3. Resolve(BranchPath(d)) = Resolve(BranchPath(v))
          BY <1>2, <2>1, <2>2, <2>4, <3>2, <4>2, TwoBranches DEF Drive
        <4> QED BY <2>1, <2>4, <3>2, <3>3, <4>2, <4>3
      <3> QED BY <3>4, <3>5
    <2> QED BY <2>3, <2>4
  <1> HIDE DEF e
  <1> QED BY <1>2, <1>3, <1>4 DEF e

-----------------------------------------------------------------------------
(* The directory that was asked for *)

\* The -s that was asked for, and what the options leave in opts.srcdir.
AskedS == LastArg("s", Empty)
SrcdirAsked == IF ~Cxx THEN Normalize(AskedPath) ELSE IF AskedS = Empty THEN Empty ELSE AskedPath

LEMMA AskedPathIs ==
    ASSUME host \in Hosts, AskedS \in Texts
    PROVE  /\ AskedPath \in Texts /\ AskedPath # Empty
           /\ AskedS = Empty => /\ AskedPath = BranchPath(Normalize(Argv0))
                                /\ Normalize(AskedPath) = AskedPath
           /\ AskedS # Empty => AskedPath = IF host.windows THEN Entered(AskedS) ELSE AskedS
  <1>1. AskedPath = IF AskedS = Empty THEN BranchPath(Normalize(Argv0))
                    ELSE IF host.windows THEN Entered(AskedS) ELSE AskedS
    BY DEF AskedPath, AskedS
  <1> HIDE DEF AskedPath, AskedS
  <1>2. CASE AskedS = Empty
    <2> DEFINE w == Argv0
    <2>1. w \in Texts /\ w # Empty /\ End(w) # "/"
      BY Argv0Is DEF End
    <2> HIDE DEF w
    <2>2. Split(w, "/") # <<>>
      BY <2>1, LeafIs
    <2>3. /\ BranchPath(Normalize(w)) \in Texts /\ BranchPath(Normalize(w)) # Empty
          /\ Normalize(BranchPath(Normalize(w))) = BranchPath(Normalize(w))
      BY <2>1, <2>2, NormalLeaf
    <2> QED BY <1>1, <1>2, <2>3 DEF w
  <1>3. CASE AskedS # Empty
    <2>1. Entered(AskedS) \in Texts /\ Entered(AskedS) # Empty
      BY <1>3, EnteredIs
    <2> QED BY <1>1, <1>3, <2>1
  <1> QED BY <1>2, <1>3

LEMMA SameExists ==
    ASSUME NEW p, NEW q, Resolve(p) = Resolve(q)
    PROVE  Exists(p) = Exists(q)
  BY DEF Exists

\* Made absolute, a directory leads where it did.
LEMMA CxxMadeSame ==
    ASSUME host \in Hosts, NEW d \in Texts, d # Empty, ~Drive(d)
    PROVE  Resolve(CxxMakeAbsolute(d)) = Resolve(d)
  <1>1. CASE IsAbsolute(d)
    BY <1>1 DEF CxxMakeAbsolute
  <1>2. CASE ~IsAbsolute(d)
    <2> DEFINE a == ToAbsolute(host.cwd, d)
               t == Normalize(a)
    <2>1. a = FromRoot(d)
      BY <1>2 DEF FromRoot
    <2>2. CxxMakeAbsolute(d) = t
      BY <1>2 DEF CxxMakeAbsolute, CxxToAbsolute
    <2>3. a \in Texts /\ a # Empty /\ Resolve(a) = Resolve(d)
      BY <2>1, FromRootIs
    <2>4. IsAbsolute(t)
      <3>1. IsAbsolute(CxxToAbsolute(host.cwd, d))
        BY <1>2, DriveName, MadeAbsolute DEF Drive
      <3> QED BY <3>1 DEF CxxToAbsolute
    <2> HIDE DEF a
    <2>5. ~Drive(t)
      <3>1. ~IsAbsolute(<<"C:">>)
        BY DEF IsAbsolute
      <3> QED BY <2>4, <3>1 DEF Drive
    <2>6. Resolve(t) = Resolve(a)
      BY <2>3, <2>5, NormalResolve DEF Drive
    <2> QED BY <2>2, <2>3, <2>6
  <1> QED BY <1>1, <1>2

\* The directory a program takes leads where the one asked for does.
LEMMA DirIsAsked ==
    ASSUME host \in Hosts, AskedS \in Texts, opts.srcdir = SrcdirAsked, ~AtRoot
    PROVE  /\ ~AtDrive /\ Resolve(Dir) = Resolve(AskedDir) /\ Resolve(Told) = Resolve(AskedDir)
           /\ Exists(AppendTo(Dir, ProgName)) = Exists(AppendTo(AskedDir, ProgName))
  <1> DEFINE p == AskedPath
             f == FromRoot(p)
             v == Normalize(f)
             strips == ~Cxx \/ AskedS = Empty
  <1>1. /\ p \in Texts /\ p # Empty
        /\ AskedS = Empty => p = BranchPath(Normalize(Argv0)) /\ Normalize(p) = p
    BY AskedPathIs
  <1>2. AskedDir = IF strips THEN OutOf(p) ELSE v
    <2>1. AskedDir = IF strips /\ LeafName(v) = Libs THEN BranchPath(v) ELSE v
      BY DEF AskedDir, AskedS
    <2> QED BY <2>1 DEF OutOf, StripLibtool
  <1>3. ~Drive(Normalize(p)) /\ ~Drive(AskedDir)
    BY DEF AtRoot, Drive
  <1>4. f \in Texts /\ f # Empty
    BY <1>1, FromRootIs
  <1>5. v \in Texts /\ v # Empty
    <2> HIDE DEF f
    <2> QED BY <1>4, NormalizeSplit, NormalizeFirst
  <1>6. AskedDir \in Texts /\ AskedDir # Empty
    <2> HIDE DEF v
    <2>1. OutOf(p) \in {v, BranchPath(v)}
      BY DEF OutOf, StripLibtool, v
    <2> QED BY <1>2, <1>5, <2>1, BranchTyped
  <1> DEFINE d == Normalize(p)
             e == IF LeafName(d) = Libs THEN CxxBranchPath(d) ELSE d
  <1>7. CASE ~Cxx
    <2>1. opts.srcdir = d /\ Dir = StripLibtool(FromRoot(opts.srcdir))
      BY <1>7 DEF Dir, SourceDir, SrcdirAsked
    <2>2. Dir \in Texts /\ Dir # Empty /\ ~Drive(Dir) /\ Resolve(Dir) = Resolve(AskedDir)
      <3> HIDE DEF p
      <3>1. Dir = StripLibtool(FromRoot(Normalize(p))) /\ AskedDir = OutOf(p)
        BY <1>2, <1>7, <2>1
      <3> HIDE DEF d, Dir, AskedDir
      <3> QED BY <1>1, <1>3, <3>1, SameInC
    <2>3. Told = Dir
      BY <1>7 DEF Told
    <2> QED BY <1>3, <1>6, <2>2, <2>3, ProgNameIs, ResolveAppend, SameExists DEF Drive, AtDrive, Dir
  <1>8. CASE Cxx
    <2>1. Dir = CxxSourceDir
      BY <1>8 DEF Dir
    <2>2. Dir = IF AskedS = Empty THEN e ELSE d
      <3>1. CASE AskedS = Empty
        <4>1. opts.srcdir = Empty
          BY <1>8, <3>1 DEF SrcdirAsked
        <4>2. CxxBranchPath(Normalize(Argv0)) = d
          BY <1>1, <3>1 DEF CxxBranchPath
        <4> QED BY <2>1, <3>1, <4>1, <4>2 DEF CxxSourceDir
      <3>2. CASE AskedS # Empty
        <4>1. opts.srcdir = p
          BY <1>8, <3>2 DEF SrcdirAsked
        <4> QED BY <1>1, <2>1, <3>2, <4>1 DEF CxxSourceDir
      <3> QED BY <3>1, <3>2
    <2>3. /\ d \in Texts /\ d # Empty /\ (~Drive(v) => Resolve(d) = Resolve(v))
          /\ ~Drive(OutOf(p)) => e \in Texts /\ e # Empty /\ ~Drive(e) /\ Resolve(e) = Resolve(OutOf(p))
      BY <1>1, <1>3, SameInCxx
    <2> HIDE DEF d, e, v
    <2>4. Dir \in Texts /\ Dir # Empty /\ ~Drive(Dir) /\ Resolve(Dir) = Resolve(AskedDir)
      BY <1>2, <1>3, <1>8, <2>2, <2>3 DEF d
    <2>5. Told = CxxMakeAbsolute(Dir)
      BY <1>8 DEF Told
    <2>6. Resolve(Told) = Resolve(Dir)
      BY <2>4, <2>5, CxxMadeSame
    <2> QED BY <1>3, <1>6, <2>4, <2>6, ProgNameIs, ResolveAppend, SameExists DEF Drive, AtDrive, Dir
  <1> QED BY <1>7, <1>8

-----------------------------------------------------------------------------
(* What a map says *)

LEMMA HasKey ==
    ASSUME NEW m \in Maps, NEW k
    PROVE  k \in Keys(m) <=> Has(m, k)
  <1>1. DOMAIN m = 1..Len(m) /\ Len(m) \in Nat
    BY MapTyped
  <1>2. /\ Find(m, k) \in 0..Len(m)
        /\ Find(m, k) # 0 => m[Find(m, k)][1] = k
        /\ \A i \in 1..Len(m) : m[i][1] = k => Find(m, k) # 0
    BY FindIs
  <1> DEFINE f == Find(m, k)
  <1> HIDE DEF f
  <1>3. f # 0 => f \in 1..Len(m)
    BY <1>1, <1>2 DEF f
  <1>4. ASSUME k \in Keys(m) PROVE f # 0
    <2>1. PICK i \in 1..Len(m) : m[i][1] = k
      BY <1>1, <1>4 DEF Keys
    <2> QED BY <1>2, <2>1 DEF f
  <1>5. ASSUME f # 0 PROVE k \in Keys(m)
    BY <1>1, <1>2, <1>3, <1>5 DEF Keys, f
  <1> QED BY <1>4, <1>5 DEF Has, f

\* A value inserted leaves the other keys theirs.
LEMMA InsertTable ==
    ASSUME NEW m \in Maps, NEW k \in Texts, NEW v \in Texts
    PROVE  LET u == Insert(m, k, v)
           IN  /\ Keys(u) = Keys(m) \cup {k}
               /\ Value(u, k) = v
               /\ \A key : key # k /\ key \in Keys(m) => Value(u, key) = Value(m, key)
  <1> DEFINE kv == <<k, v>>
             n == Len(m)
             f == Find(m, k)
             u == Insert(m, k, v)
             is(t, key) == {i \in DOMAIN t : t[i][1] = key}
  <1>1. /\ m \in Seq(Entries) /\ n \in Nat /\ DOMAIN m = 1..n
        /\ f \in 0..n /\ (f # 0 => m[f][1] = k)
        /\ \A i \in 1..n : m[i][1] = k => f # 0
    BY MapTyped, FindIs
  <1>2. kv \in Entries /\ kv[1] = k /\ kv[2] = v
    BY DEF Entries
  <1> HIDE DEF kv
  <1>3. Value(u, k) = v
    BY InsertIs
  <1>4. \A t, key : Find(t, key) = IF is(t, key) = {} THEN 0 ELSE Min(is(t, key))
    BY DEF Find
  <1>5. Keys(u) = Keys(m) \cup {k} /\ \A key : key # k => is(u, key) = is(m, key) /\ \A i \in is(m, key) : u[i] = m[i]
    <2>1. CASE f # 0
      <3>1. u = [m EXCEPT ![f] = kv]
        BY <2>1 DEF Insert, Has, kv
      <3>2. f \in 1..n
        BY <1>1, <2>1
      <3> HIDE DEF f, n, u
      <3>3. m \in [1..n -> Entries]
        BY <1>1 DEF n
      <3>4. u \in [1..n -> Entries] /\ u[f] = kv /\ \A i \in 1..n : i # f => u[i] = m[i]
        BY <1>2, <3>1, <3>2, <3>3
      <3>5. \A i \in 1..n : u[i][1] = m[i][1] /\ (m[i][1] # k => u[i] = m[i])
        <4> TAKE i \in 1..n
        <4>1. CASE i = f
          BY <1>1, <1>2, <2>1, <3>4, <4>1
        <4>2. CASE i # f
          BY <3>4, <4>2
        <4> QED BY <4>1, <4>2
      <3>6. DOMAIN u = 1..n /\ m[f][1] = k
        BY <1>1, <2>1, <3>4
      <3>7. Keys(u) = Keys(m) \cup {k}
        BY <1>1, <3>2, <3>5, <3>6 DEF Keys
      <3>8. ASSUME NEW key, key # k
            PROVE  is(u, key) = is(m, key) /\ \A i \in is(m, key) : u[i] = m[i]
        <4>1. is(u, key) = is(m, key)
          BY <1>1, <3>5, <3>6
        <4>2. \A i \in is(m, key) : i \in 1..n /\ m[i][1] # k
          BY <1>1, <3>8
        <4> QED BY <3>5, <4>1, <4>2
      <3> QED BY <3>7, <3>8 DEF u
    <2>2. CASE f = 0
      <3>1. u = Append(m, kv)
        BY <2>2 DEF Insert, Has, kv
      <3> HIDE DEF f, n, u
      <3>2. /\ u \in Seq(Entries) /\ Len(u) = n + 1 /\ u[n + 1] = kv
            /\ \A i \in 1..n : u[i] = m[i]
        BY <1>1, <1>2, <3>1, Appended DEF n
      <3>3. DOMAIN u = 1..(n + 1)
        BY <3>2
      <3>4. \A i : i \in 1..(n + 1) <=> i \in 1..n \/ i = n + 1
        BY <1>1
      <3>5. Keys(u) = Keys(m) \cup {k}
        <4>1. \A key : key \in Keys(u) <=> \E i \in 1..(n + 1) : u[i][1] = key
          BY <3>3 DEF Keys
        <4>2. \A key : key \in Keys(m) <=> \E i \in 1..n : m[i][1] = key
          BY <1>1 DEF Keys
        <4>3. \A key : key \in Keys(u) <=> key \in Keys(m) \/ key = k
          <5> TAKE key
          <5>1. ASSUME NEW i \in 1..(n + 1), u[i][1] = key PROVE key \in Keys(m) \/ key = k
            BY <1>2, <3>2, <3>4, <4>2, <5>1
          <5>2. ASSUME NEW i \in 1..n, m[i][1] = key PROVE key \in Keys(u)
            BY <3>2, <3>4, <4>1, <5>2
          <5>3. k \in Keys(u)
            BY <1>2, <3>2, <3>4, <4>1
          <5> QED BY <4>1, <4>2, <5>1, <5>2, <5>3
        <4> QED BY <4>3
      <3>6. ASSUME NEW key, key # k
            PROVE  is(u, key) = is(m, key) /\ \A i \in is(m, key) : u[i] = m[i]
        <4>1. \A i : i \in is(u, key) <=> i \in is(m, key)
          <5> TAKE i
          <5>1. i \in is(u, key) <=> i \in 1..(n + 1) /\ u[i][1] = key
            BY <3>3
          <5>2. i \in is(m, key) <=> i \in 1..n /\ m[i][1] = key
            BY <1>1
          <5>3. i = n + 1 => u[i][1] # key
            BY <1>2, <3>2, <3>6
          <5>4. i \in 1..n => u[i][1] = m[i][1]
            BY <3>2
          <5> QED BY <3>4, <5>1, <5>2, <5>3, <5>4
        <4>2. \A i \in is(m, key) : i \in 1..n
          BY <1>1
        <4> QED BY <3>2, <4>1, <4>2
      <3> QED BY <3>5, <3>6 DEF u
    <2> QED BY <2>1, <2>2
  <1>6. ASSUME NEW key, key # k, key \in Keys(m) PROVE Value(u, key) = Value(m, key)
    <2> DEFINE g == Find(m, key)
    <2>1. g # 0 /\ g \in 0..Len(m) /\ m[g][1] = key
      BY <1>6, HasKey, FindIs DEF Has
    <2>2. g \in is(m, key)
      <3>1. g \in 1..n
        BY <1>1, <2>1
      <3> QED BY <1>1, <2>1, <3>1
    <2>3. Find(u, key) = g
      BY <1>4, <1>5, <1>6
    <2>4. u[g] = m[g]
      BY <1>5, <1>6, <2>2
    <2> HIDE DEF u, g
    <2> QED BY <2>3, <2>4 DEF Value, g
  <1> HIDE DEF u
  <1> QED BY <1>3, <1>5, <1>6 DEF u

\* The first i entries of kvs have been entered into base.
Entered0(base, kvs, i, u) ==
    LET is(key) == {j \in 1..i : kvs[j][1] = key}
    IN  /\ \A key : key \in Keys(u) <=> key \in Keys(base) \/ is(key) # {}
        /\ \A key : /\ is(key) # {} => Value(u, key) = kvs[Max(is(key))][2]
                    /\ is(key) = {} /\ key \in Keys(base) => Value(u, key) = Value(base, key)
        /\ Distinct(base) => Distinct(u)

\* The last entry of a key counts, and one that is in none keeps its value.
LEMMA InsertAllIs ==
    ASSUME NEW base \in Maps, NEW kvs \in Seq(Entries)
    PROVE  LET u == InsertAll(base, kvs)
           IN  /\ u \in Maps /\ Keys(u) = Keys(base) \cup Keys(kvs)
               /\ \A key \in Keys(kvs) : Value(u, key) = LastOf(kvs, key)
               /\ \A key \in Keys(base) : key \notin Keys(kvs) => Value(u, key) = Value(base, key)
               /\ Distinct(base) => Distinct(u)
  <1> DEFINE n == Len(kvs)
  <1>1. n \in Nat /\ n \in 0..n /\ DOMAIN kvs = 1..n /\ \A i \in 1..n : kvs[i] \in Entries
    BY Typed
  <1> HIDE DEF n
  <1>2. PICK c \in Entering(base, kvs) : InsertAll(base, kvs) = c[n]
    BY EnterChain DEF n
  <1>3. /\ c \in [0..n -> Maps] /\ c[0] = base
        /\ \A i \in 1..n : c[i] = InsertEntry(c[i - 1], kvs[i])
    BY <1>2 DEF Entering, n
  <1> DEFINE T == {i \in 0..n : Entered0(base, kvs, i, c[i])}
  <1>4. 0 \in T
    <2>1. 1..0 = {} /\ 0 \in 0..n
      BY <1>1
    <2> QED BY <1>3, <2>1 DEF Entered0
  <1>5. ASSUME NEW i \in 0..n, i \in T, i < n PROVE i + 1 \in T
    <2> DEFINE m == c[i]
               k == kvs[i + 1][1]
               v == kvs[i + 1][2]
               u == Insert(m, k, v)
               old(key) == {j \in 1..i : kvs[j][1] = key}
               new(key) == {j \in 1..(i + 1) : kvs[j][1] = key}
    <2>1. i + 1 \in 0..n /\ i + 1 \in 1..n /\ (i + 1) - 1 = i /\ i \in Nat /\ i + 1 \in Nat
      BY <1>1, <1>5
    <2>2. m \in Maps /\ k \in Texts /\ v \in Texts /\ c[i + 1] = u
      <3>1. kvs[i + 1] \in Entries /\ c[i] \in Maps /\ c[i + 1] = InsertEntry(c[i], kvs[i + 1])
        BY <1>1, <1>3, <2>1
      <3> QED BY <3>1 DEF Entries, InsertEntry
    <2>3. /\ \A key : key \in Keys(m) <=> key \in Keys(base) \/ old(key) # {}
          /\ \A key : /\ old(key) # {} => Value(m, key) = kvs[Max(old(key))][2]
                      /\ old(key) = {} /\ key \in Keys(base) => Value(m, key) = Value(base, key)
          /\ Distinct(base) => Distinct(m)
      BY <1>5 DEF Entered0
    <2>4. /\ Keys(u) = Keys(m) \cup {k} /\ Value(u, k) = v
          /\ (\A key : key # k /\ key \in Keys(m) => Value(u, key) = Value(m, key))
          /\ Distinct(m) => Distinct(u)
      <3> HIDE DEF m, k, v
      <3> QED BY <2>2, InsertTable, InsertIs
    <2>5. i + 1 \in new(k) /\ Max(new(k)) = i + 1
      <3>1. i + 1 \in new(k) /\ new(k) \in SUBSET (1..(i + 1))
        BY <2>1
      <3> HIDE DEF new
      <3> QED BY <2>1, <3>1, MaxIs
    <2>6. \A key : key # k => new(key) = old(key)
      <3> TAKE key
      <3> HAVE key # k
      <3>1. \A j : j \in 1..(i + 1) <=> j \in 1..i \/ j = i + 1
        BY <2>1
      <3>2. \A j : j \in new(key) <=> j \in old(key)
        BY <3>1
      <3> QED BY <3>2
    <2>7. kvs[i + 1][2] = v
      OBVIOUS
    <2> HIDE DEF m, k, v, u, old, new
    <2>8. \A key : key \in Keys(u) <=> key \in Keys(base) \/ new(key) # {}
      <3> TAKE key
      <3>1. CASE key = k
        BY <2>4, <2>5, <3>1
      <3>2. CASE key # k
        BY <2>3, <2>4, <2>6, <3>2
      <3> QED BY <3>1, <3>2
    <2>9. ASSUME NEW key
          PROVE  /\ new(key) # {} => Value(u, key) = kvs[Max(new(key))][2]
                 /\ new(key) = {} /\ key \in Keys(base) => Value(u, key) = Value(base, key)
      <3>1. CASE key = k
        BY <2>4, <2>5, <2>7, <3>1
      <3>2. CASE key # k
        <4>1. new(key) = old(key)
          BY <2>6, <3>2
        <4>2. new(key) # {} => Value(u, key) = Value(m, key) /\ Value(m, key) = kvs[Max(new(key))][2]
          BY <2>3, <2>4, <3>2, <4>1
        <4>3. new(key) = {} /\ key \in Keys(base) => Value(u, key) = Value(m, key) /\ Value(m, key) = Value(base, key)
          BY <2>3, <2>4, <3>2, <4>1
        <4> QED BY <4>2, <4>3
      <3> QED BY <3>1, <3>2
    <2>10. Entered0(base, kvs, i + 1, u)
      BY <2>3, <2>4, <2>8, <2>9 DEF Entered0, new
    <2> QED BY <2>1, <2>2, <2>10
  <1> HIDE DEF T
  <1>6. \A i \in 0..n : i \in T
    BY <1>1, <1>4, <1>5, StepsUpTo
  <1>7. Entered0(base, kvs, n, c[n]) /\ c[n] \in Maps
    BY <1>1, <1>3, <1>6 DEF T
  <1> DEFINE u == c[n]
             is(key) == {j \in 1..n : kvs[j][1] = key}
  <1>8. /\ \A key : key \in Keys(u) <=> key \in Keys(base) \/ is(key) # {}
        /\ \A key : /\ is(key) # {} => Value(u, key) = kvs[Max(is(key))][2]
                    /\ is(key) = {} /\ key \in Keys(base) => Value(u, key) = Value(base, key)
        /\ Distinct(base) => Distinct(u)
    BY <1>7 DEF Entered0
  <1>9. \A key : key \in Keys(kvs) <=> is(key) # {}
    BY <1>1 DEF Keys
  <1>10. \A key : LastOf(kvs, key) = kvs[Max(is(key))][2]
    BY <1>1 DEF LastOf
  <1> HIDE DEF is, u
  <1>11. Keys(u) = Keys(base) \cup Keys(kvs)
    BY <1>8, <1>9
  <1> QED BY <1>2, <1>7, <1>8, <1>9, <1>10, <1>11 DEF u

-----------------------------------------------------------------------------
(* What a turn of the option loop does *)

\* The ways in which an option is to fail.
Fault(o) ==
    IF o.flag \notin WantArg THEN IF o.flag = "l" THEN {} ELSE {"usage"}
    ELSE IF o.arg = NoArg THEN {"usage"}
    ELSE CASE o.flag = "v" /\ Places(o.arg, "=") = {} -> {IF Cxx THEN "thrown" ELSE "usage"}
           [] o.flag = "r" /\ o.arg = Empty -> {"abort"}
           [] o.flag = "s" /\ o.arg = Empty /\ ~Cxx -> {"abort"}
           [] OTHER -> {}

\* Both mains read it alike.
Clear(o) == Cxx /\ o.flag = "v" /\ o.arg # NoArg => Plain(o.arg) \/ Places(o.arg, "=") = {}

\* What an option that is taken sets.
Heeded(o) ==
    /\ opts'.list <=> opts.list \/ o.flag = "l"
    /\ opts'.resfile = IF o.flag = "r" THEN Normalize(Reached(o).arg) ELSE opts.resfile
    /\ opts'.srcdir = IF o.flag # "s" THEN opts.srcdir
                      ELSE IF Cxx THEN Reached(o).arg ELSE Normalize(Reached(o).arg)
    /\ o.flag = "r" \/ (o.flag = "s" /\ ~Cxx) => o.arg # Empty
    /\ o.flag # "v" => config' = config
    /\ Clear(o) /\ o.flag = "v" => config' = Insert(config, VarOf(o.arg), ValueOf(o.arg))
    /\ o.flag \in WantArg => o.arg # NoArg
    /\ Clear(o) => Fault(o) = {}

Refused(o) == Clear(o) => outcome' \in Fault(o)

HeedsOrRefuses(o) ==
    \/ pc' = "options" /\ Heeded(o)
    \/ pc' = "ended" /\ Refused(o)

LEMMA TwoWords ==
    ASSUME NEW u, NEW v
    PROVE  <<u>> \o <<v>> = <<u, v>>
  <1> DEFINE S == {u, v}
  <1>1. <<u>> \in Seq(S) /\ <<v>> \in Seq(S) /\ <<u, v>> \in Seq(S)
    OBVIOUS
  <1>2. Len(<<u>>) = 1 /\ Len(<<v>>) = 1 /\ Len(<<u, v>>) = 2
    OBVIOUS
  <1>3. <<u>>[1] = u /\ <<v>>[1] = v /\ <<u, v>>[1] = u /\ <<u, v>>[2] = v
    OBVIOUS
  <1> HIDE DEF S
  <1> DEFINE s == <<u>> \o <<v>>
             t == <<u, v>>
  <1>4. s \in Seq(S) /\ Len(s) = 2 /\ s[1] = u /\ s[2] = v
    <2>1. Joins(S, <<u>>, <<v>>, s)
      BY <1>1, Concat
    <2>2. s \in Seq(S) /\ Len(s) = 1 + 1
      BY <1>2, <2>1 DEF Joins
    <2>3. s[1] = u
      BY <1>2, <1>3, <2>1 DEF Joins
    <2>4. s[1 + 1] = v
      BY <1>2, <1>3, <2>1 DEF Joins
    <2> QED BY <2>2, <2>3, <2>4
  <1>5. t \in Seq(S) /\ Len(t) = 2 /\ t[1] = u /\ t[2] = v
    BY <1>1, <1>2, <1>3
  <1> HIDE DEF s, t
  <1>6. \A i \in 1..Len(s) : s[i] = t[i]
    BY <1>4, <1>5
  <1>7. s = t
    BY <1>4, <1>5, <1>6, Same
  <1> QED BY <1>7 DEF s, t

LEMMA PlacesIs ==
    ASSUME NEW w \in Texts, NEW b
    PROVE  FindCh(w, b) = 0 <=> Places(w, b) = {}
  <1>1. Len(w) \in Nat /\ DOMAIN w = 1..Len(w)
    BY TextTyped
  <1>2. /\ FindCh(w, b) \in 0..Len(w)
        /\ FindCh(w, b) # 0 => w[FindCh(w, b)] = b
        /\ FindCh(w, b) = 0 => \A i \in 1..Len(w) : w[i] # b
    BY FindChFirst
  <1> DEFINE f == FindCh(w, b)
  <1> HIDE DEF f
  <1>3. f \in 0..Len(w) /\ (f # 0 => w[f] = b) /\ (f = 0 => \A i \in 1..Len(w) : w[i] # b)
    BY <1>2 DEF f
  <1>4. f = 0 <=> Places(w, b) = {}
    BY <1>1, <1>3 DEF Places
  <1> QED BY <1>4 DEF f

\* A variable of C is what is before the first "=".
LEMMA ParseVflagIs ==
    ASSUME NEW w \in Texts, ParseVflag(w)
    PROVE  IF Places(w, "=") = {} THEN Fail("usage")
           ELSE Took(opts, Insert(config, VarOf(w), ValueOf(w)))
  BY PlacesIs DEF ParseVflag, VarOf, ValueOf

\* So it is in C++, when there is one "=".
LEMMA CxxParseVflagIs ==
    ASSUME NEW w \in Texts, Plain(w) \/ Places(w, "=") = {}, CxxParseVflag(w)
    PROVE  IF Places(w, "=") = {} THEN Fail("thrown")
           ELSE Took(opts, Insert(config, VarOf(w), ValueOf(w)))
  <1> DEFINE ws == Split(w, "=")
  <1>1. /\ Len(ws) = 1 /\ Last(w) = "=" => Took(opts, Insert(config, ws[1], Empty))
        /\ Len(ws) = 2 => Took(opts, Insert(config, ws[1], ws[2]))
        /\ ~(Len(ws) = 1 /\ Last(w) = "=") /\ Len(ws) # 2 => Fail("thrown")
    BY DEF CxxParseVflag
  <1>2. Len(w) \in Nat /\ DOMAIN w = 1..Len(w) /\ w \in Seq(Tokens)
    BY TextTyped
  <1> HIDE DEF ws
  <1>3. CASE Places(w, "=") = {}
    <2>1. \A i \in 1..Len(w) : w[i] # "="
      BY <1>2, <1>3 DEF Places
    <2>2. Len(ws) < 2 /\ ~(Len(ws) = 1 /\ Last(w) = "=")
      <3>1. CASE w = Empty
        BY <3>1, SplitEmpty DEF ws
      <3>2. CASE w # Empty
        <4>1. w \in NamesOf("=")
          BY <2>1, <3>2 DEF NamesOf, Empty
        <4>2. ws = <<w>>
          BY <4>1, SplitOne DEF ws
        <4>3. Last(w) # "="
          BY <1>2, <2>1, <3>2 DEF Last, Empty
        <4> QED BY <4>2, <4>3
      <3> QED BY <3>1, <3>2
    <2> QED BY <1>1, <1>3, <2>2
  <1>4. CASE Plain(w)
    <2>1. PICK e \in 2..Len(w) : Places(w, "=") = {e}
      BY <1>4 DEF Plain
    <2>2. e \in 1..Len(w) /\ w[e] = "=" /\ (\A i \in 1..Len(w) : i # e => w[i] # "=") /\ e \in Nat
      BY <1>2, <2>1 DEF Places
    <2>3. FindCh(w, "=") = e
      <3>1. FindCh(w, "=") \in 0..Len(w) /\ (FindCh(w, "=") # 0 => w[FindCh(w, "=")] = "=")
        BY FindChFirst
      <3>2. FindCh(w, "=") # 0
        BY <2>1, PlacesIs
      <3> QED BY <2>2, <3>1, <3>2
    <2> DEFINE u == Before(w, e)
               v == After(w, e)
    <2>4. /\ u \in Texts /\ Len(u) = e - 1 /\ \A j \in 1..(e - 1) : u[j] = w[j]
          /\ v \in Texts /\ Len(v) = Len(w) - e /\ \A j \in 1..(Len(w) - e) : v[j] = w[e + j]
      <3> HIDE DEF u, v
      <3>1. /\ Before(w, e) \in Seq(Tokens) /\ Len(Before(w, e)) = e - 1
            /\ \A j \in 1..(e - 1) : Before(w, e)[j] = w[j]
        BY <1>2, <2>2, BeforeIs, SMTT(30)
      <3>2. /\ After(w, e) \in Seq(Tokens) /\ Len(After(w, e)) = Len(w) - e
            /\ \A j \in 1..(Len(w) - e) : After(w, e)[j] = w[e + j]
        <4>1. e \in 0..Len(w)
          BY <1>2, <2>2
        <4> QED BY <1>2, <4>1, AfterIs, Zenon
      <3> QED BY <3>1, <3>2 DEF u, v, Texts
    <2>5. "=" \in Tokens
      BY <1>2, <2>2
    <2>6. w = (u \o <<"=">>) \o v
      BY <2>2, <2>5, CutAt
    <2> HIDE DEF u, v
    <2>7. ws = Split(u, "=") \o Split(v, "=")
      BY <2>4, <2>5, <2>6, SplitConcat DEF ws
    <2>8. Split(u, "=") = <<u>>
      <3>1. u # <<>> /\ \A i \in 1..Len(u) : u[i] # "="
        BY <1>2, <2>1, <2>2, <2>4
      <3>2. u \in NamesOf("=")
        BY <2>4, <3>1 DEF NamesOf
      <3> QED BY <3>2, SplitOne
    <2>9. VarOf(w) = u /\ ValueOf(w) = v
      BY <2>3 DEF VarOf, ValueOf, u, v
    <2>10. CASE e = Len(w)
      <3>1. v = Empty
        BY <1>2, <2>4, <2>10, TextTyped DEF Empty
      <3>2. ws = <<u>>
        <4>1. ws = <<u>> \o <<>>
          BY <2>7, <2>8, <3>1, SplitEmpty
        <4>2. <<u>> \o <<>> = <<u>>
          OBVIOUS
        <4> QED BY <4>1, <4>2
      <3>3. Last(w) = "="
        BY <2>2, <2>10 DEF Last
      <3> QED BY <1>1, <2>1, <2>9, <3>1, <3>2, <3>3
    <2>11. CASE e # Len(w)
      <3>1. v # <<>> /\ \A i \in 1..Len(v) : v[i] # "="
        <4>1. Len(v) = Len(w) - e /\ Len(w) - e > 0
          <5>1. Len(v) = Len(w) - e
            BY <2>4
          <5>2. e <= Len(w) /\ e # Len(w) /\ e \in Nat /\ Len(w) \in Nat
            <6>1. Len(w) \in Nat /\ e # Len(w)
              BY <1>2, <2>11, Zenon
            <6>2. e \in 1..Len(w)
              BY <2>2
            <6> QED BY <6>1, <6>2, SMTT(30)
          <5>3. Len(w) - e > 0
            BY <5>2
          <5> QED BY <5>1, <5>3
        <4>2. \A i \in 1..(Len(w) - e) : e + i \in 1..Len(w) /\ e + i # e
          BY <1>2, <2>2
        <4>3. \A i \in 1..Len(v) : v[i] # "="
          BY <2>2, <2>4, <4>1, <4>2
        <4>4. v # <<>>
          BY <4>1
        <4> QED BY <4>3, <4>4
      <3>2. v \in NamesOf("=")
        BY <2>4, <3>1 DEF NamesOf
      <3>3. Split(v, "=") = <<v>>
        BY <3>2, SplitOne
      <3>4. ws = <<u, v>>
        <4>1. ws = <<u>> \o <<v>>
          BY <2>7, <2>8, <3>3
        <4>2. <<u>> \o <<v>> = <<u, v>>
          BY TwoWords
        <4> QED BY <4>1, <4>2
      <3> QED BY <1>1, <2>1, <2>9, <3>4
    <2> QED BY <2>10, <2>11
  <1> QED BY <1>3, <1>4

\* What an option that both loops take alike sets.
LEMMA TakesIs ==
    ASSUME NEW g, opts \in Params, Takes(g)
    PROVE  /\ g.c = "l" => /\ pc' = "options" /\ config' = config /\ opts'.list
                           /\ opts'.resfile = opts.resfile /\ opts'.srcdir = opts.srcdir
           /\ g.c = "r" /\ g.arg # Empty => /\ pc' = "options" /\ config' = config
                                            /\ opts'.list = opts.list
                                            /\ opts'.resfile = Normalize(g.arg)
                                            /\ opts'.srcdir = opts.srcdir
           /\ g.c \in {"?", ":"} => pc' = "ended" /\ outcome' = "usage"
           /\ g.c \notin {"l", "?", ":"} /\ ~(g.c = "r" /\ g.arg # Empty) =>
                 pc' = "ended" /\ outcome' = "abort"
  <1>1. CASE g.c = "l"
    <2>1. Took([opts EXCEPT !.list = TRUE], config)
      BY <1>1 DEF Takes
    <2> QED BY <1>1, <2>1 DEF Took, Goto, Params
  <1>2. CASE g.c = "r" /\ g.arg # Empty
    <2> DEFINE n == Normalize(g.arg)
    <2>1. Took([opts EXCEPT !.resfile = n], config)
      BY <1>2 DEF Takes
    <2> HIDE DEF n
    <2>2. /\ pc' = "options" /\ config' = config /\ opts'.list = opts.list
          /\ opts'.resfile = n /\ opts'.srcdir = opts.srcdir
      BY <2>1 DEF Took, Goto, Params
    <2> QED BY <1>2, <2>2 DEF n
  <1>3. CASE g.c \in {"?", ":"}
    <2>1. Fail("usage")
      BY <1>3 DEF Takes
    <2> QED BY <1>3, <2>1 DEF Fail, Finish
  <1>4. CASE g.c \notin {"l", "?", ":"} /\ ~(g.c = "r" /\ g.arg # Empty)
    <2>1. Fail("abort")
      BY <1>4 DEF Takes
    <2> QED BY <1>4, <2>1 DEF Fail, Finish
  <1> QED BY <1>1, <1>2, <1>3, <1>4

\* A turn of either loop heeds the option, or refuses it for its fault.
LEMMA OptionTurn ==
    ASSUME host \in Hosts, opts \in Params, Option \/ CxxOption, NEW o \in Opts,
           GetOpt.c = Answer(o),
           o.flag \in WantArg /\ o.arg # NoArg => GetOpt.arg = Reached(o).arg
    PROVE  HeedsOrRefuses(o)
  <1> DEFINE g == GetOpt
             r == Reached(o).arg
             inC == [opts EXCEPT !.srcdir = Normalize(g.arg)]
             inCxx == [opts EXCEPT !.srcdir = g.arg]
  <1>1. /\ ~Cxx /\ g.c = "s" /\ g.arg # Empty => Took(inC, config)
        /\ Cxx /\ g.c = "s" => Took(inCxx, config)
        /\ ~Cxx /\ g.c = "v" => ParseVflag(g.arg)
        /\ Cxx /\ g.c = "v" => CxxParseVflag(g.arg)
        /\ g.c # "v" /\ g.c # "s" => Takes(g)
        /\ ~Cxx /\ g.c = "s" /\ g.arg = Empty => Takes(g)
    BY DEF Option, CxxOption
  <1>2. /\ o.arg \in Texts /\ r \in Texts /\ (r = Empty <=> o.arg = Empty)
        /\ o.flag = "v" => r = o.arg
    BY ReachedIs DEF Opts
  <1> HIDE DEF g
  <1>3. /\ g.c = Answer(o)
        /\ o.flag \in WantArg /\ o.arg # NoArg => g.arg = r
    BY DEF g
  <1> HIDE DEF inC, inCxx, r
  <1>4. CASE o.flag = "l"
    <2>1. g.c = "l" /\ Fault(o) = {}
      BY <1>3, <1>4 DEF Answer, WantArg, Fault
    <2>2. Takes(g)
      BY <1>1, <2>1
    <2>3. /\ pc' = "options" /\ config' = config /\ opts'.list
          /\ opts'.resfile = opts.resfile /\ opts'.srcdir = opts.srcdir
      BY <2>1, <2>2, TakesIs
    <2> QED BY <1>4, <2>1, <2>3 DEF HeedsOrRefuses, Heeded, WantArg
  <1>5. CASE (o.flag \notin WantArg /\ o.flag # "l") \/ (o.flag \in WantArg /\ o.arg = NoArg)
    <2>1. g.c \in {"?", ":"} /\ Fault(o) = {"usage"}
      BY <1>3, <1>5 DEF Answer, Fault
    <2>2. Takes(g)
      BY <1>1, <2>1
    <2>3. pc' = "ended" /\ outcome' = "usage"
      BY <2>1, <2>2, TakesIs
    <2> QED BY <2>1, <2>3 DEF HeedsOrRefuses, Refused
  <1>6. CASE o.flag = "r" /\ o.arg # NoArg
    <2>1. g.c = "r" /\ g.arg = r
      BY <1>3, <1>6 DEF Answer, WantArg
    <2>2. Takes(g)
      BY <1>1, <2>1
    <2>3. CASE o.arg # Empty
      <3>1. /\ pc' = "options" /\ config' = config /\ opts'.list = opts.list
            /\ opts'.resfile = Normalize(r) /\ opts'.srcdir = opts.srcdir
        BY <1>2, <2>1, <2>2, <2>3, TakesIs
      <3>2. Fault(o) = {}
        BY <1>6, <2>3 DEF Fault, WantArg
      <3> QED BY <1>6, <2>3, <3>1, <3>2 DEF HeedsOrRefuses, Heeded, r
    <2>4. CASE o.arg = Empty
      <3>1. pc' = "ended" /\ outcome' = "abort"
        BY <1>2, <2>1, <2>2, <2>4, TakesIs
      <3>2. Fault(o) = {"abort"}
        BY <1>6, <2>4 DEF Fault, WantArg
      <3> QED BY <3>1, <3>2 DEF HeedsOrRefuses, Refused
    <2> QED BY <2>3, <2>4
  <1>7. CASE o.flag = "s" /\ o.arg # NoArg
    <2>1. g.c = "s" /\ g.arg = r
      BY <1>3, <1>7 DEF Answer, WantArg
    <2>2. CASE Cxx
      <3>1. Took(inCxx, config)
        BY <1>1, <2>1, <2>2
      <3>2. /\ pc' = "options" /\ config' = config /\ opts'.list = opts.list
            /\ opts'.resfile = opts.resfile /\ opts'.srcdir = r
        BY <2>1, <3>1 DEF Took, Goto, Params, inCxx
      <3>3. Fault(o) = {}
        BY <1>7, <2>2 DEF Fault, WantArg
      <3> QED BY <1>7, <2>2, <3>2, <3>3 DEF HeedsOrRefuses, Heeded, r
    <2>3. CASE ~Cxx /\ o.arg # Empty
      <3>1. Took(inC, config)
        BY <1>1, <1>2, <2>1, <2>3
      <3> DEFINE n == Normalize(r)
      <3>2. inC = [opts EXCEPT !.srcdir = n]
        BY <2>1 DEF inC
      <3> HIDE DEF n
      <3>3. /\ pc' = "options" /\ config' = config /\ opts'.list = opts.list
            /\ opts'.resfile = opts.resfile /\ opts'.srcdir = n
        BY <3>1, <3>2 DEF Took, Goto, Params
      <3>4. Fault(o) = {}
        BY <1>7, <2>3 DEF Fault, WantArg
      <3>5. n = Normalize(Reached(o).arg)
        BY DEF n, r
      <3> QED BY <1>7, <2>3, <3>3, <3>4, <3>5 DEF HeedsOrRefuses, Heeded
    <2>4. CASE ~Cxx /\ o.arg = Empty
      <3>1. Takes(g)
        BY <1>1, <1>2, <2>1, <2>4
      <3>2. pc' = "ended" /\ outcome' = "abort"
        BY <2>1, <3>1, TakesIs
      <3>3. Fault(o) = {"abort"}
        BY <1>7, <2>4 DEF Fault, WantArg
      <3> QED BY <3>2, <3>3 DEF HeedsOrRefuses, Refused
    <2> QED BY <2>2, <2>3, <2>4
  <1>8. CASE o.flag = "v" /\ o.arg # NoArg
    <2> DEFINE w == o.arg
               none == Places(w, "=") = {}
               c == Insert(config, VarOf(w), ValueOf(w))
               how == IF Cxx THEN "thrown" ELSE "usage"
    <2>1. g.c = "v" /\ g.arg = w
      BY <1>2, <1>3, <1>8 DEF Answer, WantArg
    <2>2. Fault(o) = IF none THEN {how} ELSE {}
      BY <1>8 DEF Fault, WantArg
    <2>3. w \in Texts
      BY <1>2
    <2>4. Clear(o) => IF none THEN Fail(how) ELSE Took(opts, c)
      <3>1. CASE ~Cxx
        <4>1. ParseVflag(w)
          BY <1>1, <2>1, <3>1
        <4> HIDE DEF w
        <4> QED BY <2>3, <3>1, <4>1, ParseVflagIs
      <3>2. CASE Cxx /\ Clear(o)
        <4>1. CxxParseVflag(w)
          BY <1>1, <2>1, <3>2
        <4>2. Plain(w) \/ none
          BY <1>8, <3>2 DEF Clear
        <4> HIDE DEF w
        <4> QED BY <2>3, <3>2, <4>1, <4>2, CxxParseVflagIs
      <3> QED BY <3>1, <3>2
    <2>5. Clear(o) \/ Cxx
      BY DEF Clear
    <2> HIDE DEF none, c, how
    <2>6. CASE Clear(o) /\ none
      <3>1. pc' = "ended" /\ outcome' = how
        BY <2>4, <2>6 DEF Fail, Finish
      <3> QED BY <2>2, <2>6, <3>1 DEF HeedsOrRefuses, Refused
    <2>7. CASE Clear(o) /\ ~none
      <3>1. pc' = "options" /\ config' = c /\ opts' = opts
        BY <2>4, <2>7 DEF Took, Goto
      <3> QED BY <1>8, <2>2, <2>7, <3>1 DEF HeedsOrRefuses, Heeded, c
    <2>8. CASE ~Clear(o)
      <3>1. CxxParseVflag(w)
        BY <1>1, <2>1, <2>5, <2>8
      <3>2. \/ pc' = "ended"
            \/ pc' = "options" /\ opts' = opts
        BY <3>1 DEF CxxParseVflag, Took, Fail, Finish, Goto
      <3> QED BY <1>8, <2>8, <3>2 DEF HeedsOrRefuses, Heeded, Refused
    <2> QED BY <2>6, <2>7, <2>8
  <1>9. o.flag \in WantArg <=> o.flag \in {"r", "s", "v"}
    BY DEF WantArg
  <1> QED BY <1>4, <1>5, <1>6, <1>7, <1>8, <1>9

-----------------------------------------------------------------------------
(* What the options so far have set *)

\* The options of a flag among the first k, the argument of the last of them,
\* and those of them that give a variable its value.
GivenIn(flag, k) == {i \in 1..k : req.opts[i].flag = flag /\ req.opts[i].arg # NoArg}
LastIn(flag, k) == IF GivenIn(flag, k) = {} THEN Empty ELSE req.opts[Max(GivenIn(flag, k))].arg
NamedIn(name, k) == {i \in GivenIn("v", k) : VarOf(req.opts[i].arg) = name}

\* A path as it gets to the program.
Via(w) == IF host.windows THEN Entered(w) ELSE w

Stdout == <<"/", "dev", "/", "stdout">>

ResfileIn(k) == IF LastIn("r", k) = Empty THEN Stdout ELSE Normalize(Via(LastIn("r", k)))
SrcdirIn(k) ==
    LET s == LastIn("s", k)
    IN  IF Cxx THEN IF s = Empty THEN Empty ELSE Via(s)
        ELSE IF s = Empty THEN BranchPath(Normalize(Argv0)) ELSE Normalize(Via(s))

\* The variables that the first k options name have the last value of each.
Configured(c, k) ==
    /\ \A name : name \in Keys(c) <=> NamedIn(name, k) # {}
    /\ \A name : NamedIn(name, k) # {} =>
            Value(c, name) = ValueOf(req.opts[Max(NamedIn(name, k))].arg)

\* The first k options have been taken.
Progress(p, c, k) ==
    /\ p.list <=> GivenIn("l", k) # {}
    /\ p.resfile = ResfileIn(k)
    /\ p.srcdir = SrcdirIn(k)
    /\ Readable => Configured(c, k) /\ \A j \in 1..k : Fault(req.opts[j]) = {}

LEMMA RequestTyped ==
    ASSUME req \in Requests
    PROVE  /\ req.opts \in Seq(Opts) /\ Len(req.opts) \in Nat /\ DOMAIN req.opts = 1..Len(req.opts)
           /\ \A i \in 1..Len(req.opts) : req.opts[i] \in Opts /\ req.opts[i].arg \in Texts
           /\ req.names \in Lines
  <1>1. req.opts \in Seq(Opts) /\ req.names \in Lines
    BY AtfProgramAssumption DEF Opts, Lines
  <1> DEFINE os == req.opts
  <1>2. os \in Seq(Opts)
    BY <1>1
  <1> HIDE DEF os
  <1>3. Len(os) \in Nat /\ DOMAIN os = 1..Len(os) /\ \A i \in 1..Len(os) : os[i] \in Opts
    BY <1>2, Typed
  <1>4. \A o \in Opts : o.arg \in Texts
    BY DEF Opts
  <1> QED BY <1>1, <1>3, <1>4 DEF os

\* An option more is the last of its flag, and leaves the other flags theirs.
LEMMA GivenNext ==
    ASSUME NEW k \in Nat, NEW flag
    PROVE  LET o == req.opts[k + 1]
           IN  /\ o.flag = flag /\ o.arg # NoArg =>
                    GivenIn(flag, k + 1) # {} /\ LastIn(flag, k + 1) = o.arg
               /\ o.flag # flag \/ o.arg = NoArg =>
                    GivenIn(flag, k + 1) = GivenIn(flag, k) /\ LastIn(flag, k + 1) = LastIn(flag, k)
  <1> DEFINE o == req.opts[k + 1]
             old == GivenIn(flag, k)
             new == GivenIn(flag, k + 1)
  <1>1. 1..(k + 1) = (1..k) \cup {k + 1} /\ k + 1 \in Nat
    OBVIOUS
  <1>2. CASE o.flag = flag /\ o.arg # NoArg
    <2>1. k + 1 \in new /\ new \in SUBSET (1..(k + 1))
      BY <1>1, <1>2 DEF GivenIn
    <2> HIDE DEF new, o
    <2>2. Max(new) = k + 1
      BY <1>1, <2>1, MaxIs
    <2>3. LastIn(flag, k + 1) = req.opts[k + 1].arg
      BY <2>1, <2>2 DEF LastIn, new
    <2> QED BY <1>2, <2>1, <2>3 DEF o, new
  <1>3. CASE o.flag # flag \/ o.arg = NoArg
    <2>1. new = old
      BY <1>1, <1>3 DEF GivenIn
    <2>2. LastIn(flag, k + 1) = LastIn(flag, k)
      BY <2>1 DEF LastIn
    <2> QED BY <1>3, <2>1, <2>2
  <1> QED BY <1>2, <1>3

LEMMA NamedNext ==
    ASSUME NEW k \in Nat, NEW name
    PROVE  LET o == req.opts[k + 1]
               names == o.flag = "v" /\ o.arg # NoArg /\ VarOf(o.arg) = name
           IN  /\ names => NamedIn(name, k + 1) # {} /\ Max(NamedIn(name, k + 1)) = k + 1
               /\ ~names => NamedIn(name, k + 1) = NamedIn(name, k)
  <1> DEFINE o == req.opts[k + 1]
             names == o.flag = "v" /\ o.arg # NoArg /\ VarOf(o.arg) = name
             new == NamedIn(name, k + 1)
  <1>1. 1..(k + 1) = (1..k) \cup {k + 1} /\ k + 1 \in Nat
    OBVIOUS
  <1>2. CASE names
    <2>1. k + 1 \in new /\ new \in SUBSET (1..(k + 1))
      BY <1>1, <1>2 DEF NamedIn, GivenIn
    <2> HIDE DEF new
    <2>2. Max(new) = k + 1
      BY <1>1, <2>1, MaxIs
    <2> QED BY <1>2, <2>1, <2>2 DEF new
  <1>3. CASE ~names
    BY <1>1, <1>3 DEF NamedIn, GivenIn
  <1> QED BY <1>2, <1>3

LEMMA VarTyped ==
    ASSUME NEW w \in Texts, Places(w, "=") # {}
    PROVE  VarOf(w) \in Texts /\ ValueOf(w) \in Texts
  <1>1. FindCh(w, "=") \in 0..Len(w) /\ FindCh(w, "=") # 0
    BY FindChIs, PlacesIs
  <1> QED BY <1>1, PartsTyped DEF VarOf, ValueOf

LEMMA NoArgIs == Empty # NoArg
  BY DEF Empty, NoArg

\* An option that is taken, after the first k.
LEMMA ProgressNext ==
    ASSUME host \in Hosts, req \in Requests, config \in Maps, Writable,
           NEW k \in 0..(Len(req.opts) - 1), Progress(opts, config, k), Heeded(req.opts[k + 1])
    PROVE  Progress(opts', config', k + 1)
  <1> DEFINE o == req.opts[k + 1]
  <1>1. /\ Len(req.opts) \in Nat /\ k \in Nat /\ k + 1 \in 1..Len(req.opts)
        /\ DOMAIN req.opts = 1..Len(req.opts) /\ o \in Opts /\ o.arg \in Texts
    BY RequestTyped
  <1>2. o.flag \notin WantArg => o.arg = Empty
    BY <1>1 DEF Writable
  <1>3. Heeded(o) /\ Progress(opts, config, k)
    OBVIOUS
  <1>4. o.arg # NoArg
    BY <1>2, <1>3, NoArgIs DEF Heeded
  <1>5. \A flag : /\ o.flag = flag => GivenIn(flag, k + 1) # {} /\ LastIn(flag, k + 1) = o.arg
                  /\ o.flag # flag => /\ GivenIn(flag, k + 1) = GivenIn(flag, k)
                                      /\ LastIn(flag, k + 1) = LastIn(flag, k)
    BY <1>1, <1>4, GivenNext
  <1>6. \A name : LET names == o.flag = "v" /\ VarOf(o.arg) = name
                  IN  /\ names => NamedIn(name, k + 1) # {} /\ Max(NamedIn(name, k + 1)) = k + 1
                      /\ ~names => NamedIn(name, k + 1) = NamedIn(name, k)
    BY <1>1, <1>4, NamedNext
  <1>7. /\ o.flag \in {"r", "s"} => Reached(o).arg = Via(o.arg)
        /\ Reached(o).arg = Empty <=> o.arg = Empty
    BY <1>1, <1>4, ReachedIs DEF Reached, Via
  <1>8. Readable => Clear(o)
    BY <1>1, <1>4 DEF Readable, Clear, Given
  <1> HIDE DEF o
  <1>9. opts'.list <=> GivenIn("l", k + 1) # {}
    BY <1>3, <1>5 DEF Progress, Heeded
  <1>10. opts'.resfile = ResfileIn(k + 1)
    <2>1. CASE o.flag = "r"
      <3>1. LastIn("r", k + 1) = o.arg /\ o.arg # Empty
        BY <1>3, <1>5, <2>1 DEF Heeded
      <3> QED BY <1>3, <1>7, <2>1, <3>1 DEF Heeded, ResfileIn
    <2>2. CASE o.flag # "r"
      <3>1. LastIn("r", k + 1) = LastIn("r", k)
        BY <1>5, <2>2
      <3>2. opts'.resfile = opts.resfile
        BY <1>3, <2>2 DEF Heeded
      <3> QED BY <1>3, <3>1, <3>2 DEF Progress, ResfileIn
    <2> QED BY <2>1, <2>2
  <1>11. opts'.srcdir = SrcdirIn(k + 1)
    <2>1. CASE o.flag = "s"
      <3>1. LastIn("s", k + 1) = o.arg /\ (~Cxx => o.arg # Empty)
        BY <1>3, <1>5, <2>1 DEF Heeded
      <3>2. opts'.srcdir = IF Cxx THEN Via(o.arg) ELSE Normalize(Via(o.arg))
        BY <1>3, <1>7, <2>1 DEF Heeded
      <3>3. o.arg = Empty => Via(o.arg) = Empty
        BY <1>7, <2>1
      <3> QED BY <3>1, <3>2, <3>3 DEF SrcdirIn
    <2>2. CASE o.flag # "s"
      <3>1. LastIn("s", k + 1) = LastIn("s", k)
        BY <1>5, <2>2
      <3>2. opts'.srcdir = opts.srcdir
        BY <1>3, <2>2 DEF Heeded
      <3> QED BY <1>3, <3>1, <3>2 DEF Progress, SrcdirIn
    <2> QED BY <2>1, <2>2
  <1>12. ASSUME Readable
         PROVE  Configured(config', k + 1) /\ \A j \in 1..(k + 1) : Fault(req.opts[j]) = {}
    <2>1. Configured(config, k) /\ \A j \in 1..k : Fault(req.opts[j]) = {}
      BY <1>3, <1>12 DEF Progress
    <2>2. Clear(o) /\ Fault(o) = {}
      BY <1>3, <1>8, <1>12 DEF Heeded
    <2>3. \A j \in 1..(k + 1) : Fault(req.opts[j]) = {}
      <3>1. 1..(k + 1) = (1..k) \cup {k + 1}
        BY <1>1
      <3> QED BY <2>1, <2>2, <3>1 DEF o
    <2>4. CASE o.flag # "v"
      <3>1. config' = config
        BY <1>3, <2>4 DEF Heeded
      <3>2. \A name : NamedIn(name, k + 1) = NamedIn(name, k)
        BY <1>6, <2>4
      <3>3. Configured(config', k + 1)
        BY <2>1, <3>1, <3>2 DEF Configured
      <3> QED BY <2>3, <3>3
    <2>5. CASE o.flag = "v"
      <3> DEFINE x == VarOf(o.arg)
                 v == ValueOf(o.arg)
                 u == Insert(config, x, v)
      <3>1. config' = u
        BY <1>3, <2>2, <2>5 DEF Heeded
      <3>2. Places(o.arg, "=") # {}
        BY <1>4, <2>2, <2>5 DEF Fault, WantArg
      <3>3. x \in Texts /\ v \in Texts
        BY <1>1, <3>2, VarTyped DEF o
      <3> HIDE DEF x, v
      <3>4. /\ Keys(u) = Keys(config) \cup {x}
            /\ Value(u, x) = v
            /\ \A key : key # x /\ key \in Keys(config) => Value(u, key) = Value(config, key)
        BY <3>3, InsertTable
      <3> HIDE DEF u
      <3>5. \A name : name \in Keys(u) <=> NamedIn(name, k + 1) # {}
        <4>1. \A name : name \in Keys(config) <=> NamedIn(name, k) # {}
          BY <2>1 DEF Configured
        <4> QED BY <1>6, <2>5, <3>4, <4>1 DEF x
      <3>6. ASSUME NEW name, NamedIn(name, k + 1) # {}
            PROVE  Value(u, name) = ValueOf(req.opts[Max(NamedIn(name, k + 1))].arg)
        <4>1. CASE name = x
          <5>1. Max(NamedIn(name, k + 1)) = k + 1
            BY <1>6, <2>5, <4>1 DEF x
          <5>2. ValueOf(req.opts[Max(NamedIn(name, k + 1))].arg) = v
            BY <5>1 DEF v, o
          <5> QED BY <3>4, <4>1, <5>2
        <4>2. CASE name # x
          <5>1. NamedIn(name, k + 1) = NamedIn(name, k)
            BY <1>6, <4>2 DEF x
          <5>2. name \in Keys(config)
            BY <2>1, <3>6, <5>1 DEF Configured
          <5>3. Value(config, name) = ValueOf(req.opts[Max(NamedIn(name, k))].arg)
            BY <2>1, <3>6, <5>1 DEF Configured
          <5> QED BY <3>4, <4>2, <5>1, <5>2, <5>3
        <4> QED BY <4>1, <4>2
      <3>7. Configured(config', k + 1)
        BY <3>1, <3>5, <3>6 DEF Configured
      <3> QED BY <2>3, <3>7
    <2> QED BY <2>4, <2>5
  <1> QED BY <1>9, <1>10, <1>11, <1>12 DEF Progress

-----------------------------------------------------------------------------
(* What is asked for stays the same *)

Faultless == \A j \in DOMAIN req.opts : Fault(req.opts[j]) = {}

LEMMA ProgramStays ==
    ASSUME UNCHANGED request
    PROVE  /\ req' = req /\ form' = form /\ host' = host
           /\ Cxx' = Cxx /\ Argv0' = Argv0 /\ ProgName' = ProgName
  <1>1. req' = req /\ form' = form /\ host' = host
    BY DEF request
  <1>2. Cxx' = Cxx /\ Argv0' = Argv0
    BY <1>1 DEF Cxx, Argv0
  <1>3. ProgName' = ProgName
    BY <1>2 DEF ProgName
  <1> QED BY <1>1, <1>2, <1>3

LEMMA ReachedStays ==
    ASSUME UNCHANGED request, NEW CONSTANT o, NEW CONSTANT w
    PROVE  /\ Entered(w)' = Entered(w) /\ Reached(o)' = Reached(o) /\ Via(w)' = Via(w)
           /\ Fault(o)' = Fault(o)
  <1>1. NativePath(w)' = NativePath(w)
    BY ProgramStays DEF NativePath
  <1>2. Entered(w)' = Entered(w)
    BY <1>1 DEF Entered
  <1>3. Via(w)' = Via(w)
    BY <1>2, ProgramStays DEF Via
  <1>4. \A x : NativePath(x)' = NativePath(x)
    BY ProgramStays DEF NativePath
  <1>5. Entered(o.arg)' = Entered(o.arg)
    BY <1>4 DEF Entered
  <1>6. Reached(o)' = Reached(o)
    BY <1>5, ProgramStays DEF Reached
  <1>7. Fault(o)' = Fault(o)
    BY ProgramStays DEF Fault
  <1> QED BY <1>2, <1>3, <1>6, <1>7

LEMMA ProgressStays ==
    ASSUME UNCHANGED request, NEW CONSTANT k
    PROVE  /\ GivenIn("l", k)' = GivenIn("l", k)
           /\ ResfileIn(k)' = ResfileIn(k) /\ SrcdirIn(k)' = SrcdirIn(k)
           /\ Readable' <=> Readable
           /\ (\A j \in 1..k : Fault(req.opts[j]) = {})' <=> (\A j \in 1..k : Fault(req.opts[j]) = {})
           /\ \A name : NamedIn(name, k)' = NamedIn(name, k)
  <1>1. \A flag : GivenIn(flag, k)' = GivenIn(flag, k)
    BY ProgramStays DEF GivenIn
  <1>2. LastIn("r", k)' = LastIn("r", k) /\ LastIn("s", k)' = LastIn("s", k)
    BY <1>1, ProgramStays DEF LastIn
  <1>3. \A w : Via(w)' = Via(w)
    BY ProgramStays DEF Via, Entered, NativePath
  <1>4. ResfileIn(k)' = ResfileIn(k)
    BY <1>2, <1>3 DEF ResfileIn
  <1>5. SrcdirIn(k)' = SrcdirIn(k)
    BY <1>2, <1>3, ProgramStays DEF SrcdirIn
  <1>6. Given("v")' = Given("v")
    BY ProgramStays DEF Given
  <1>7. Readable' <=> Readable
    BY <1>6, ProgramStays DEF Readable
  <1>8. \A j : Fault(req.opts[j])' = Fault(req.opts[j])
    BY ProgramStays DEF Fault
  <1>9. \A name : NamedIn(name, k)' = NamedIn(name, k)
    BY <1>1, ProgramStays DEF NamedIn
  <1> QED BY <1>1, <1>4, <1>5, <1>7, <1>8, <1>9

LEMMA AskedStays ==
    ASSUME UNCHANGED request
    PROVE  /\ Writable' <=> Writable
           /\ Separate' <=> Separate
           /\ Readable' <=> Readable
           /\ Faultless' <=> Faultless
           /\ AskedVars' = AskedVars
           /\ \A name : AskedValue(name)' = AskedValue(name)
           /\ AskedResfile' = AskedResfile
           /\ Asks' = Asks
  <1>1. Writable' <=> Writable
    BY ProgramStays DEF Writable
  <1>2. Separate' <=> Separate
    BY ProgramStays DEF Separate
  <1>3. \A flag : Given(flag)' = Given(flag)
    BY ProgramStays DEF Given
  <1>4. Readable' <=> Readable
    BY <1>3, ProgramStays DEF Readable
  <1>5. Faultless' <=> Faultless
    BY ProgramStays DEF Faultless, Fault
  <1>6. AskedVars' = AskedVars
    BY <1>3, ProgramStays DEF AskedVars
  <1>7. \A name : AskedValue(name)' = AskedValue(name)
    BY <1>3, ProgramStays DEF AskedValue
  <1>8. LastArg("r", Empty)' = LastArg("r", Empty)
    BY <1>3, ProgramStays DEF LastArg
  <1>9. \A w : Entered(w)' = Entered(w)
    BY ProgramStays DEF Entered, NativePath
  <1>10. AskedResfile' = AskedResfile
    BY <1>8, <1>9, ProgramStays DEF AskedResfile
  <1>11. Asks' = Asks
    BY <1>3, ProgramStays DEF Asks
  <1> QED BY <1>1, <1>2, <1>4, <1>5, <1>6, <1>7, <1>10, <1>11

LEMMA AskedDirStays ==
    ASSUME UNCHANGED request
    PROVE  /\ AskedDir' = AskedDir /\ (AtRoot' <=> AtRoot) /\ SrcdirAsked' = SrcdirAsked
           /\ Complaints' = Complaints
  <1>1. Given("s")' = Given("s") /\ Given("v")' = Given("v") /\ Given("l")' = Given("l")
    BY ProgramStays DEF Given
  <1>2. LastArg("s", Empty)' = LastArg("s", Empty)
    BY <1>1, ProgramStays DEF LastArg
  <1>3. \A w : Entered(w)' = Entered(w)
    BY ProgramStays DEF Entered, NativePath
  <1>4. AskedPath' = AskedPath
    BY <1>2, <1>3, ProgramStays DEF AskedPath
  <1>5. \A p : FromRoot(p)' = FromRoot(p)
    BY ProgramStays DEF FromRoot, IsAbsolute
  <1>6. AskedDir' = AskedDir
    BY <1>2, <1>4, <1>5, ProgramStays DEF AskedDir
  <1>7. AtRoot' <=> AtRoot
    BY <1>4, <1>6, ProgramStays DEF AtRoot
  <1>8. SrcdirAsked' = SrcdirAsked
    BY <1>2, <1>4, ProgramStays DEF SrcdirAsked, AskedS
  <1>9. AppendTo(AskedDir, ProgName)' = AppendTo(AskedDir, ProgName)
    BY <1>6, ProgramStays
  <1>10. \A p : Exists(p)' = Exists(p)
    BY ProgramStays DEF Exists, Resolve, FromRoot, IsAbsolute
  <1>11. Exists(AppendTo(AskedDir, ProgName))' = Exists(AppendTo(AskedDir, ProgName))
    BY <1>9, <1>10
  <1>12. Asks' = Asks
    BY <1>1, ProgramStays DEF Asks
  <1>13. NamesServe' <=> NamesServe
    BY <1>12, ProgramStays DEF NamesServe
  <1>14. Complaints' = Complaints
    BY <1>11, <1>13, ProgramStays DEF Complaints
  <1> QED BY <1>6, <1>7, <1>8, <1>14

-----------------------------------------------------------------------------
(* From the command line to what the options have set *)

LEMMA RequestSpelling ==
    ASSUME req \in Requests, Writable
    PROVE  \E upto, mrg : /\ Spelling(CommandLine(req, form), req.opts, req.names, upto, mrg)
                          /\ form # "cluster" => Unmerged(mrg, Len(req.opts))
  <1>1. \A i \in DOMAIN req.opts : Sound(req.opts[i], i = Len(req.opts) /\ req.names = Empty)
    BY DEF Writable, Sound
  <1>2. \A i \in DOMAIN req.opts : form = "cluster" => req.opts[i].arg # <<"-", "l">>
    BY DEF Writable
  <1>3. req.names # Empty => ~IsOption(req.names[1])
    BY DEF Writable
  <1>4. \E upto, mrg : /\ Spelling(CommandLine(req, form), req.opts, req.names, upto, mrg)
                       /\ form # "cluster" => \A j \in 1..(Len(req.opts) + 1) : ~mrg[j]
    BY <1>1, <1>2, <1>3, CommandLineSpelling
  <1> QED BY <1>4 DEF Unmerged

\* No option has been taken.
LEMMA ProgressStarts ==
    ASSUME opts.list = FALSE, opts.resfile = Stdout, config = Empty,
           opts.srcdir = IF Cxx THEN Empty ELSE BranchPath(Normalize(Argv0))
    PROVE  Progress(opts, config, 0)
  <1>1. \A flag : GivenIn(flag, 0) = {} /\ LastIn(flag, 0) = Empty
    BY DEF GivenIn, LastIn
  <1>2. \A name : NamedIn(name, 0) = {}
    BY <1>1 DEF NamedIn
  <1>3. Keys(config) = {}
    BY DEF Keys, Empty
  <1>4. Configured(config, 0)
    BY <1>2, <1>3 DEF Configured
  <1>5. opts.resfile = ResfileIn(0) /\ opts.srcdir = SrcdirIn(0)
    BY <1>1 DEF ResfileIn, SrcdirIn
  <1> QED BY <1>1, <1>4, <1>5 DEF Progress

\* Before atfw_enter, and while the options are read.
Starting ==
    /\ host.windows /\ argv = CommandLine(req, form)
    /\ ind = 1 /\ pos = 2 /\ Progress(opts, config, 0)

Parsing ==
    \E upto, mrg : \E k \in 0..Len(req.opts) :
        /\ Spelling(argv, Mixed(req.opts, Len(req.opts)), req.names, upto, mrg)
        /\ Reading(k, upto, mrg)
        /\ Progress(opts, config, k)

LEMMA ReadingStarts ==
    ASSUME NEW line, NEW os, NEW names, NEW upto, NEW mrg, Spelling(line, os, names, upto, mrg),
           ind = 1, pos = 2
    PROVE  Reading(0, upto, mrg)
  BY DEF Spelling, Reading, At, Letter

LEMMA InitParses ==
    ASSUME Init, Writable
    PROVE  /\ pc = "enter" => Starting
           /\ pc = "options" => Parsing
  <1>1. /\ req \in Requests /\ host \in Hosts /\ argv = CommandLine(req, form) /\ ind = 1 /\ pos = 2
        /\ config = Empty /\ opts.list = FALSE /\ opts.resfile = Stdout
        /\ opts.srcdir = IF Cxx THEN Empty ELSE BranchPath(Normalize(Argv0))
        /\ pc = IF host.windows THEN "enter" ELSE "options"
    BY DEF Init, Stdout
  <1>2. Progress(opts, config, 0)
    BY <1>1, ProgressStarts
  <1>3. pc = "enter" => Starting
    BY <1>1, <1>2 DEF Starting
  <1>4. ASSUME pc = "options" PROVE Parsing
    <2> DEFINE os == req.opts
               n == Len(os)
    <2>1. PICK upto, mrg : Spelling(argv, os, req.names, upto, mrg)
      BY <1>1, RequestSpelling
    <2>2. os \in Seq(Opts) /\ n \in Nat
      BY <1>1, RequestTyped
    <2> HIDE DEF os
    <2>3. Mixed(os, n) = os
      <3>1. ~host.windows
        BY <1>1, <1>4
      <3>2. \A o : Reached(o) = o
        BY <3>1 DEF Reached
      <3>3. n \in 0..Len(os)
        BY <2>2
      <3>4. /\ Mixed(os, n) \in Seq(Opts) /\ Len(Mixed(os, n)) = Len(os)
            /\ \A i \in 1..Len(os) : Mixed(os, n)[i] = IF i <= n THEN Reached(os[i]) ELSE os[i]
        BY <1>1, <2>2, <3>3, MixedIs
      <3> DEFINE m == Mixed(os, n)
      <3> HIDE DEF m
      <3>5. m \in Seq(Opts) /\ Len(m) = Len(os) /\ \A i \in 1..Len(m) : m[i] = os[i]
        BY <3>2, <3>4 DEF m
      <3>6. m = os
        BY <2>2, <3>5, Same
      <3> QED BY <3>6 DEF m
    <2>4. Reading(0, upto, mrg)
      BY <1>1, <2>1, ReadingStarts
    <2>5. 0 \in 0..n
      BY <2>2
    <2>6. Spelling(argv, Mixed(os, n), req.names, upto, mrg)
      BY <2>1, <2>3
    <2> QED BY <1>2, <2>4, <2>5, <2>6 DEF Parsing, os
  <1> QED BY <1>3, <1>4

\* atfw_enter leaves a line of the options as they get to the program.
LEMMA EnterParses ==
    ASSUME IInv, Writable, Separate, Starting, Enter
    PROVE  pc' = "options" /\ Parsing'
  <1> DEFINE os == req.opts
             n == Len(os)
  <1>1. /\ argv' = EnteredLine(argv) /\ pc' = "options"
        /\ UNCHANGED request /\ ind' = ind /\ pos' = pos /\ opts' = opts /\ config' = config
    BY DEF Enter, Goto
  <1>2. /\ host.windows /\ argv = CommandLine(req, form) /\ ind = 1 /\ pos = 2
        /\ Progress(opts, config, 0)
    BY DEF Starting
  <1>3. req \in Requests /\ host \in Hosts /\ argv \in Lines
    BY InvTyped DEF IInv
  <1>4. os \in Seq(Opts) /\ n \in Nat /\ req.names \in Lines
    BY <1>3, RequestTyped
  <1>5. PICK upto, mrg : Spelling(argv, os, req.names, upto, mrg) /\ Unmerged(mrg, n)
    BY <1>2, <1>3, RequestSpelling DEF Separate
  <1> HIDE DEF os
  <1>6. Spelling(EnteredLine(argv), Mixed(os, n), req.names, upto, mrg)
    BY <1>2, <1>3, <1>4, <1>5, EnteredSpelling
  <1>7. Reading(0, upto, mrg)
    BY <1>2, <1>5, ReadingStarts
  <1>8. req' = req /\ os' = os /\ n' = n
    BY <1>1, ProgramStays DEF os
  <1>9. Mixed(os, n)' = Mixed(os, n)
    <2>1. \A o : Reached(o)' = Reached(o)
      BY <1>1, ProgramStays DEF Reached, Entered, NativePath
    <2> QED BY <1>8, <2>1 DEF Mixed
  <1>10. Progress(opts, config, 0)'
    BY <1>1, <1>2, <1>8, ProgressStays DEF Progress, Configured
  <1>11. Reading(0, upto, mrg)'
    BY <1>1, <1>7 DEF Reading
  <1>12. Spelling(argv, Mixed(os, n), req.names, upto, mrg)'
    BY <1>1, <1>6, <1>8, <1>9
  <1>13. 0 \in 0..n'
    BY <1>4, <1>8
  <1> QED BY <1>1, <1>8, <1>10, <1>11, <1>12, <1>13 DEF Parsing, os

\* The other ways in which a request is to fail.
ExeFault ==
    LET exe == Exists(AppendTo(AskedDir, ProgName))
    IN  IF exe = "yes" THEN {} ELSE IF ~Cxx THEN {"user"}
        ELSE IF exe = "no" THEN {"usage"} ELSE {"thrown"}
IdentFault ==
    IF \E t \in Range(Tests) : Ident \in Keys(t.head) /\ LastOf(t.head, Ident) # t.ident
    THEN {"abort"} ELSE {}
NamesFault == IF NamesServe THEN {} ELSE {"usage"}

LEMMA ComplaintsAre ==
    ASSUME req \in Requests
    PROVE  /\ \A i \in 1..Len(req.opts) : Fault(req.opts[i]) \subseteq Complaints
           /\ ExeFault \subseteq Complaints /\ IdentFault \subseteq Complaints
           /\ NamesFault \subseteq Complaints
           /\ Faultless /\ ExeFault = {} /\ IdentFault = {} /\ NamesFault = {} => Complaints = {}
  <1>1. Complaints = (UNION {Fault(o) : o \in Range(req.opts)})
                     \cup ExeFault \cup IdentFault \cup NamesFault
    BY DEF Complaints, Fault, ExeFault, IdentFault, NamesFault
  <1>2. \A i \in 1..Len(req.opts) : req.opts[i] \in Range(req.opts)
    BY RequestTyped DEF Range
  <1>3. Faultless => \A o \in Range(req.opts) : Fault(o) = {}
    BY DEF Faultless, Range
  <1> DEFINE U == UNION {Fault(o) : o \in Range(req.opts)}
  <1>4. \A i \in 1..Len(req.opts) : Fault(req.opts[i]) \subseteq U
    <2>1. \A o \in Range(req.opts) : Fault(o) \subseteq U
      OBVIOUS
    <2> QED BY <1>2, <2>1
  <1>5. Faultless => U = {}
    BY <1>3
  <1>6. Complaints = U \cup ExeFault \cup IdentFault \cup NamesFault
    BY <1>1, Zenon
  <1> HIDE DEF U
  <1> QED BY <1>4, <1>5, <1>6

\* A turn of the option loop takes the next option, or fails with its fault.
LEMMA TurnParses ==
    ASSUME IInv, Writable, Parsing, Option \/ CxxOption
    PROVE  \/ pc' = "options" /\ Parsing'
           \/ pc' = "ended" /\ (Readable => outcome' \in Complaints)
  <1> DEFINE os == req.opts
             n == Len(os)
  <1>1. /\ UNCHANGED <<request, argv>> /\ ToOptions(GetOpt) /\ GetOpt.c # None
    BY DEF Option, CxxOption
  <1>2. PICK upto, mrg : \E k \in 0..n :
            /\ Spelling(argv, Mixed(os, n), req.names, upto, mrg)
            /\ Reading(k, upto, mrg) /\ Progress(opts, config, k)
    BY DEF Parsing
  <1>3. PICK k \in 0..n :
            /\ Spelling(argv, Mixed(os, n), req.names, upto, mrg)
            /\ Reading(k, upto, mrg) /\ Progress(opts, config, k)
    BY <1>2
  <1>4. /\ req \in Requests /\ host \in Hosts /\ argv \in Lines /\ opts \in Params /\ config \in Maps
    BY InvTyped DEF IInv
  <1>5. os \in Seq(Opts) /\ n \in Nat /\ req.names \in Lines /\ \A i \in 1..n : os[i] \in Opts
    BY <1>4, RequestTyped
  <1> DEFINE ms == Mixed(os, n)
  <1>6. ms \in Seq(Opts) /\ Len(ms) = n /\ \A i \in 1..n : ms[i] = Reached(os[i])
    <2> HIDE DEF os
    <2>1. n \in 0..Len(os)
      BY <1>5
    <2> QED BY <1>4, <1>5, <2>1, MixedIs
  <1>7. Spelling(argv, ms, req.names, upto, mrg)
    BY <1>3
  <1> HIDE DEF ms
  <1>8. k < n
    <2>1. SUFFICES ASSUME k = n PROVE FALSE
      BY <1>5
    <2>2. Reading(Len(ms), upto, mrg)
      BY <1>3, <1>6, <2>1
    <2> QED BY <1>1, <1>4, <1>5, <1>6, <1>7, <2>2, GetOptEnds
  <1> DEFINE o == os[k + 1]
  <1>9. k + 1 \in 1..n /\ o \in Opts /\ ms[k + 1] = Reached(o) /\ k \in 0..(Len(ms) - 1)
        /\ k \in 0..(n - 1) /\ k \in Nat /\ k + 1 \in 0..n
    BY <1>5, <1>6, <1>8
  <1> HIDE DEF o, os
  <1>10. LET e == Reached(o)
         IN  /\ GetOpt.c = Answer(e)
             /\ e.flag \in WantArg /\ e.arg # NoArg => GetOpt.arg = e.arg
             /\ GetOpt.ind = At(upto, mrg, k + 2) /\ GetOpt.pos = Letter(mrg, k + 2)
    BY <1>3, <1>4, <1>6, <1>7, <1>9, GetOptReads
  <1>11. /\ GetOpt.c = Answer(o)
         /\ o.flag \in WantArg /\ o.arg # NoArg => GetOpt.arg = Reached(o).arg
    <2>1. Reached(o).flag = o.flag /\ (Reached(o).arg = NoArg <=> o.arg = NoArg)
      BY <1>4, <1>9, ReachedIs
    <2> QED BY <1>10, <2>1 DEF Answer
  <1>12. HeedsOrRefuses(o)
    BY <1>4, <1>9, <1>11, OptionTurn
  <1>13. CASE pc' = "options" /\ Heeded(o)
    <2>1. Progress(opts', config', k + 1)
      BY <1>3, <1>4, <1>9, <1>13, ProgressNext DEF o, os
    <2>2. req' = req /\ os' = os /\ n' = n
      BY <1>1, ProgramStays DEF os
    <2>3. Mixed(os, n)' = Mixed(os, n)
      <3>1. \A x : Reached(x)' = Reached(x)
        BY <1>1, ProgramStays DEF Reached, Entered, NativePath
      <3> QED BY <2>2, <3>1 DEF Mixed
    <2>4. Progress(opts, config, k + 1)'
      BY <1>1, <2>1, <2>2, ProgressStays DEF Progress, Configured
    <2>5. Reading(k + 1, upto, mrg)'
      <3>1. ind' = At(upto, mrg, k + 2) /\ pos' = Letter(mrg, k + 2)
        BY <1>1, <1>10 DEF ToOptions
      <3>2. (k + 1) + 1 = k + 2
        BY <1>9
      <3> QED BY <3>1, <3>2 DEF Reading
    <2>6. Spelling(argv, Mixed(os, n), req.names, upto, mrg)'
      BY <1>1, <1>7, <2>2, <2>3 DEF ms
    <2>7. Parsing'
      BY <1>9, <2>2, <2>4, <2>5, <2>6 DEF Parsing, os
    <2> QED BY <1>13, <2>7
  <1>14. CASE pc' = "ended" /\ Refused(o)
    <2>1. Readable => Clear(o)
      BY <1>4, <1>9, RequestTyped DEF Readable, Clear, Given, o, os
    <2>2. Readable => outcome' \in Fault(o)
      BY <1>14, <2>1 DEF Refused
    <2>3. Fault(o) \subseteq Complaints
      BY <1>4, <1>9, ComplaintsAre DEF o, os
    <2> QED BY <1>14, <2>2, <2>3
  <1> QED BY <1>12, <1>13, <1>14 DEF HeedsOrRefuses

\* What the options and the names have set is what was asked for.
Parsed ==
    /\ opts.srcdir = SrcdirAsked /\ (opts.list <=> Asks.list) /\ opts.resfile = AskedResfile
    /\ opts.names = req.names
    /\ Readable => Faultless

\* The configuration is that of the -v's.
ConfigAsked ==
    Readable => /\ Keys(config) = AskedVars
                /\ \A name \in AskedVars : Value(config, name) = AskedValue(name)

LEMMA AskedSTyped ==
    ASSUME req \in Requests
    PROVE  AskedS \in Texts
  <1> DEFINE s == Given("s")
             n == Len(req.opts)
  <1>1. CASE s = {}
    BY <1>1, Slash DEF AskedS, LastArg
  <1>2. CASE s # {}
    <2>1. s \in SUBSET (1..n) /\ n \in Nat
      BY RequestTyped DEF Given
    <2> HIDE DEF s
    <2>2. Max(s) \in s
      BY <1>2, <2>1, MaxIn
    <2>3. Max(s) \in 1..n
      BY <2>1, <2>2
    <2>4. req.opts[Max(s)].arg \in Texts
      BY <2>3, RequestTyped
    <2> QED BY <1>2, <2>4 DEF AskedS, LastArg, s
  <1> QED BY <1>1, <1>2

LEMMA ProgressEnds ==
    ASSUME host \in Hosts, req \in Requests, Progress(opts, config, Len(req.opts))
    PROVE  /\ opts.srcdir = SrcdirAsked /\ (opts.list <=> Asks.list) /\ opts.resfile = AskedResfile
           /\ Readable => Faultless
           /\ ConfigAsked
  <1> DEFINE n == Len(req.opts)
  <1>1. DOMAIN req.opts = 1..n
    BY RequestTyped
  <1>2. \A flag : GivenIn(flag, n) = Given(flag)
    BY <1>1 DEF GivenIn, Given
  <1>3. \A flag : LastIn(flag, n) = LastArg(flag, Empty)
    BY <1>2 DEF LastIn, LastArg
  <1>4. opts.list <=> Asks.list
    BY <1>2 DEF Progress, Asks
  <1>5. opts.resfile = AskedResfile
    BY <1>3 DEF Progress, ResfileIn, AskedResfile, Via, Stdout
  <1>6. opts.srcdir = SrcdirAsked
    <2>1. AskedS \in Texts
      BY AskedSTyped
    <2>2. LastIn("s", n) = AskedS
      BY <1>3 DEF AskedS
    <2>3. opts.srcdir = SrcdirIn(n)
      BY DEF Progress
    <2>4. /\ AskedS = Empty => AskedPath = BranchPath(Normalize(Argv0)) /\ Normalize(AskedPath) = AskedPath
          /\ AskedS # Empty => AskedPath = Via(AskedS)
      BY <2>1, AskedPathIs DEF Via
    <2> QED BY <2>2, <2>3, <2>4 DEF SrcdirIn, SrcdirAsked
  <1>7. ASSUME Readable
        PROVE  /\ Faultless
               /\ Keys(config) = AskedVars
               /\ \A name \in AskedVars : Value(config, name) = AskedValue(name)
    <2>1. Configured(config, n) /\ \A j \in 1..n : Fault(req.opts[j]) = {}
      BY <1>7 DEF Progress
    <2>2. Faultless
      BY <1>1, <2>1 DEF Faultless
    <2>3. \A name : NamedIn(name, n) = {i \in Given("v") : VarOf(req.opts[i].arg) = name}
      BY <1>2 DEF NamedIn
    <2>4. \A name : name \in AskedVars <=> NamedIn(name, n) # {}
      BY <2>3 DEF AskedVars
    <2>5. Keys(config) = AskedVars
      BY <2>1, <2>4 DEF Configured
    <2>6. ASSUME NEW name \in AskedVars PROVE Value(config, name) = AskedValue(name)
      <3>1. Value(config, name) = ValueOf(req.opts[Max(NamedIn(name, n))].arg)
        BY <2>1, <2>4 DEF Configured
      <3> QED BY <2>3, <3>1 DEF AskedValue
    <2> QED BY <2>2, <2>5, <2>6
  <1> QED BY <1>4, <1>5, <1>6, <1>7 DEF ConfigAsked

\* At the end of the options, what they have set is what was asked for.
LEMMA EndParses ==
    ASSUME IInv, Writable, Parsing, EndOfOptions
    PROVE  Parsed' /\ ConfigAsked'
  <1> DEFINE os == req.opts
             n == Len(os)
  <1>1. /\ UNCHANGED <<request, argv, config>> /\ GetOpt.c = None
        /\ opts' = [opts EXCEPT !.names = After(argv, GetOpt.ind - 1)]
    BY DEF EndOfOptions
  <1>2. PICK upto, mrg : \E k \in 0..n :
            /\ Spelling(argv, Mixed(os, n), req.names, upto, mrg)
            /\ Reading(k, upto, mrg) /\ Progress(opts, config, k)
    BY DEF Parsing
  <1>3. PICK k \in 0..n :
            /\ Spelling(argv, Mixed(os, n), req.names, upto, mrg)
            /\ Reading(k, upto, mrg) /\ Progress(opts, config, k)
    BY <1>2
  <1>4. /\ req \in Requests /\ host \in Hosts /\ argv \in Lines /\ opts \in Params /\ config \in Maps
    BY InvTyped DEF IInv
  <1>5. os \in Seq(Opts) /\ n \in Nat /\ req.names \in Lines /\ \A i \in 1..n : os[i] \in Opts
    BY <1>4, RequestTyped
  <1> DEFINE ms == Mixed(os, n)
  <1>6. ms \in Seq(Opts) /\ Len(ms) = n
    <2> HIDE DEF os
    <2>1. n \in 0..Len(os)
      BY <1>5
    <2> QED BY <1>4, <1>5, <2>1, MixedIs
  <1>7. Spelling(argv, ms, req.names, upto, mrg)
    BY <1>3
  <1> HIDE DEF ms
  <1>8. k = n
    <2>1. SUFFICES ASSUME k # n PROVE FALSE
      OBVIOUS
    <2>2. k \in 0..(Len(ms) - 1)
      BY <1>5, <1>6, <2>1
    <2>3. GetOpt.c = Answer(ms[k + 1])
      BY <1>3, <1>4, <1>6, <1>7, <2>2, GetOptReads
    <2>4. \A o : Answer(o) # None
      BY DEF Answer, None, WantArg
    <2> QED BY <1>1, <2>3, <2>4
  <1>9. After(argv, GetOpt.ind - 1) = req.names
    <2>1. Reading(Len(ms), upto, mrg)
      BY <1>3, <1>6, <1>8
    <2> QED BY <1>4, <1>5, <1>6, <1>7, <2>1, GetOptEnds
  <1>10. /\ opts.srcdir = SrcdirAsked /\ (opts.list <=> Asks.list) /\ opts.resfile = AskedResfile
         /\ Readable => Faultless
         /\ ConfigAsked
    BY <1>3, <1>4, <1>8, ProgressEnds
  <1> DEFINE names == After(argv, GetOpt.ind - 1)
  <1>11. opts' = [opts EXCEPT !.names = names]
    BY <1>1
  <1>12. names = req.names
    BY <1>9
  <1> HIDE DEF names
  <1>13. /\ opts'.srcdir = opts.srcdir /\ (opts'.list <=> opts.list) /\ opts'.resfile = opts.resfile
         /\ opts'.names = req.names
    BY <1>4, <1>11, <1>12 DEF Params
  <1>14. Parsed'
    BY <1>1, <1>10, <1>13, AskedStays, AskedDirStays, ProgramStays DEF Parsed
  <1>15. ConfigAsked'
    BY <1>1, <1>10, AskedStays DEF ConfigAsked
  <1> QED BY <1>14, <1>15

\* With the source directory, the configuration of the test cases.
ConfigTold ==
    Readable => /\ Keys(config) = AskedVars \cup {Srcdir}
                /\ \A name \in AskedVars \ {Srcdir} : Value(config, name) = AskedValue(name)

\* As many names as there are to be, and for C what is in the one.
Counted ==
    /\ Len(req.names) = IF Asks.list THEN 0 ELSE 1
    /\ ~Cxx /\ ~Asks.list => /\ opts.tcname = Asks.arg.name /\ opts.part = Asks.arg.part
                             /\ Asks.arg.part # "wrong"

LEMMA OptsStay ==
    ASSUME UNCHANGED request, opts' = opts
    PROVE  (Parsed' <=> Parsed) /\ (Counted' <=> Counted)
  <1>1. Parsed' <=> Parsed
    BY AskedStays, AskedDirStays, ProgramStays DEF Parsed
  <1>2. Counted' <=> Counted
    BY AskedStays, ProgramStays DEF Counted
  <1> QED BY <1>1, <1>2

LEMMA ConfigStays ==
    ASSUME UNCHANGED request, config' = config
    PROVE  (ConfigAsked' <=> ConfigAsked) /\ (ConfigTold' <=> ConfigTold)
  <1>1. ConfigAsked' <=> ConfigAsked
    BY AskedStays DEF ConfigAsked
  <1>2. ConfigTold' <=> ConfigTold
    BY AskedStays DEF ConfigTold
  <1> QED BY <1>1, <1>2

\* A process that ends with one of the faults, and nothing run or listed,
\* ends as it was asked to.
LEMMA FailsAsAsked ==
    ASSUME UNCHANGED request, ran' = Empty, listed' = Empty,
           Writable /\ Readable /\ Separate /\ ~AtRoot => outcome' \in Complaints
    PROVE  EndsAsAsked'
  <1>1. /\ Writable' <=> Writable
        /\ Readable' <=> Readable
        /\ Separate' <=> Separate
        /\ AtRoot' <=> AtRoot
        /\ Complaints' = Complaints
    BY AskedStays, AskedDirStays
  <1> QED BY <1>1 DEF EndsAsAsked

\* The number of names is looked at, and in C the one name.
LEMMA NamesAsked ==
    ASSUME IInv, Parsed, Names \/ CxxNames
    PROVE  \/ /\ pc' = "ended" /\ outcome' \in Complaints
           \/ /\ pc' = IF Cxx THEN "add" ELSE "srcdir"
              /\ Parsed' /\ Counted' /\ config' = config
  <1>1. req \in Requests /\ opts \in Params
    BY InvTyped DEF IInv
  <1>2. UNCHANGED request
    BY DEF Names, CxxNames
  <1>3. opts.names = req.names /\ (opts.list <=> Asks.list)
    BY DEF Parsed
  <1>4. Len(req.names) \in Nat /\ (Len(req.names) = 0 <=> req.names = Empty)
    <2>1. req.names \in Lines
      BY <1>1, RequestTyped
    <2> QED BY <2>1 DEF Lines, Empty
  <1> DEFINE want == IF Asks.list THEN 0 ELSE 1
             arg == TestCaseArg(req.names[1])
  <1>5. "usage" \in NamesFault => "usage" \in Complaints
    BY <1>1, ComplaintsAre
  <1>6. CASE Len(req.names) # want
    <2>1. Fail("usage")
      BY <1>3, <1>6 DEF Names, CxxNames
    <2>2. ~NamesServe
      BY <1>4, <1>6 DEF NamesServe
    <2> QED BY <1>5, <2>1, <2>2 DEF Fail, Finish, NamesFault
  <1>7. CASE Len(req.names) = want /\ (Cxx \/ Asks.list)
    <2>1. pc' = (IF Cxx THEN "add" ELSE "srcdir") /\ opts' = opts /\ config' = config
      BY <1>3, <1>7 DEF Names, CxxNames, Goto
    <2>2. Counted
      BY <1>7 DEF Counted
    <2> QED BY <1>2, <2>1, <2>2, OptsStay
  <1>8. CASE Len(req.names) = want /\ ~Cxx /\ ~Asks.list
    <2>1. Asks.arg = arg
      BY <1>8 DEF Asks
    <2>2. IF arg.part = "wrong" THEN Fail("usage")
          ELSE /\ opts' = [opts EXCEPT !.tcname = arg.name, !.part = arg.part]
               /\ Goto("srcdir")
               /\ UNCHANGED config
      BY <1>3, <1>8 DEF Names, CxxNames
    <2> HIDE DEF arg
    <2>3. CASE arg.part = "wrong"
      <3>1. ~NamesServe
        BY <1>8, <2>1, <2>3 DEF NamesServe
      <3> QED BY <1>5, <2>2, <2>3, <3>1 DEF Fail, Finish, NamesFault
    <2>4. CASE arg.part # "wrong"
      <3> DEFINE x == arg.name
                 y == arg.part
      <3>1. opts' = [opts EXCEPT !.tcname = x, !.part = y]
        BY <2>2, <2>4
      <3> HIDE DEF x, y
      <3>2. /\ opts'.srcdir = opts.srcdir /\ opts'.list = opts.list /\ opts'.resfile = opts.resfile
            /\ opts'.names = opts.names /\ opts'.tcname = x /\ opts'.part = y
        BY <1>1, <3>1 DEF Params
      <3>3. pc' = "srcdir" /\ config' = config
        BY <2>2, <2>4 DEF Goto
      <3>4. Parsed'
        BY <1>2, <3>2, AskedStays, AskedDirStays, ProgramStays DEF Parsed
      <3>5. Counted'
        <4>1. Asks' = Asks /\ Cxx' = Cxx /\ req' = req
          BY <1>2, AskedStays, ProgramStays
        <4> QED BY <1>8, <2>1, <2>4, <3>2, <4>1 DEF Counted, x, y
      <3> QED BY <1>8, <3>3, <3>4, <3>5
    <2> QED BY <2>3, <2>4
  <1> QED BY <1>6, <1>7, <1>8

-----------------------------------------------------------------------------
(* The search for the program, and the test cases *)

\* The program is found where it was asked for, or it is a fault that it is not.
LEMMA LookAsked ==
    ASSUME IInv, pc = "srcdir", Parsed, ConfigAsked, FindSrcdir \/ CxxFindSrcdir
    PROVE  \/ /\ pc' = "ended" /\ (~AtRoot => outcome' \in Complaints)
           \/ /\ pc' = (IF Cxx THEN "names" ELSE "add") /\ opts' = opts /\ ConfigTold'
  <1>1. /\ req \in Requests /\ host \in Hosts /\ config \in Maps /\ opts.srcdir \in Texts
        /\ (~Cxx => opts.srcdir # Empty)
    BY InvTyped DEF IInv
  <1>2. UNCHANGED request
    BY DEF FindSrcdir, CxxFindSrcdir
  <1> DEFINE exe == Exists(AppendTo(Dir, ProgName))
  <1>3. \/ /\ exe = "yes" /\ config' = Insert(config, Srcdir, Told)
           /\ pc' = (IF Cxx THEN "names" ELSE "add") /\ opts' = opts
        \/ /\ exe # "yes" /\ pc' = "ended"
           /\ outcome' = IF ~Cxx THEN "user" ELSE IF exe = "no" THEN "usage" ELSE "thrown"
    <2>1. CASE ~Cxx
      <3>1. Dir = SourceDir /\ Told = SourceDir
        BY <2>1 DEF Dir, Told
      <3> QED BY <2>1, <3>1 DEF FindSrcdir, CxxFindSrcdir, Fail, Finish, Goto
    <2>2. CASE Cxx
      <3>1. Dir = CxxSourceDir /\ Told = CxxMakeAbsolute(CxxSourceDir)
        BY <2>2 DEF Dir, Told
      <3> QED BY <2>2, <3>1 DEF FindSrcdir, CxxFindSrcdir, Fail, Finish, Goto
    <2> QED BY <2>1, <2>2
  <1>4. Told \in Texts
    <2>1. CASE ~Cxx
      BY <1>1, <2>1, SourceDirIs DEF Told, Dir
    <2>2. CASE Cxx
      BY <1>1, <2>2, CxxSourceDirIs, CxxToldTyped DEF Told, Dir
    <2> QED BY <2>1, <2>2
  <1>5. ASSUME ~AtRoot PROVE exe = Exists(AppendTo(AskedDir, ProgName))
    BY <1>1, <1>5, AskedSTyped, DirIsAsked DEF Parsed
  <1> HIDE DEF exe
  <1>6. CASE /\ exe = "yes" /\ config' = Insert(config, Srcdir, Told)
             /\ pc' = (IF Cxx THEN "names" ELSE "add") /\ opts' = opts
    <2> DEFINE u == Insert(config, Srcdir, Told)
    <2>1. /\ Keys(u) = Keys(config) \cup {Srcdir}
          /\ \A key : key # Srcdir /\ key \in Keys(config) => Value(u, key) = Value(config, key)
      BY <1>1, <1>4, TestTokens, InsertTable
    <2>2. config' = u
      BY <1>6
    <2> HIDE DEF u
    <2>3. /\ Readable' <=> Readable
          /\ AskedVars' = AskedVars
          /\ \A name : AskedValue(name)' = AskedValue(name)
      BY <1>2, AskedStays
    <2>4. ASSUME Readable
          PROVE  /\ Keys(u) = AskedVars \cup {Srcdir}
                 /\ \A name \in AskedVars \ {Srcdir} : Value(u, name) = AskedValue(name)
      <3>1. Keys(config) = AskedVars /\ \A name \in AskedVars : Value(config, name) = AskedValue(name)
        BY <2>4 DEF ConfigAsked
      <3> QED BY <2>1, <3>1
    <2>5. ConfigTold'
      BY <2>2, <2>3, <2>4 DEF ConfigTold
    <2> QED BY <1>6, <2>5
  <1>7. CASE /\ exe # "yes" /\ pc' = "ended"
             /\ outcome' = IF ~Cxx THEN "user" ELSE IF exe = "no" THEN "usage" ELSE "thrown"
    <2>1. ASSUME ~AtRoot PROVE outcome' \in Complaints
      <3>1. outcome' \in ExeFault
        BY <1>5, <1>7, <2>1 DEF ExeFault
      <3> QED BY <1>1, <3>1, ComplaintsAre
    <2> QED BY <1>7, <2>1
  <1> QED BY <1>3, <1>6, <1>7

\* What a test case says of itself.
Meta(vs, t) ==
    /\ vs \in Maps /\ Distinct(vs)
    /\ Keys(vs) = Keys(t.head) \cup {Ident} \cup (IF t.cleanup THEN {HasCleanup} ELSE {})
    /\ \A k \in Keys(t.head) : Value(vs, k) = LastOf(t.head, k)
    /\ Ident \notin Keys(t.head) => Value(vs, Ident) = t.ident
    /\ t.cleanup /\ HasCleanup \notin Keys(t.head) => Value(vs, HasCleanup) = <<"true">>

LEMMA MetaIs ==
    ASSUME NEW t \in [ident : Texts, head : Seq(Entries), cleanup : BOOLEAN],
           NEW m \in Maps, Distinct(m)
    PROVE  LET tc == TcInit(t, ToCharpp(m))
           IN  tc.ident = t.ident /\ tc.cleanup = t.cleanup /\ Meta(tc.vars, t)
  <1> DEFINE given == Insert(Empty, Ident, t.ident)
             start == IF t.cleanup THEN Insert(given, HasCleanup, <<"true">>) ELSE given
             vs == InsertAll(start, t.head)
  <1>1. t.ident \in Texts /\ t.head \in Seq(Entries) /\ t.cleanup \in BOOLEAN
    OBVIOUS
  <1>2. Ident # HasCleanup
    BY DEF Ident, HasCleanup
  <1>3. TcInit(t, ToCharpp(m)).vars = vs /\ TcInit(t, ToCharpp(m)).ident = t.ident
        /\ TcInit(t, ToCharpp(m)).cleanup = t.cleanup
    BY DEF TcInit
  <1>4. given \in Maps /\ Distinct(given) /\ Keys(given) = {Ident} /\ Value(given, Ident) = t.ident
    <2>1. Keys(Empty) = {}
      BY DEF Keys, Empty
    <2>2. Empty \in Maps /\ Distinct(Empty) /\ Ident \in Texts
      BY NoEntries, TestTokens
    <2>3. given \in Maps /\ Distinct(given)
      BY <1>1, <2>2, InsertIs
    <2>4. Keys(given) = Keys(Empty) \cup {Ident} /\ Value(given, Ident) = t.ident
      BY <1>1, <2>2, InsertTable
    <2> QED BY <2>1, <2>3, <2>4
  <1> HIDE DEF given
  <1>5. /\ start \in Maps /\ Distinct(start)
        /\ Keys(start) = {Ident} \cup (IF t.cleanup THEN {HasCleanup} ELSE {})
        /\ Value(start, Ident) = t.ident
        /\ t.cleanup => Value(start, HasCleanup) = <<"true">>
    <2>1. CASE ~t.cleanup
      BY <1>4, <2>1
    <2>2. CASE t.cleanup
      <3> DEFINE true == <<"true">>
                 more == Insert(given, HasCleanup, true)
      <3>1. true \in Texts /\ HasCleanup \in Texts
        BY TestTokens
      <3> HIDE DEF true
      <3>2. more \in Maps /\ Distinct(more)
        BY <1>4, <3>1, InsertIs
      <3>3. /\ Keys(more) = Keys(given) \cup {HasCleanup}
            /\ Value(more, HasCleanup) = true
            /\ \A key : key # HasCleanup /\ key \in Keys(given) => Value(more, key) = Value(given, key)
        BY <1>4, <3>1, InsertTable
      <3>4. start = more
        BY <2>2 DEF true
      <3> HIDE DEF more
      <3> QED BY <1>2, <1>4, <2>2, <3>2, <3>3, <3>4 DEF true
    <2> QED BY <1>1, <2>1, <2>2
  <1> HIDE DEF start
  <1>6. /\ vs \in Maps /\ Keys(vs) = Keys(start) \cup Keys(t.head)
        /\ \A key \in Keys(t.head) : Value(vs, key) = LastOf(t.head, key)
        /\ \A key \in Keys(start) : key \notin Keys(t.head) => Value(vs, key) = Value(start, key)
        /\ Distinct(start) => Distinct(vs)
    BY <1>1, <1>5, InsertAllIs
  <1> HIDE DEF vs
  <1>7. Meta(vs, t)
    BY <1>5, <1>6 DEF Meta
  <1> QED BY <1>3, <1>7

\* A test case is made of its declaration, whose identifier its head leaves.
MadeOf(tc, t) ==
    /\ tc.ident = t.ident /\ tc.cleanup = t.cleanup
    /\ Meta(tc.vars, t) /\ Value(tc.vars, Ident) = tc.ident

Testing == \A i \in 1..Len(tcs) : MadeOf(tcs[i], Tests[i])

LEMMA AddAsked ==
    ASSUME IInv, Testing, AddTc \/ CxxAddTc
    PROVE  /\ Testing' /\ UNCHANGED <<request, opts, config, ran, listed>>
           /\ pc' \in {"add", "ended"}
           /\ pc' = "ended" => outcome' \in Complaints
  <1> DEFINE t == NextTest
             tc == TcInit(t, ToCharpp(config))
  <1>1. Adding /\ UNCHANGED <<request, ran, listed>> /\ Added(tc)
    <2>1. InitCharpp(ToCharpp(config)) = config
      BY InvTyped, CharppRoundTrip
    <2> QED BY <2>1 DEF AddTc, CxxAddTc
  <1>2. req \in Requests /\ config \in Maps /\ Distinct(config) /\ tcs \in Seq(TestCases) /\ Len(tcs) \in Nat
    BY InvTyped DEF IInv
  <1>3. t \in [ident : Texts, head : Seq(Entries), cleanup : BOOLEAN]
    BY <1>1, NextTestTyped
  <1>4. t = Tests[Len(tcs) + 1]
    BY DEF NextTest
  <1> HIDE DEF t
  <1>5. tc.ident = t.ident /\ tc.cleanup = t.cleanup /\ Meta(tc.vars, t) /\ tc \in TestCases
    BY <1>2, <1>3, MetaIs, TcInitIs
  <1> HIDE DEF tc
  <1>6. opts' = opts /\ config' = config /\ pc' \in {"add", "ended"}
    BY <1>1 DEF Added, Fail, Finish, Goto
  <1>7. CASE Value(tc.vars, Ident) # tc.ident
    <2>1. pc' = "ended" /\ outcome' = "abort" /\ tcs' = tcs
      BY <1>1, <1>7 DEF Added, Fail, Finish
    <2>2. Ident \in Keys(t.head) /\ LastOf(t.head, Ident) # t.ident
      BY <1>5, <1>7 DEF Meta
    <2>3. t \in Range(Tests)
      <3>1. Tests \in Seq([ident : Texts, head : Seq(Entries), cleanup : BOOLEAN])
        BY AtfProgramAssumption DEF Entries
      <3>2. Len(tcs) + 1 \in 1..Len(Tests) /\ DOMAIN Tests = 1..Len(Tests)
        BY <1>1, <1>2, <3>1 DEF Adding
      <3> QED BY <1>4, <3>2 DEF Range
    <2>4. "abort" \in IdentFault
      BY <2>2, <2>3 DEF IdentFault
    <2>5. Testing'
      BY <2>1 DEF Testing, MadeOf
    <2> QED BY <1>1, <1>2, <1>6, <2>1, <2>4, <2>5, ComplaintsAre
  <1>8. CASE Value(tc.vars, Ident) = tc.ident
    <2>1. tcs' = Append(tcs, tc) /\ pc' = "add"
      BY <1>1, <1>8 DEF Added, Goto
    <2>2. MadeOf(tc, t)
      BY <1>5, <1>8 DEF MadeOf
    <2> DEFINE u == Append(tcs, tc)
               n == Len(tcs)
    <2>3. Len(u) = n + 1 /\ u[n + 1] = tc /\ \A i \in 1..n : u[i] = tcs[i]
      BY <1>2, <1>5, Appended
    <2>4. tcs' = u
      BY <2>1
    <2> HIDE DEF u
    <2>5. ASSUME NEW i \in 1..(n + 1) PROVE MadeOf(u[i], Tests[i])
      <3>1. CASE i = n + 1
        BY <1>4, <2>2, <2>3, <3>1
      <3>2. CASE i # n + 1
        <4>1. i \in 1..n
          BY <1>2, <3>2
        <4> QED BY <2>3, <4>1 DEF Testing
      <3> QED BY <3>1, <3>2
    <2>6. Testing'
      BY <2>3, <2>4, <2>5 DEF Testing
    <2> QED BY <1>1, <1>6, <2>1, <2>6
  <1> QED BY <1>7, <1>8

-----------------------------------------------------------------------------
(* The last step *)

LEMMA TestsTyped ==
    /\ Len(Tests) \in Nat /\ DOMAIN Tests = 1..Len(Tests)
    /\ \A i \in 1..Len(Tests) : Tests[i] \in [ident : Texts, head : Seq(Entries), cleanup : BOOLEAN]
    /\ \A t \in Range(Tests) : \E i \in 1..Len(Tests) : t = Tests[i]
    /\ \A i \in 1..Len(Tests) : Tests[i] \in Range(Tests)
    /\ \A i, j \in 1..Len(Tests) : Tests[i].ident = Tests[j].ident => i = j
  <1>1. Tests \in Seq([ident : Texts, head : Seq(Entries), cleanup : BOOLEAN])
    BY AtfProgramAssumption DEF Entries
  <1>2. /\ Len(Tests) \in Nat /\ DOMAIN Tests = 1..Len(Tests)
        /\ \A i \in 1..Len(Tests) : Tests[i] \in [ident : Texts, head : Seq(Entries), cleanup : BOOLEAN]
    BY <1>1, Typed
  <1>3. \A i, j \in DOMAIN Tests : Tests[i].ident = Tests[j].ident => i = j
    BY AtfProgramAssumption
  <1> QED BY <1>2, <1>3 DEF Range

\* All the test cases are there, as they are declared.
LEMMA ReadyIs ==
    ASSUME IInv, Ready, Testing
    PROVE  /\ tcs \in Seq(TestCases) /\ Len(tcs) = Len(Tests) /\ DOMAIN tcs = 1..Len(Tests)
           /\ \A i \in 1..Len(Tests) : MadeOf(tcs[i], Tests[i]) /\ tcs[i] \in TestCases
  <1>1. tcs \in Seq(TestCases) /\ Len(tcs) = Len(Tests)
    BY InvTyped DEF Ready
  <1>2. DOMAIN tcs = 1..Len(tcs) /\ \A i \in 1..Len(tcs) : tcs[i] \in TestCases
    BY <1>1, Typed
  <1> QED BY <1>1, <1>2 DEF Testing

\* Nothing is left to complain about but the names.
LEMMA ReadyServes ==
    ASSUME IInv, Ready, Testing, Parsed, Readable, ~AtRoot, NamesServe
    PROVE  Complaints = {}
  <1>1. /\ req \in Requests /\ host \in Hosts
        /\ Found
    BY DEF IInv, Searched, Ready
  <1>2. Faultless
    BY DEF Parsed
  <1>3. ExeFault = {}
    <2>1. Exists(AppendTo(Dir, ProgName)) = Exists(AppendTo(AskedDir, ProgName))
      BY <1>1, AskedSTyped, DirIsAsked DEF Parsed
    <2> QED BY <1>1, <2>1 DEF Found, ExeFault
  <1>4. IdentFault = {}
    <2>1. ASSUME NEW t \in Range(Tests), Ident \in Keys(t.head) PROVE LastOf(t.head, Ident) = t.ident
      <3>1. PICK i \in 1..Len(Tests) : t = Tests[i]
        BY TestsTyped
      <3>2. MadeOf(tcs[i], t)
        BY <3>1, ReadyIs
      <3> QED BY <2>1, <3>2 DEF MadeOf, Meta
    <2> QED BY <2>1 DEF IdentFault
  <1>5. NamesFault = {}
    BY DEF NamesFault
  <1> QED BY <1>1, <1>2, <1>3, <1>4, <1>5, ComplaintsAre

\* The entries of a map in which no key is twice.
LEMMA TableIs ==
    ASSUME NEW m \in Maps, Distinct(m)
    PROVE  \A kv : kv \in Range(m) <=> \E k \in Keys(m) : kv = <<k, Value(m, k)>>
  <1>1. Len(m) \in Nat /\ DOMAIN m = 1..Len(m) /\ \A i \in 1..Len(m) : m[i] \in Entries
    BY MapTyped
  <1>2. ASSUME NEW i \in 1..Len(m) PROVE m[i][1] \in Keys(m) /\ m[i] = <<m[i][1], Value(m, m[i][1])>>
    <2>1. Find(m, m[i][1]) = i
      <3>1. \A j \in 1..Len(m) : m[j][1] = m[i][1] => j = i
        BY DEF Distinct
      <3> QED BY <3>1, FindOnly
    <2>2. m[i] = <<m[i][1], m[i][2]>>
      BY <1>1 DEF Entries
    <2> QED BY <1>1, <2>1, <2>2 DEF Keys, Value
  <1>3. \A k \in Keys(m) : \E i \in 1..Len(m) : k = m[i][1]
    BY <1>1 DEF Keys
  <1>4. \A kv : kv \in Range(m) <=> \E i \in 1..Len(m) : kv = m[i]
    BY <1>1 DEF Range
  <1>5. ASSUME NEW kv \in Range(m) PROVE \E k \in Keys(m) : kv = <<k, Value(m, k)>>
    <2>1. PICK i \in 1..Len(m) : kv = m[i]
      BY <1>4
    <2> QED BY <1>2, <2>1
  <1>6. ASSUME NEW k \in Keys(m) PROVE <<k, Value(m, k)>> \in Range(m)
    <2>1. PICK i \in 1..Len(m) : k = m[i][1]
      BY <1>3
    <2>2. m[i] = <<k, Value(m, k)>>
      BY <1>2, <2>1
    <2> QED BY <1>4, <2>2
  <1> QED BY <1>5, <1>6

\* What is listed of a test case is what it was asked to say of itself.
LEMMA ListingIs ==
    ASSUME NEW tc, NEW t, MadeOf(tc, t)
    PROVE  Listing(tc) = [ident |-> t.ident, rest |-> AskedMeta(t)]
  <1> DEFINE vs == tc.vars
             said(k) == IF k \in Keys(t.head) THEN LastOf(t.head, k) ELSE <<"true">>
             ks == (Keys(t.head) \cup (IF t.cleanup THEN {HasCleanup} ELSE {})) \ {Ident}
             rest == {kv \in Range(vs) : kv[1] # Ident}
  <1>1. /\ vs \in Maps /\ Distinct(vs) /\ Value(vs, Ident) = t.ident
        /\ Keys(vs) \ {Ident} = ks
        /\ \A k \in ks : Value(vs, k) = said(k)
    BY DEF MadeOf, Meta
  <1>2. \A kv : kv \in Range(vs) <=> \E k \in Keys(vs) : kv = <<k, Value(vs, k)>>
    BY <1>1, TableIs
  <1>3. Listing(tc) = [ident |-> Value(vs, Ident), rest |-> rest]
    BY DEF Listing
  <1>4. AskedMeta(t) = {<<k, said(k)>> : k \in ks}
    BY DEF AskedMeta
  <1> HIDE DEF vs, ks, said
  <1>5. \A kv : kv \in rest <=> \E k \in ks : kv = <<k, said(k)>>
    <2>1. ASSUME NEW kv \in rest PROVE \E k \in ks : kv = <<k, said(k)>>
      <3>1. PICK k \in Keys(vs) : kv = <<k, Value(vs, k)>>
        BY <1>2
      <3>2. k # Ident
        BY <3>1
      <3>3. k \in ks
        BY <1>1, <3>2
      <3> QED BY <1>1, <3>1, <3>3
    <2>2. ASSUME NEW k \in ks PROVE <<k, said(k)>> \in rest
      <3>1. k \in Keys(vs) /\ k # Ident /\ Value(vs, k) = said(k)
        BY <1>1
      <3>2. <<k, said(k)>> \in Range(vs)
        BY <1>2, <3>1
      <3> QED BY <3>1, <3>2
    <2> QED BY <2>1, <2>2
  <1> HIDE DEF rest
  <1>6. rest = AskedMeta(t)
    BY <1>4, <1>5
  <1> QED BY <1>1, <1>3, <1>6

\* -l lists what was asked for, and succeeds.
LEMMA ListAsked ==
    ASSUME IInv, Testing, Parsed, Counted, ran = Empty, List \/ CxxList
    PROVE  pc' = "ended" /\ EndsAsAsked' /\ ran' = ran
  <1>1. /\ Ready /\ opts.list /\ UNCHANGED <<request, ran>>
        /\ pc' = "ended" /\ outcome' = "success"
    BY DEF List, CxxList, Finish
  <1>2. /\ DOMAIN tcs = 1..Len(Tests)
        /\ \A i \in 1..Len(Tests) : MadeOf(tcs[i], Tests[i]) /\ tcs[i] \in TestCases
    BY <1>1, ReadyIs
  <1>3. listed' = AskedList
    <2>1. listed' = [i \in DOMAIN tcs |-> Listing(tcs[i])]
      <3>1. CASE List
        BY <3>1 DEF List
      <3>2. CASE CxxList
        <4>1. ASSUME NEW i \in DOMAIN tcs
              PROVE  Listing([tcs[i] EXCEPT !.vars = InitCharpp(ToCharpp(@))]) = Listing(tcs[i])
          <5>1. MadeOf(tcs[i], Tests[i]) /\ tcs[i] \in TestCases
            BY <1>2
          <5> DEFINE tc == tcs[i]
                     vs == InitCharpp(ToCharpp(tc.vars))
          <5>2. vs = tc.vars
            BY <5>1, CharppRoundTrip DEF MadeOf, Meta
          <5> HIDE DEF vs, tc
          <5>3. [tc EXCEPT !.vars = vs].vars = tc.vars
            BY <5>1, <5>2 DEF TestCases, tc
          <5>4. Listing([tc EXCEPT !.vars = vs]) = Listing(tc)
            BY <5>3 DEF Listing
          <5> QED BY <5>4 DEF vs, tc
        <4>2. listed' = [i \in DOMAIN tcs |-> Listing([tcs[i] EXCEPT !.vars = InitCharpp(ToCharpp(@))])]
          BY <3>2 DEF CxxList
        <4> QED BY <4>1, <4>2
      <3> QED BY <3>1, <3>2
    <2>2. \A i \in 1..Len(Tests) : Listing(tcs[i]) = [ident |-> Tests[i].ident, rest |-> AskedMeta(Tests[i])]
      BY <1>2, ListingIs
    <2> QED BY <1>2, <2>1, <2>2, TestsTyped DEF AskedList
  <1>4. Asks.list
    BY <1>1 DEF Parsed
  <1>5. NamesServe
    <2>1. req.names = Empty
      <3>1. req.names \in Lines
        BY RequestTyped DEF IInv
      <3>2. Len(req.names) = 0
        BY <1>4 DEF Counted
      <3> QED BY <3>1, <3>2 DEF Lines, Empty
    <2> QED BY <1>4, <2>1 DEF NamesServe
  <1>6. Readable /\ ~AtRoot => Complaints = {}
    BY <1>1, <1>5, ReadyServes
  <1>7. /\ Readable' <=> Readable
        /\ AtRoot' <=> AtRoot
        /\ Complaints' = Complaints /\ Asks' = Asks
    BY <1>1, AskedStays, AskedDirStays
  <1>8. ran' = Empty
    BY <1>1
  <1>9. EndsAsAsked'
    BY <1>1, <1>3, <1>4, <1>6, <1>7, <1>8 DEF EndsAsAsked
  <1> QED BY <1>1, <1>9

\* The test case of a name.
LEMMA FindTcIs ==
    ASSUME IInv, Ready, Testing, NEW name
    PROVE  /\ CxxFindTc(name) = FindTc(name)
           /\ FindTc(name) = {} => ~\E t \in Range(Tests) : t.ident = name
           /\ \A i \in FindTc(name) : i \in 1..Len(Tests) /\ tcs[i].ident = name
  <1> DEFINE n == Len(Tests)
  <1>1. DOMAIN tcs = 1..n /\ n \in Nat
        /\ \A i \in 1..n : Value(tcs[i].vars, Ident) = tcs[i].ident /\ tcs[i].ident = Tests[i].ident
    BY ReadyIs, TestsTyped DEF MadeOf
  <1> HIDE DEF n
  <1>2. CxxFindTc(name) = FindTc(name)
    <2>1. \A i \in 1..n : \A j \in 1..(i - 1) : j \in 1..n
      BY <1>1
    <2> QED BY <1>1, <2>1 DEF CxxFindTc, FindTc
  <1>3. ASSUME NEW t \in Range(Tests), t.ident = name PROVE FindTc(name) # {}
    <2> DEFINE s == {i \in 1..n : tcs[i].ident = name}
    <2>1. PICK k \in 1..n : t = Tests[k]
      BY TestsTyped DEF n
    <2>2. k \in s /\ s \in SUBSET (1..n)
      BY <1>1, <1>3, <2>1
    <2>3. Min(s) \in s /\ \A y \in s : Min(s) <= y
      <3> HIDE DEF s
      <3>1. s # {}
        BY <2>2
      <3> QED BY <1>1, <2>2, <3>1, MinIn
    <2> DEFINE i == Min(s)
    <2>4. i \in 1..n /\ tcs[i].ident = name
      BY <2>3
    <2>5. \A j \in 1..(i - 1) : tcs[j].ident # name
      <3> HIDE DEF i
      <3>1. \A y \in s : i <= y
        BY <2>3 DEF i
      <3>2. ASSUME NEW j \in 1..(i - 1), tcs[j].ident = name PROVE FALSE
        <4>1. j \in 1..n /\ j < i
          BY <1>1, <2>4
        <4>2. j \in s
          BY <3>2, <4>1
        <4> HIDE DEF s
        <4> QED BY <2>4, <3>1, <4>1, <4>2
      <3> QED BY <3>2
    <2> HIDE DEF i
    <2> QED BY <1>1, <2>4, <2>5 DEF FindTc
  <1>4. \A i \in FindTc(name) : i \in 1..n /\ tcs[i].ident = name
    BY <1>1 DEF FindTc
  <1> QED BY <1>2, <1>3, <1>4 DEF n

\* What a body got is what was asked for.
GotAsAsked ==
    Readable =>
        \A run \in {p \in Range(ran) : p.part = "body" /\ p.query.name # Srcdir} :
            LET q == run.query IN
            run.got = IF q.name \notin AskedVars THEN q.default
                      ELSE CASE q.kind = "bool" -> ToBool(AskedValue(q.name))
                             [] q.kind = "long" -> ToLong(AskedValue(q.name))
                             [] OTHER -> AskedValue(q.name)

LEMMA NothingGot == ASSUME ran = Empty PROVE GotAsAsked
  <1>1. Range(ran) = {}
    BY DEF Range, Empty
  <1> QED BY <1>1 DEF GotAsAsked

\* A variable has the value that was asked for, or the default.
LEMMA VarIsAsked ==
    ASSUME IInv, ConfigTold, Readable, NEW tc, tc.config = config, NEW q, q.name # Srcdir
    PROVE  (CASE q.kind = "bool" -> GetConfigVarAsBool(tc, q)
              [] q.kind = "long" -> GetConfigVarAsLong(tc, q)
              [] OTHER -> GetConfigVar(tc, q))
           = IF q.name \notin AskedVars THEN q.default
             ELSE CASE q.kind = "bool" -> ToBool(AskedValue(q.name))
                    [] q.kind = "long" -> ToLong(AskedValue(q.name))
                    [] OTHER -> AskedValue(q.name)
  <1> DEFINE name == q.name
             v == AskedValue(name)
  <1>1. config \in Maps
    BY InvTyped
  <1>2. Has(config, name) <=> name \in AskedVars
    BY <1>1, HasKey DEF ConfigTold
  <1>3. name \in AskedVars => Value(config, name) = v
    BY DEF ConfigTold
  <1> HIDE DEF v
  <1>4. CASE name \in AskedVars
    <2>1. /\ GetConfigVarAsBool(tc, q) = ToBool(v)
          /\ GetConfigVarAsLong(tc, q) = ToLong(v)
          /\ GetConfigVar(tc, q) = v
      BY <1>2, <1>3, <1>4 DEF GetConfigVarAsBool, GetConfigVarAsLong, GetConfigVar
    <2> QED BY <1>4, <2>1 DEF v
  <1>5. CASE name \notin AskedVars
    <2>1. /\ GetConfigVarAsBool(tc, q) = q.default
          /\ GetConfigVarAsLong(tc, q) = q.default
          /\ GetConfigVar(tc, q) = q.default
      BY <1>2, <1>5 DEF GetConfigVarAsBool, GetConfigVarAsLong, GetConfigVar
    <2> QED BY <1>5, <2>1
  <1> QED BY <1>4, <1>5

LEMMA NothingGotNext == ASSUME ran' = Empty PROVE GotAsAsked'
  <1>1. Range(ran') = {}
    BY DEF Range, Empty
  <1> QED BY <1>1 DEF GotAsAsked

LEMMA OnlyRan == ASSUME NEW r PROVE Range(<<r>>) = {r} /\ Len(<<r>>) = 1 /\ <<r>>[1] = r
  BY DEF Range

\* What there is to run is run, and what it gets is what was asked for.
LEMMA RunAsked ==
    ASSUME IInv, Testing, Parsed, Counted, ConfigTold, ran = Empty, listed = Empty, Run \/ CxxRun
    PROVE  pc' = "ended" /\ EndsAsAsked' /\ GotAsAsked'
  <1> DEFINE name == Asks.arg.name
             part == Asks.arg.part
  <1>1. /\ Ready /\ ~opts.list /\ UNCHANGED <<request, opts, config, tcs, listed>>
        /\ req \in Requests
    BY DEF Run, CxxRun, IInv
  <1>2. /\ ~Asks.list /\ Len(req.names) = 1 /\ Asks.arg = TestCaseArg(req.names[1])
        /\ opts.names = req.names
    BY <1>1 DEF Parsed, Counted, Asks
  <1>3. part \in {"body", "cleanup", "wrong"}
    BY <1>2 DEF TestCaseArg
  <1>4. CxxFindTc(name) = FindTc(name)
    BY <1>1, FindTcIs
  <1>5. \/ Unknown /\ (part = "wrong" \/ FindTc(name) = {})
        \/ part # "wrong" /\ \E i \in FindTc(name) : RunPart(tcs[i], part)
    <2>1. CASE Run
      <3>1. opts.tcname = name /\ opts.part = part /\ part # "wrong"
        BY <1>2, <2>1 DEF Counted, Run
      <3> HIDE DEF name, part
      <3> QED BY <2>1, <3>1 DEF Run
    <2>2. CASE CxxRun
      <3>1. TestCaseArg(opts.names[1]) = Asks.arg
        BY <1>2
      <3>2. IF part = "wrong" \/ CxxFindTc(name) = {} THEN Unknown
            ELSE \E i \in CxxFindTc(name) : RunPart(tcs[i], part)
        BY <2>2, <3>1 DEF CxxRun
      <3> HIDE DEF name, part
      <3> QED BY <1>4, <3>2
    <2> QED BY <2>1, <2>2
  <1>6. /\ Readable' <=> Readable
        /\ Writable' <=> Writable
        /\ AtRoot' <=> AtRoot
        /\ Complaints' = Complaints /\ Asks' = Asks /\ AskedResfile' = AskedResfile
        /\ AskedVars' = AskedVars
        /\ \A x : AskedValue(x)' = AskedValue(x)
    BY <1>1, AskedStays, AskedDirStays
  <1>7. CASE Unknown /\ (part = "wrong" \/ FindTc(name) = {})
    <2>1. ran' = Empty /\ listed' = Empty /\ pc' = "ended" /\ outcome' = "usage"
      BY <1>1, <1>7 DEF Unknown, Finish
    <2>2. ~NamesServe
      BY <1>1, <1>2, <1>7, FindTcIs DEF NamesServe
    <2>3. outcome' \in Complaints
      BY <1>1, <2>1, <2>2, ComplaintsAre DEF NamesFault
    <2> QED BY <1>1, <2>1, <2>3, FailsAsAsked, NothingGotNext
  <1>8. CASE part # "wrong" /\ \E i \in FindTc(name) : RunPart(tcs[i], part)
    <2>1. PICK i \in FindTc(name) : RunPart(tcs[i], part)
      BY <1>8
    <2> DEFINE tc == tcs[i]
    <2>2. /\ i \in 1..Len(Tests) /\ tc.ident = name /\ Tests[i].ident = name
          /\ tc.cleanup = Tests[i].cleanup /\ tc.config = config
      <3>1. i \in 1..Len(Tests) /\ tc.ident = name
        BY <1>1, FindTcIs
      <3>2. MadeOf(tc, Tests[i]) /\ Len(tcs) = Len(Tests)
        BY <1>1, <3>1, ReadyIs
      <3>3. tc.config = config
        BY <3>1, <3>2 DEF IInv, WholeConfig
      <3> QED BY <3>1, <3>2, <3>3 DEF MadeOf
    <2>3. NamesServe
      BY <1>2, <1>8, <2>2, TestsTyped DEF NamesServe
    <2>4. Readable /\ ~AtRoot => Complaints = {}
      BY <1>1, <2>3, ReadyServes
    <2>5. AskedPart <=> (part = "cleanup" => tc.cleanup)
      <3>1. \A t \in Range(Tests) : t.ident = name => t = Tests[i]
        BY <2>2, TestsTyped
      <3>2. Tests[i] \in Range(Tests)
        BY <2>2, TestsTyped
      <3> QED BY <2>2, <3>1, <3>2 DEF AskedPart
    <2>6. AskedPart' <=> AskedPart
      BY <1>6 DEF AskedPart
    <2> HIDE DEF tc, name, part
    <2>7. CASE part = "body"
      <3> DEFINE r(q) == [ident |-> tc.ident, part |-> "body", resfile |-> opts.resfile,
                          query |-> q,
                          got |-> CASE q.kind = "bool" -> GetConfigVarAsBool(tc, q)
                                    [] q.kind = "long" -> GetConfigVarAsLong(tc, q)
                                    [] OTHER -> GetConfigVar(tc, q)]
      <3>1. Body(tc)
        BY <2>1, <2>7 DEF RunPart, tc
      <3>2. PICK q \in Queries : ran' = <<r(q)>> /\ Finish("verdict")
        BY <3>1 DEF Body
      <3> DEFINE run == r(q)
      <3>3. /\ run.ident = name /\ run.part = "body" /\ run.resfile = AskedResfile /\ run.query = q
            /\ q.name # Srcdir /\ Readable =>
                 run.got = IF q.name \notin AskedVars THEN q.default
                           ELSE CASE q.kind = "bool" -> ToBool(AskedValue(q.name))
                                  [] q.kind = "long" -> ToLong(AskedValue(q.name))
                                  [] OTHER -> AskedValue(q.name)
        <4>1. run.ident = name /\ run.part = "body" /\ run.resfile = AskedResfile /\ run.query = q
          BY <2>2 DEF Parsed
        <4>2. run.got = CASE q.kind = "bool" -> GetConfigVarAsBool(tc, q)
                          [] q.kind = "long" -> GetConfigVarAsLong(tc, q)
                          [] OTHER -> GetConfigVar(tc, q)
          OBVIOUS
        <4> HIDE DEF run
        <4>3. ASSUME q.name # Srcdir, Readable
              PROVE  run.got = IF q.name \notin AskedVars THEN q.default
                               ELSE CASE q.kind = "bool" -> ToBool(AskedValue(q.name))
                                      [] q.kind = "long" -> ToLong(AskedValue(q.name))
                                      [] OTHER -> AskedValue(q.name)
          BY <2>2, <4>2, <4>3, VarIsAsked
        <4> QED BY <4>1, <4>3
      <3>4. ran' = <<run>> /\ pc' = "ended" /\ outcome' = "verdict" /\ listed' = Empty
        BY <1>1, <3>2 DEF Finish
      <3> HIDE DEF run
      <3>5. Range(ran') = {run} /\ Len(ran') = 1 /\ ran'[1] = run
        BY <3>4, OnlyRan
      <3>6. GotAsAsked'
        BY <1>6, <3>3, <3>5 DEF GotAsAsked
      <3>7. AskedPart
        BY <2>5, <2>7
      <3>8. Asks.arg.part = "body" /\ Asks.arg.name = name
        BY <2>7 DEF part, name
      <3>9. EndsAsAsked'
        BY <1>2, <1>6, <2>4, <2>6, <3>3, <3>4, <3>5, <3>7, <3>8 DEF EndsAsAsked
      <3> QED BY <3>4, <3>6, <3>9
    <2>8. CASE part = "cleanup"
      <3>1. Cleanup(tc)
        BY <2>1, <2>8 DEF RunPart, tc
      <3> DEFINE run == [ident |-> tc.ident, part |-> "cleanup"]
      <3>2. /\ ran' = IF tc.cleanup THEN <<run>> ELSE Empty
            /\ pc' = "ended" /\ outcome' = "success" /\ listed' = Empty
        BY <1>1, <3>1 DEF Cleanup, Finish
      <3>3. run.ident = name /\ run.part = "cleanup"
        BY <2>2
      <3> HIDE DEF run
      <3>4. AskedPart <=> tc.cleanup
        BY <2>5, <2>8
      <3>5. Asks.arg.part = "cleanup" /\ Asks.arg.name = name
        BY <2>8 DEF part, name
      <3>6. CASE tc.cleanup
        <4>1. ran' = <<run>>
          BY <3>2, <3>6
        <4>2. Range(ran') = {run} /\ Len(ran') = 1 /\ ran'[1] = run
          BY <4>1, OnlyRan
        <4>3. GotAsAsked'
          BY <3>3, <4>2 DEF GotAsAsked
        <4>4. EndsAsAsked'
          BY <1>2, <1>6, <2>4, <2>6, <3>2, <3>3, <3>4, <3>5, <3>6, <4>2 DEF EndsAsAsked
        <4> QED BY <3>2, <4>3, <4>4
      <3>7. CASE ~tc.cleanup
        <4>1. ran' = Empty
          BY <3>2, <3>7
        <4>2. Len(ran') = 0
          BY <4>1 DEF Empty
        <4>3. EndsAsAsked'
          BY <1>2, <1>6, <2>4, <2>6, <3>2, <3>4, <3>5, <3>7, <4>2 DEF EndsAsAsked
        <4> QED BY <3>2, <4>1, <4>3, NothingGotNext
      <3> QED BY <3>6, <3>7
    <2> QED BY <1>3, <1>8, <2>7, <2>8 DEF part
  <1> QED BY <1>5, <1>7, <1>8

-----------------------------------------------------------------------------
(* What was asked for, from step to step *)

\* What each step has made of a request that can be written.
Stage ==
    /\ pc = "enter" => Starting
    /\ pc = "options" => Parsing
    /\ pc \in {"names", "srcdir", "add"} \/ tcs # Empty => Parsed
    /\ pc = "srcdir" \/ (pc = "names" /\ ~Cxx) => ConfigAsked
    /\ Searched => ConfigTold
    /\ pc = "add" \/ (pc = "srcdir" /\ ~Cxx) => Counted
    /\ GotAsAsked

\* The test cases are as they were declared, nothing runs before the end, and
\* the end is what was asked for.
Asked ==
    /\ Testing
    /\ pc # "ended" => ran = Empty /\ listed = Empty
    /\ EndsAsAsked
    /\ Writable /\ Separate => Stage

LEMMA TestingStays == ASSUME tcs' = tcs, Testing PROVE Testing'
  BY DEF Testing, MadeOf

\* The step of a request that can be written is what is to be looked at.
LEMMA AskedFrom ==
    ASSUME UNCHANGED request, Testing', pc' # "ended" => ran' = Empty /\ listed' = Empty,
           Writable /\ Separate => Stage' /\ EndsAsAsked'
    PROVE  Asked'
  <1>1. (Writable' <=> Writable) /\ (Separate' <=> Separate)
    BY AskedStays
  <1>2. EndsAsAsked'
    <2>1. CASE Writable /\ Separate
      BY <2>1
    <2>2. CASE ~(Writable /\ Separate)
      BY <1>1, <2>2 DEF EndsAsAsked
    <2> QED BY <2>1, <2>2
  <1> QED BY <1>1, <1>2 DEF Asked

\* A step that goes on, before the first test case.
LEMMA GoesOn ==
    ASSUME UNCHANGED <<request, tcs, ran, listed>>, Testing, tcs = Empty,
           ran = Empty, listed = Empty, pc' # "ended",
           Writable /\ Separate =>
                /\ pc' = "enter" => Starting'
                /\ pc' = "options" => Parsing'
                /\ pc' \in {"names", "srcdir", "add"} => Parsed'
                /\ pc' = "srcdir" \/ (pc' = "names" /\ ~Cxx) => ConfigAsked'
                /\ pc' = "add" \/ (pc' = "names" /\ Cxx) => ConfigTold'
                /\ pc' = "add" \/ (pc' = "srcdir" /\ ~Cxx) => Counted'
    PROVE  Asked'
  <1>1. Testing'
    BY TestingStays
  <1>2. GotAsAsked' /\ EndsAsAsked'
    <2>1. ran' = Empty
      OBVIOUS
    <2> QED BY <2>1, NothingGotNext DEF EndsAsAsked
  <1>3. Cxx' = Cxx
    BY ProgramStays
  <1>4. Writable /\ Separate => Stage'
    BY <1>2, <1>3 DEF Stage, Searched
  <1> QED BY <1>1, <1>2, <1>4, AskedFrom

\* A step that ends the process before it has run anything.
LEMMA EndsIt ==
    ASSUME UNCHANGED <<request, ran, listed>>, Testing', ran = Empty, listed = Empty, pc' = "ended",
           Writable /\ Separate =>
                /\ Readable /\ ~AtRoot => outcome' \in Complaints
                /\ tcs' # Empty => Parsed' /\ ConfigTold'
    PROVE  Asked'
  <1>1. ran' = Empty /\ listed' = Empty
    OBVIOUS
  <1>2. EndsAsAsked'
    BY <1>1, FailsAsAsked
  <1>3. GotAsAsked'
    BY <1>1, NothingGotNext
  <1>4. Writable /\ Separate => Stage'
    BY <1>3 DEF Stage, Searched
  <1> QED BY <1>2, <1>4, AskedFrom

LEMMA BeforeTests ==
    ASSUME IInv, Asked, pc \in {"enter", "options", "names", "srcdir"}
    PROVE  tcs = Empty /\ ran = Empty /\ listed = Empty /\ Testing
  BY DEF IInv, Asked

LEMMA AskedInit == ASSUME Init PROVE Asked
  <1>1. /\ tcs = Empty /\ ran = Empty /\ listed = Empty
        /\ pc \in {"enter", "options"}
    BY DEF Init
  <1>2. Testing
    BY <1>1 DEF Testing, Empty
  <1>3. GotAsAsked /\ EndsAsAsked
    BY <1>1, NothingGot DEF EndsAsAsked
  <1>4. Writable => Stage
    BY <1>1, <1>3, InitParses DEF Stage, Searched
  <1> QED BY <1>1, <1>2, <1>3, <1>4 DEF Asked

LEMMA AskedEnter == ASSUME IInv, Asked, Enter PROVE Asked'
  <1>1. /\ pc = "enter" /\ UNCHANGED <<request, tcs, ran, listed>>
        /\ pc' = "options"
    BY DEF Enter, Goto
  <1>2. tcs = Empty /\ ran = Empty /\ listed = Empty /\ Testing
    BY <1>1, BeforeTests
  <1>3. Writable /\ Separate => Parsing'
    BY <1>1, EnterParses DEF Asked, Stage
  <1> QED BY <1>1, <1>2, <1>3, GoesOn

LEMMA AskedTurn == ASSUME IInv, Asked, Option \/ CxxOption PROVE Asked'
  <1>1. /\ pc = "options" /\ UNCHANGED <<request, tcs, ran, listed>>
        /\ pc' \in {"options", "ended"}
    <2>1. \A w : ParseVflag(w) \/ CxxParseVflag(w) => pc' \in {"options", "ended"}
      BY DEF ParseVflag, CxxParseVflag, Took, Fail, Goto, Finish
    <2>2. \A g : Takes(g) => pc' \in {"options", "ended"}
      BY DEF Takes, Took, Fail, Goto, Finish
    <2>3. \A p, c : Took(p, c) => pc' \in {"options", "ended"}
      BY DEF Took, Goto
    <2> QED BY <2>1, <2>2, <2>3 DEF Option, CxxOption
  <1>2. tcs = Empty /\ ran = Empty /\ listed = Empty /\ Testing
    BY <1>1, BeforeTests
  <1>3. Writable /\ Separate =>
            \/ pc' = "options" /\ Parsing'
            \/ pc' = "ended" /\ (Readable => outcome' \in Complaints)
    BY <1>1, TurnParses DEF Asked, Stage
  <1>4. CASE pc' = "options"
    BY <1>1, <1>2, <1>3, <1>4, GoesOn
  <1>5. CASE pc' = "ended"
    <2>1. Testing' /\ tcs' = Empty
      BY <1>1, <1>2, TestingStays
    <2> QED BY <1>1, <1>2, <1>3, <1>5, <2>1, EndsIt
  <1> QED BY <1>1, <1>4, <1>5

LEMMA AskedEndOfOptions == ASSUME IInv, Asked, EndOfOptions PROVE Asked'
  <1>1. /\ pc = "options" /\ UNCHANGED <<request, tcs, ran, listed>>
        /\ pc' = IF Cxx THEN "srcdir" ELSE "names"
    BY DEF EndOfOptions, Goto
  <1>2. tcs = Empty /\ ran = Empty /\ listed = Empty /\ Testing
    BY <1>1, BeforeTests
  <1>3. Writable /\ Separate => Parsed' /\ ConfigAsked'
    BY <1>1, EndParses DEF Asked, Stage
  <1> QED BY <1>1, <1>2, <1>3, GoesOn

LEMMA AskedNames == ASSUME IInv, Asked, Names \/ CxxNames PROVE Asked'
  <1>1. /\ pc = "names" /\ UNCHANGED <<request, tcs, ran, listed>>
        /\ pc' \in {"srcdir", "add", "ended"}
    BY DEF Names, CxxNames, Goto, Fail, Finish
  <1>2. tcs = Empty /\ ran = Empty /\ listed = Empty /\ Testing
    BY <1>1, BeforeTests
  <1>3. Writable /\ Separate =>
            /\ Parsed
            /\ IF Cxx THEN ConfigTold ELSE ConfigAsked
    BY <1>1 DEF Asked, Stage, Searched
  <1>4. Writable /\ Separate =>
           \/ /\ pc' = "ended" /\ outcome' \in Complaints
           \/ /\ pc' = IF Cxx THEN "add" ELSE "srcdir"
              /\ Parsed' /\ Counted' /\ config' = config
    BY <1>3, NamesAsked
  <1>5. CASE pc' = "ended"
    <2>1. Testing' /\ tcs' = Empty
      BY <1>1, <1>2, TestingStays
    <2>2. Writable /\ Separate => outcome' \in Complaints
      BY <1>4, <1>5
    <2> QED BY <1>1, <1>2, <1>5, <2>1, <2>2, EndsIt
  <1>6. CASE pc' # "ended"
    <2>1. Writable /\ Separate =>
             /\ pc' = IF Cxx THEN "add" ELSE "srcdir"
             /\ Parsed' /\ Counted' /\ config' = config
      BY <1>4, <1>6
    <2>2. config' = config => (ConfigAsked' <=> ConfigAsked) /\ (ConfigTold' <=> ConfigTold)
      BY <1>1, ConfigStays
    <2> QED BY <1>1, <1>2, <1>3, <1>6, <2>1, <2>2, GoesOn
  <1> QED BY <1>5, <1>6

LEMMA AskedSrcdir == ASSUME IInv, Asked, FindSrcdir \/ CxxFindSrcdir PROVE Asked'
  <1>1. /\ pc = "srcdir" /\ UNCHANGED <<request, tcs, ran, listed>>
        /\ pc' \in {"names", "add", "ended"}
    BY DEF FindSrcdir, CxxFindSrcdir, Goto, Fail, Finish
  <1>2. tcs = Empty /\ ran = Empty /\ listed = Empty /\ Testing
    BY <1>1, BeforeTests
  <1>3. Writable /\ Separate => Parsed /\ ConfigAsked /\ (~Cxx => Counted)
    BY <1>1 DEF Asked, Stage
  <1>4. Writable /\ Separate =>
           \/ /\ pc' = "ended" /\ (~AtRoot => outcome' \in Complaints)
           \/ /\ pc' = (IF Cxx THEN "names" ELSE "add") /\ opts' = opts /\ ConfigTold'
    BY <1>1, <1>3, LookAsked
  <1>5. CASE pc' = "ended"
    <2>1. Testing' /\ tcs' = Empty
      BY <1>1, <1>2, TestingStays
    <2>2. Writable /\ Separate => (~AtRoot => outcome' \in Complaints)
      BY <1>4, <1>5
    <2> QED BY <1>1, <1>2, <1>5, <2>1, <2>2, EndsIt
  <1>6. CASE pc' # "ended"
    <2>1. Writable /\ Separate =>
             pc' = (IF Cxx THEN "names" ELSE "add") /\ opts' = opts /\ ConfigTold'
      BY <1>4, <1>6
    <2>2. opts' = opts => (Parsed' <=> Parsed) /\ (Counted' <=> Counted)
      BY <1>1, OptsStay
    <2> QED BY <1>1, <1>2, <1>3, <1>6, <2>1, <2>2, GoesOn
  <1> QED BY <1>5, <1>6

LEMMA AskedAdd == ASSUME IInv, Asked, AddTc \/ CxxAddTc PROVE Asked'
  <1>1. pc = "add"
    BY DEF AddTc, CxxAddTc, Adding
  <1>2. /\ Testing' /\ UNCHANGED <<request, opts, config, ran, listed>>
        /\ pc' \in {"add", "ended"}
        /\ pc' = "ended" => outcome' \in Complaints
    BY AddAsked DEF Asked
  <1>3. ran = Empty /\ listed = Empty
    BY <1>1 DEF Asked
  <1>4. Writable /\ Separate => Parsed /\ ConfigTold /\ Counted
    BY <1>1 DEF Asked, Stage, Searched
  <1>5. (Parsed' <=> Parsed) /\ (Counted' <=> Counted) /\ (ConfigTold' <=> ConfigTold)
    BY <1>2, OptsStay, ConfigStays
  <1>6. CASE pc' = "ended"
    BY <1>2, <1>3, <1>4, <1>5, <1>6, EndsIt
  <1>7. CASE pc' = "add"
    <2>1. ran' = Empty /\ listed' = Empty
      BY <1>2, <1>3
    <2>2. GotAsAsked'
      BY <2>1, NothingGotNext
    <2>3. EndsAsAsked'
      BY <1>7 DEF EndsAsAsked
    <2>4. Writable /\ Separate => Stage'
      BY <1>4, <1>5, <1>7, <2>2 DEF Stage
    <2> QED BY <1>2, <2>1, <2>3, <2>4, AskedFrom
  <1> QED BY <1>2, <1>6, <1>7

LEMMA AskedLast == ASSUME IInv, Asked, List \/ CxxList \/ Run \/ CxxRun PROVE Asked'
  <1>1. /\ pc = "add" /\ UNCHANGED <<request, opts, config, tcs>>
    BY DEF List, CxxList, Run, CxxRun, Ready
  <1>2. pc' = "ended"
    <2>1. \A tc, part : RunPart(tc, part) => pc' = "ended"
      BY DEF RunPart, Body, Cleanup, Finish
    <2> QED BY <2>1 DEF List, CxxList, Run, CxxRun, Unknown, Finish
  <1>3. ran = Empty /\ listed = Empty /\ Testing
    BY <1>1 DEF Asked
  <1>4. Testing'
    BY <1>1, <1>3, TestingStays
  <1>5. ASSUME Writable, Separate PROVE Stage' /\ EndsAsAsked'
    <2>1. Parsed /\ ConfigTold /\ Counted
      BY <1>1, <1>5 DEF Asked, Stage, Searched
    <2>2. Parsed' /\ ConfigTold'
      BY <1>1, <2>1, OptsStay, ConfigStays
    <2>3. EndsAsAsked' /\ GotAsAsked'
      <3>1. CASE List \/ CxxList
        <4>1. EndsAsAsked' /\ ran' = Empty
          BY <1>3, <2>1, <3>1, ListAsked
        <4> QED BY <4>1, NothingGotNext
      <3>2. CASE Run \/ CxxRun
        BY <1>3, <2>1, <3>2, RunAsked
      <3> QED BY <3>1, <3>2
    <2>4. Stage'
      BY <1>2, <2>2, <2>3 DEF Stage
    <2> QED BY <2>3, <2>4
  <1> QED BY <1>1, <1>2, <1>4, <1>5, AskedFrom

LEMMA AskedStutters == ASSUME Asked, UNCHANGED vars PROVE Asked'
  <1>1. /\ UNCHANGED request /\ opts' = opts /\ config' = config /\ tcs' = tcs /\ ran' = ran
        /\ listed' = listed /\ pc' = pc /\ outcome' = outcome
        /\ argv' = argv /\ ind' = ind /\ pos' = pos
    BY DEF vars, request
  <1>2. Testing'
    BY <1>1, TestingStays DEF Asked
  <1>3. ASSUME Writable, Separate PROVE Stage' /\ EndsAsAsked'
    <2>1. Stage /\ EndsAsAsked
      BY <1>3 DEF Asked
    <2>2. (Parsed' <=> Parsed) /\ (Counted' <=> Counted)
          /\ (ConfigAsked' <=> ConfigAsked) /\ (ConfigTold' <=> ConfigTold)
      BY <1>1, OptsStay, ConfigStays
    <2>3. Cxx' = Cxx /\ req' = req /\ form' = form /\ host' = host
      BY <1>1, ProgramStays
    <2>4. \A k : Progress(opts, config, k)' <=> Progress(opts, config, k)
      BY <1>1, <2>3, ProgressStays DEF Progress, Configured
    <2>5. Starting' <=> Starting
      BY <1>1, <2>3, <2>4 DEF Starting
    <2>6. Parsing' <=> Parsing
      <3>1. Mixed(req.opts, Len(req.opts))' = Mixed(req.opts, Len(req.opts))
        <4>1. \A x : Reached(x)' = Reached(x)
          BY <1>1, ProgramStays DEF Reached, Entered, NativePath
        <4> QED BY <2>3, <4>1 DEF Mixed
      <3>2. \A k, upto, mrg : Reading(k, upto, mrg)' <=> Reading(k, upto, mrg)
        BY <1>1 DEF Reading
      <3> QED BY <1>1, <2>3, <2>4, <3>1, <3>2 DEF Parsing
    <2>7. GotAsAsked' <=> GotAsAsked
      BY <1>1, AskedStays DEF GotAsAsked
    <2>8. Stage'
      BY <1>1, <2>1, <2>2, <2>3, <2>5, <2>6, <2>7 DEF Stage, Searched
    <2>9. EndsAsAsked'
      <3>1. AskedPart' <=> AskedPart
        BY <1>1, AskedStays DEF AskedPart
      <3> QED BY <1>1, <2>1, <3>1, AskedStays, AskedDirStays DEF EndsAsAsked
    <2> QED BY <2>8, <2>9
  <1> QED BY <1>1, <1>2, <1>3, AskedFrom DEF Asked

\* What was asked for is what is done, in every state.
THEOREM ProgramAsked == Spec => []Asked
  <1>1. ASSUME IInv, Asked, [Next]_vars PROVE Asked'
    <2>1. CASE Enter
      BY <1>1, <2>1, AskedEnter
    <2>2. CASE Option \/ CxxOption
      BY <1>1, <2>2, AskedTurn
    <2>3. CASE EndOfOptions
      BY <1>1, <2>3, AskedEndOfOptions
    <2>4. CASE Names \/ CxxNames
      BY <1>1, <2>4, AskedNames
    <2>5. CASE FindSrcdir \/ CxxFindSrcdir
      BY <1>1, <2>5, AskedSrcdir
    <2>6. CASE AddTc \/ CxxAddTc
      BY <1>1, <2>6, AskedAdd
    <2>7. CASE List \/ CxxList \/ Run \/ CxxRun
      BY <1>1, <2>7, AskedLast
    <2>8. CASE UNCHANGED vars
      BY <1>1, <2>8, AskedStutters
    <2> QED BY <1>1, <2>1, <2>2, <2>3, <2>4, <2>5, <2>6, <2>7, <2>8 DEF Next
  <1> QED BY <1>1, AskedInit, ProgramInv, PTL DEF Spec

\* A test program ends as its command line asks, whatever that is and however
\* it is written, in C and in C++, on Windows or not.
THEOREM ProgramEndsAsAsked == Spec => []EndsAsAsked
  <1>1. Asked => EndsAsAsked
    BY DEF Asked
  <1> QED BY <1>1, ProgramAsked, PTL

\* Its test cases have the variables that were asked for, with the values that
\* were asked for, and no others.
THEOREM ProgramConfigIsAsked == Spec => []ConfigIsAsked
  <1>1. ASSUME IInv, Asked PROVE ConfigIsAsked
    <2>1. SUFFICES ASSUME Writable, Separate PROVE
            /\ ~AtRoot =>
                \A i \in DOMAIN tcs : Resolve(Value(tcs[i].config, Srcdir)) = Resolve(AskedDir)
            /\ Readable =>
                /\ \A i \in DOMAIN tcs :
                    LET c == tcs[i].config IN
                    /\ Keys(c) = AskedVars \cup {Srcdir}
                    /\ \A j, k \in DOMAIN c : c[j][1] = c[k][1] => j = k
                    /\ \A name \in AskedVars \ {Srcdir} : Value(c, name) = AskedValue(name)
                /\ GotAsAsked
      BY DEF ConfigIsAsked, GotAsAsked
    <2>2. Stage
      BY <1>1, <2>1 DEF Asked
    <2>3. /\ tcs \in Seq(TestCases) /\ config \in Maps /\ Distinct(config)
          /\ req \in Requests /\ host \in Hosts
      BY <1>1, InvTyped DEF IInv
    <2>4. DOMAIN tcs = 1..Len(tcs)
      BY <2>3, Typed
    <2>5. ASSUME NEW i \in DOMAIN tcs
          PROVE  tcs[i].config = config /\ Parsed /\ ConfigTold /\ Located(config)
      <3>1. tcs # Empty /\ i \in 1..Len(tcs)
        BY <2>4, <2>5 DEF Empty
      <3> QED BY <1>1, <2>2, <3>1 DEF IInv, WholeConfig, Stage, Searched
    <2>6. ASSUME ~AtRoot, NEW i \in DOMAIN tcs
          PROVE  Resolve(Value(tcs[i].config, Srcdir)) = Resolve(AskedDir)
      <3>1. Value(tcs[i].config, Srcdir) = Told
        BY <2>5, <2>6 DEF Located
      <3>2. Resolve(Told) = Resolve(AskedDir)
        BY <2>3, <2>5, <2>6, AskedSTyped, DirIsAsked DEF Parsed
      <3> QED BY <3>1, <3>2
    <2>7. ASSUME Readable, NEW i \in DOMAIN tcs
          PROVE  LET c == tcs[i].config
                 IN  /\ Keys(c) = AskedVars \cup {Srcdir}
                     /\ \A j, k \in DOMAIN c : c[j][1] = c[k][1] => j = k
                     /\ \A name \in AskedVars \ {Srcdir} : Value(c, name) = AskedValue(name)
      <3>1. DOMAIN config = 1..Len(config)
        BY <2>3, MapTyped
      <3> QED BY <2>3, <2>5, <2>7, <3>1 DEF ConfigTold, Distinct
    <2>8. GotAsAsked
      BY <2>2 DEF Stage
    <2> QED BY <2>6, <2>7, <2>8
  <1> QED BY <1>1, ProgramAsked, ProgramInv, PTL
=============================================================================
