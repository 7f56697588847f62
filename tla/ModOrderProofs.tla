--------------------------- MODULE ModOrderProofs ---------------------------
(***************************************************************************)
(* Theorems about ModOrder, for any set of modules, names, makefiles and   *)
(* parses.                                                                 *)
(***************************************************************************)
EXTENDS ModOrder, TLAPS

USE ModOrderAssumption

-----------------------------------------------------------------------------
(* Lemmas about the operators.                                             *)

\* What Append does to a sequence seen as a function.
LEMMA AppendFacts ==
    ASSUME NEW S, NEW s \in Seq(S), NEW e \in S
    PROVE  /\ Append(s, e) \in Seq(S)
           /\ DOMAIN s = 1..Len(s)
           /\ DOMAIN Append(s, e) = 1..(Len(s) + 1)
           /\ Len(s) \in Nat
           /\ \A i \in 1..Len(s) : Append(s, e)[i] = s[i]
           /\ Append(s, e)[Len(s) + 1] = e
  OBVIOUS

\* MODULE_DEPS lists modules of the framework, for any declarations.
LEMMA ModuleDepsType ==
    ASSUME NEW ms \in SUBSET Modules, NEW ds, NEW m
    PROVE  ModuleDeps(ms, ds, m) \in SUBSET Modules
  BY DEF ModuleDeps

LEMMA OutputType ==
    ASSUME TypeOK, NEW p \in Parses, NEW whole \in BOOLEAN
    PROVE  Output(p, whole) \in File
  <1>1. \A m \in Modules : ModuleDeps(mods[p], view[p], m) \in SUBSET Modules
    BY ModuleDepsType DEF TypeOK
  <1>2. [m \in Modules |-> IF m \in mods[p] THEN ModuleDeps(mods[p], view[p], m) ELSE {}]
           \in [Modules -> SUBSET Modules]
    BY <1>1
  <1> QED BY <1>2 DEF TypeOK, Output, File

-----------------------------------------------------------------------------
(* The type invariant.                                                     *)

LEMMA TypeInit == Init => TypeOK
  <1> SUFFICES ASSUME Init PROVE TypeOK
    OBVIOUS
  <1>1. tree \in [Modules -> Directory]
    BY DEF Init, Trees
  <1>2. NoView \in [Modules -> Decl]
    BY DEF NoView, NoDecl, Decl
  <1> QED BY <1>1, <1>2 DEF Init, TypeOK, PCs, Goals

LEMMA TypeNext == TypeOK /\ [Next]_vars => TypeOK'
  <1> SUFFICES ASSUME TypeOK, [Next]_vars PROVE TypeOK'
    OBVIOUS
  <1> USE DEF TypeOK, PCs
  <1>0. NoView \in [Modules -> Decl]
    BY DEF NoView, NoDecl, Decl
  <1>a. ASSUME NEW p \in Parses PROVE Alone(p) \in [Parses -> BOOLEAN]
    BY DEF Alone
  <1>1. ASSUME NEW p \in Parses, Start(p) PROVE TypeOK'
    BY <1>1 DEF Start, Listed, Goals
  <1>2. ASSUME NEW p \in Parses, NEW m \in Modules, Query(p, m) PROVE TypeOK'
    <2>1. tree[m].decl \in Decl
      BY DEF Directory
    <2>2. view' \in [Parses -> [Modules -> Decl]]
      BY <1>2, <2>1 DEF Query
    <2>3. CASE todo[p] = {m}
      <3>1. pc' = [pc EXCEPT ![p] = "sort"] /\ todo' = [todo EXCEPT ![p] = mods[p]]
        BY <1>2, <2>3 DEF Query
      <3> QED BY <1>2, <2>2, <3>1 DEF Query
    <2>4. CASE todo[p] # {m}
      <3>1. pc' = pc /\ todo' = [todo EXCEPT ![p] = todo[p] \ {m}]
        BY <1>2, <2>4 DEF Query
      <3> QED BY <1>2, <2>2, <3>1 DEF Query
    <2> QED BY <2>3, <2>4
  <1>3. ASSUME NEW p \in Parses, NEW m \in Modules, QueryFails(p, m) PROVE TypeOK'
    BY <1>3, <1>0 DEF QueryFails, GenExits
  <1>4. ASSUME NEW p \in Parses, NEW m \in Modules, Visit(p, m) PROVE TypeOK'
    <2>1. Append(sorted[p], m) \in Seq(Modules)
      BY AppendFacts
    <2>2. CASE Ready(mods[p], view[p], sorted[p], m)
      BY <1>4, <2>1, <2>2 DEF Visit
    <2>3. CASE ~Ready(mods[p], view[p], sorted[p], m)
      <3>1. /\ still' = [still EXCEPT ![p] = still[p] \cup {m}]
            /\ UNCHANGED <<sorted, progress>>
        BY <1>4, <2>3 DEF Visit
      <3>2. still' \in [Parses -> SUBSET Modules]
        BY <3>1
      <3> QED BY <1>4, <3>1, <3>2 DEF Visit
    <2> QED BY <2>2, <2>3
  <1>5. ASSUME NEW p \in Parses, NextPass(p) PROVE TypeOK'
    BY <1>5 DEF NextPass
  <1>6. ASSUME NEW p \in Parses, Cycle(p) \/ SortDone(p) PROVE TypeOK'
    BY <1>6 DEF Cycle, SortDone, gen
  <1>7. ASSUME NEW p \in Parses, OpenTmp(p) \/ WriteTmp(p) PROVE TypeOK'
    <2>1. Output(p, FALSE) \in File /\ Output(p, TRUE) \in File
      BY OutputType
    <2>2. CASE OpenTmp(p)
      BY <2>1, <2>2 DEF OpenTmp, gen
    <2>3. CASE WriteTmp(p)
      BY <2>1, <2>3 DEF WriteTmp, gen
    <2> QED BY <1>7, <2>2, <2>3
  <1>8. ASSUME NEW p \in Parses, Rename(p) PROVE TypeOK'
    BY <1>8, <1>0, <1>a DEF Rename, GenExits
  <1>9. ASSUME NEW p \in Parses, Signal(p) \/ Kill(p) PROVE TypeOK'
    <2>1. CASE Signal(p)
      BY <2>1, <1>0 DEF Signal, GenExits
    <2>2. CASE Kill(p)
      BY <2>2, <1>0 DEF Kill, GenExits
    <2> QED BY <1>9, <2>1, <2>2
  <1>10. ASSUME NEW p \in Parses, Include(p) PROVE TypeOK'
    BY <1>10 DEF Include, gen
  <1>11. ASSUME NEW p \in Parses, Refuse(p) \/ Fallback(p) PROVE TypeOK'
    <2>1. CASE Refuse(p)
      BY <2>1, <1>0 DEF Refuse, GenExits
    <2>2. CASE Fallback(p)
      BY <2>2, <1>0 DEF Fallback, GenExits
    <2> QED BY <1>11, <2>1, <2>2
  <1>12. ASSUME NEW p \in Parses, Clean(p) PROVE TypeOK'
    BY <1>12, <1>a DEF Clean, gen
  <1>13. ASSUME NEW m \in Modules, Edit(m) PROVE TypeOK'
    <2>1. PICK d \in Makefiles[m] : tree' = [tree EXCEPT ![m] = d]
      BY <1>13 DEF Edit
    <2>2. d \in Directory
      OBVIOUS
    <2> QED BY <1>13, <2>1, <2>2 DEF Edit, gen
  <1>14. CASE UNCHANGED vars
    BY <1>14 DEF vars, gen
  <1> QED
    BY <1>1, <1>2, <1>3, <1>4, <1>5, <1>6, <1>7, <1>8, <1>9, <1>10, <1>11,
       <1>12, <1>13, <1>14 DEF Next, Step

\* Type correctness, for every instance.
THEOREM TypeCorrect == Spec => []TypeOK
  BY TypeInit, TypeNext, PTL DEF Spec

-----------------------------------------------------------------------------
(***************************************************************************)
(* The inductive invariant behind the order's soundness.  A sort in        *)
(* progress has dealt every listed module either into the order, or among  *)
(* those still to visit or still remaining, and the order is sound so far; *)
(* a pass that has placed nothing has refused each module it went through, *)
(* under the order as it still is.                                         *)
(***************************************************************************)
Placed(p) == {sorted[p][i] : i \in DOMAIN sorted[p]}

Injective(s) == \A i, j \in DOMAIN s : s[i] = s[j] => i = j

SoundSoFar(ms, ds, order) ==
    \A i \in DOMAIN order : \A dep \in ds[order[i]].libs :
      IsLocal(ms, ds, dep) => \E j \in 1..(i - 1) : dep \in Ids(ds, order[j])

\* Before the sort: nothing is placed yet.
QueryInv(p) ==
    pc[p] \in {"idle", "query"} => sorted[p] = <<>> /\ still[p] = {}

PartitionInv(p) ==
    /\ mods[p] = Placed(p) \cup todo[p] \cup still[p]
    /\ Placed(p) \cap todo[p] = {}
    /\ Placed(p) \cap still[p] = {}
    /\ todo[p] \cap still[p] = {}
    /\ Injective(sorted[p])

RefusedInv(p) ==
    ~progress[p] => \A m \in still[p] : ~Ready(mods[p], view[p], sorted[p], m)

SortInv(p) ==
    pc[p] \in {"sort", "open", "write", "rename", "cycle"} =>
      PartitionInv(p) /\ SoundSoFar(mods[p], view[p], sorted[p]) /\ RefusedInv(p)

\* After it: every module is placed, or the last pass placed none.
DoneInv(p) ==
    /\ pc[p] \in {"open", "write", "rename"} => todo[p] = {} /\ still[p] = {}
    /\ pc[p] = "rename" => tmp[p] = Output(p, TRUE)
    /\ pc[p] = "cycle" => todo[p] = {} /\ still[p] # {} /\ ~progress[p]

PInv(p) == QueryInv(p) /\ SortInv(p) /\ DoneInv(p)

IInv == TypeOK /\ (\A p \in Parses : PInv(p)) /\ OrderSound

\* The step leaves the process of parse q alone.
Same(q) ==
    /\ pc'[q] = pc[q]
    /\ mods'[q] = mods[q]
    /\ todo'[q] = todo[q]
    /\ view'[q] = view[q]
    /\ sorted'[q] = sorted[q]
    /\ still'[q] = still[q]
    /\ progress'[q] = progress[q]
    /\ tmp'[q] = tmp[q]

ActionOf(p) == Start(p) \/ Step(p) \/ Signal(p) \/ Kill(p) \/ Clean(p)

LEMMA SameInv ==
    ASSUME NEW q, Same(q), PInv(q)
    PROVE  PInv(q)'
  BY DEF Same, PInv, QueryInv, SortInv, PartitionInv, RefusedInv, DoneInv, Placed, Output

LEMMA OthersSame ==
    ASSUME TypeOK, NEW p \in Parses, NEW q \in Parses, q # p, ActionOf(p)
    PROVE  Same(q)
  <1> USE DEF TypeOK, Same
  <1>1. CASE Start(p)
    BY <1>1 DEF Start
  <1>2. ASSUME NEW m \in Modules, Query(p, m) PROVE Same(q)
    <2>1. CASE todo[p] = {m}
      BY <1>2, <2>1 DEF Query
    <2>2. CASE todo[p] # {m}
      BY <1>2, <2>2 DEF Query
    <2> QED BY <2>1, <2>2
  <1>3. ASSUME NEW m \in Modules, QueryFails(p, m) PROVE Same(q)
    BY <1>3 DEF QueryFails, GenExits
  <1>4. ASSUME NEW m \in Modules, Visit(p, m) PROVE Same(q)
    <2>1. CASE Ready(mods[p], view[p], sorted[p], m)
      BY <1>4, <2>1 DEF Visit
    <2>2. CASE ~Ready(mods[p], view[p], sorted[p], m)
      BY <1>4, <2>2 DEF Visit
    <2> QED BY <2>1, <2>2
  <1>5. CASE NextPass(p)
    BY <1>5 DEF NextPass
  <1>6. CASE Cycle(p) \/ SortDone(p)
    BY <1>6 DEF Cycle, SortDone, gen
  <1>7. CASE OpenTmp(p) \/ WriteTmp(p)
    BY <1>7 DEF OpenTmp, WriteTmp, gen
  <1>8. CASE Rename(p)
    BY <1>8 DEF Rename, GenExits
  <1>9. CASE Signal(p)
    BY <1>9 DEF Signal, GenExits
  <1>10. CASE Kill(p)
    BY <1>10 DEF Kill, GenExits
  <1>11. CASE Include(p) \/ Clean(p)
    BY <1>11 DEF Include, Clean, gen
  <1>12. CASE Refuse(p)
    BY <1>12 DEF Refuse, GenExits
  <1>13. CASE Fallback(p)
    BY <1>13 DEF Fallback, GenExits
  <1> QED
    BY <1>1, <1>2, <1>3, <1>4, <1>5, <1>6, <1>7, <1>8, <1>9, <1>10, <1>11,
       <1>12, <1>13 DEF ActionOf, Step

-----------------------------------------------------------------------------
(* The generator's own steps keep its part of the invariant.               *)

\* A turn of the inner loop: the heart of the argument.
LEMMA VisitInv ==
    ASSUME TypeOK, NEW p \in Parses, NEW m \in Modules, PInv(p), Visit(p, m)
    PROVE  PInv(p)'
  <1> DEFINE s == sorted[p]
             n == Len(s)
  <1>0. /\ pc[p] = "sort" /\ pc'[p] = "sort"
        /\ mods'[p] = mods[p] /\ view'[p] = view[p]
        /\ m \in todo[p]
        /\ todo'[p] = todo[p] \ {m}
    BY DEF Visit, First, TypeOK
  <1>1. /\ PartitionInv(p)
        /\ SoundSoFar(mods[p], view[p], sorted[p])
        /\ RefusedInv(p)
    BY <1>0 DEF PInv, SortInv
  <1>2. s \in Seq(Modules)
    BY DEF TypeOK
  <1>3. CASE Ready(mods[p], view[p], sorted[p], m)
    <2>1. sorted'[p] = Append(s, m) /\ progress'[p] = TRUE /\ still'[p] = still[p]
      BY <1>3 DEF Visit, TypeOK
    <2>2. /\ DOMAIN s = 1..n /\ n \in Nat
          /\ DOMAIN Append(s, m) = 1..(n + 1)
          /\ \A i \in 1..n : Append(s, m)[i] = s[i]
          /\ Append(s, m)[n + 1] = m
      BY <1>2, AppendFacts
    <2> HIDE DEF n, s
    <2>3. Placed(p)' = Placed(p) \cup {m}
      BY <2>1, <2>2 DEF Placed, s
    <2>4. Injective(sorted[p])'
      <3>1. \A i \in 1..n : s[i] # m
        BY <1>0, <1>1, <2>2 DEF PartitionInv, Placed, s
      <3> QED BY <1>1, <2>1, <2>2, <3>1 DEF Injective, PartitionInv, s
    <2>5. PartitionInv(p)'
      BY <1>0, <1>1, <2>1, <2>3, <2>4 DEF PartitionInv
    <2>6. SoundSoFar(mods[p], view[p], sorted[p])'
      <3> SUFFICES ASSUME NEW i \in 1..(n + 1),
                          NEW dep \in view[p][Append(s, m)[i]].libs,
                          IsLocal(mods[p], view[p], dep)
                   PROVE  \E j \in 1..(i - 1) : dep \in Ids(view[p], Append(s, m)[j])
        BY <1>0, <2>1, <2>2 DEF SoundSoFar, IsLocal, Ids
      <3>1. CASE i \in 1..n
        <4>1. PICK j \in 1..(i - 1) : dep \in Ids(view[p], s[j])
          BY <3>1, <1>1, <2>2 DEF SoundSoFar, s
        <4> QED BY <4>1, <3>1, <2>2
      <3>2. CASE i = n + 1
        <4>1. PICK j \in DOMAIN s : dep \in Ids(view[p], s[j])
          BY <3>2, <1>3, <2>2 DEF Ready, IsSatisfied, s
        <4> QED BY <4>1, <3>2, <2>2
      <3> QED BY <3>1, <3>2, <2>2
    <2> QED BY <1>0, <2>1, <2>5, <2>6 DEF PInv, QueryInv, SortInv, RefusedInv, DoneInv
  <1>4. CASE ~Ready(mods[p], view[p], sorted[p], m)
    <2>1. /\ sorted'[p] = sorted[p] /\ progress'[p] = progress[p]
          /\ still'[p] = still[p] \cup {m}
      BY <1>4 DEF Visit, TypeOK
    <2>2. PartitionInv(p)'
      BY <1>0, <1>1, <2>1 DEF PartitionInv, Placed
    <2>3. SoundSoFar(mods[p], view[p], sorted[p])'
      BY <1>0, <1>1, <2>1
    <2>4. RefusedInv(p)'
      BY <1>0, <1>1, <1>4, <2>1 DEF RefusedInv
    <2> QED BY <1>0, <2>2, <2>3, <2>4 DEF PInv, QueryInv, SortInv, DoneInv
  <1> QED BY <1>3, <1>4

LEMMA ActionInv ==
    ASSUME TypeOK, NEW p \in Parses, PInv(p), ActionOf(p)
    PROVE  PInv(p)'
  <1> USE DEF TypeOK
  <1> DEFINE Gone == pc'[p] \in {"include", "failed", "parsed", "refused", "killed", "cleaned"}
  <1>0. Gone => PInv(p)'
    BY DEF PInv, QueryInv, SortInv, DoneInv
  <1>1. CASE Start(p)
    <2>1. /\ mods'[p] = Listed /\ todo'[p] = Listed
          /\ sorted'[p] = <<>> /\ still'[p] = {}
          /\ pc'[p] \in {"query", "open"}
          /\ pc'[p] = "open" => Listed = {}
      BY <1>1 DEF Start, PInv, QueryInv
    <2>2. PartitionInv(p)'
      BY <2>1 DEF PartitionInv, Placed, Injective
    <2>3. SoundSoFar(mods[p], view[p], sorted[p])' /\ RefusedInv(p)'
      BY <2>1 DEF SoundSoFar, RefusedInv
    <2> QED BY <2>1, <2>2, <2>3 DEF PInv, QueryInv, SortInv, DoneInv
  <1>2. ASSUME NEW m \in Modules, Query(p, m) PROVE PInv(p)'
    <2>1. sorted'[p] = <<>> /\ still'[p] = {} /\ mods'[p] = mods[p]
      BY <1>2 DEF Query, PInv, QueryInv
    <2>2. CASE todo[p] = {m}
      <3>1. pc'[p] = "sort" /\ todo'[p] = mods[p]
        BY <1>2, <2>2 DEF Query
      <3> QED
        BY <2>1, <3>1 DEF PInv, QueryInv, SortInv, PartitionInv, RefusedInv, SoundSoFar,
                          DoneInv, Placed, Injective
    <2>3. CASE todo[p] # {m}
      <3>1. pc'[p] = "query"
        BY <1>2, <2>3 DEF Query
      <3> QED BY <2>1, <3>1 DEF PInv, QueryInv, SortInv, DoneInv
    <2> QED BY <2>2, <2>3
  <1>3. ASSUME NEW m \in Modules, QueryFails(p, m) PROVE PInv(p)'
    BY <1>0, <1>3 DEF QueryFails
  <1>4. ASSUME NEW m \in Modules, Visit(p, m) PROVE PInv(p)'
    BY <1>4, VisitInv
  <1>5. CASE NextPass(p)
    <2>1. /\ pc[p] = "sort" /\ pc'[p] = "sort" /\ mods'[p] = mods[p]
          /\ view'[p] = view[p] /\ sorted'[p] = sorted[p]
          /\ todo[p] = {} /\ todo'[p] = still[p] /\ still'[p] = {}
      BY <1>5 DEF NextPass
    <2> QED
      BY <2>1 DEF PInv, QueryInv, SortInv, PartitionInv, RefusedInv, DoneInv, Placed
  <1>6. CASE Cycle(p)
    <2>1. /\ pc[p] = "sort" /\ pc'[p] = "cycle" /\ UNCHANGED gen
          /\ todo[p] = {} /\ still[p] # {} /\ ~progress[p]
      BY <1>6 DEF Cycle
    <2> QED
      BY <2>1 DEF gen, PInv, QueryInv, SortInv, PartitionInv, RefusedInv, DoneInv, Placed
  <1>7. CASE SortDone(p)
    <2>1. /\ pc[p] = "sort" /\ pc'[p] = "open" /\ UNCHANGED gen
          /\ todo[p] = {} /\ still[p] = {}
      BY <1>7 DEF SortDone
    <2> QED
      BY <2>1 DEF gen, PInv, QueryInv, SortInv, PartitionInv, RefusedInv, DoneInv, Placed
  <1>8. CASE OpenTmp(p)
    <2>1. pc[p] = "open" /\ pc'[p] = "write" /\ UNCHANGED gen
      BY <1>8 DEF OpenTmp
    <2> QED
      BY <2>1 DEF gen, PInv, QueryInv, SortInv, PartitionInv, RefusedInv, DoneInv, Placed
  <1>9. CASE WriteTmp(p)
    <2>1. /\ pc[p] = "write" /\ pc'[p] = "rename" /\ UNCHANGED gen
          /\ tmp'[p] = Output(p, TRUE)
      BY <1>9 DEF WriteTmp
    <2> QED
      BY <2>1 DEF gen, PInv, QueryInv, SortInv, PartitionInv, RefusedInv, DoneInv, Placed, Output
  <1>10. CASE Rename(p)
    BY <1>0, <1>10 DEF Rename
  <1>11. CASE Signal(p)
    BY <1>0, <1>11 DEF Signal
  <1>12. CASE Kill(p)
    BY <1>0, <1>12 DEF Kill
  <1>13. CASE Include(p)
    BY <1>0, <1>13 DEF Include
  <1>14. CASE Clean(p)
    BY <1>0, <1>14 DEF Clean
  <1>15. CASE Refuse(p)
    BY <1>0, <1>15 DEF Refuse
  <1>16. CASE Fallback(p)
    BY <1>0, <1>16 DEF Fallback
  <1> QED
    BY <1>1, <1>2, <1>3, <1>4, <1>5, <1>6, <1>7, <1>8, <1>9, <1>10, <1>11,
       <1>12, <1>13, <1>14, <1>15, <1>16 DEF ActionOf, Step

-----------------------------------------------------------------------------
(* What is published and read.                                             *)

\* A generator about to rename its file has a sound one.
LEMMA RenamedIsSound ==
    ASSUME TypeOK, NEW p \in Parses, PInv(p), pc[p] = "rename"
    PROVE  Sound(tmp[p])
  <1>1. /\ tmp[p] = Output(p, TRUE)
        /\ mods[p] = Placed(p)
        /\ Injective(sorted[p])
        /\ SoundSoFar(mods[p], view[p], sorted[p])
    BY DEF PInv, DoneInv, SortInv, PartitionInv
  <1>2. /\ tmp[p].whole
        /\ tmp[p].order = sorted[p]
        /\ tmp[p].mods = mods[p]
        /\ tmp[p].view = view[p]
    BY <1>1 DEF Output
  <1>3. {tmp[p].order[i] : i \in DOMAIN tmp[p].order} = tmp[p].mods
    <2>1. ASSUME NEW s, s = sorted[p]
          PROVE  {s[i] : i \in DOMAIN s} = mods[p]
      BY <1>1, <2>1 DEF Placed
    <2> QED BY <1>2, <2>1
  <1>4. Injective(tmp[p].order) /\ SoundSoFar(tmp[p].mods, tmp[p].view, tmp[p].order)
    BY <1>1, <1>2
  <1> QED BY <1>2, <1>3, <1>4 DEF Sound, Injective, SoundSoFar

LEMMA SoundStep ==
    ASSUME TypeOK, NEW p \in Parses, PInv(p), OrderSound, ActionOf(p)
    PROVE  OrderSound'
  <1> USE DEF TypeOK, OrderSound
  <1>1. CASE Rename(p)
    <2>1. cache' = tmp[p] /\ included' = included /\ Sound(tmp[p])
      BY <1>1, RenamedIsSound DEF Rename
    <2> QED BY <2>1
  <1>2. CASE Include(p) \/ Fallback(p)
    <2>1. cache' = cache /\ included' = [included EXCEPT ![p] = cache]
      BY <1>2 DEF Include, Fallback
    <2> QED BY <2>1
  <1>3. CASE Clean(p)
    <2>1. cache' = NoFile /\ included' = included
      BY <1>3 DEF Clean
    <2> QED BY <2>1
  <1>4. CASE cache' = cache /\ included' = included
    BY <1>4
  <1>5. Rename(p) \/ Include(p) \/ Fallback(p) \/ Clean(p)
          \/ (cache' = cache /\ included' = included)
    BY DEF ActionOf, Start, Step, Query, QueryFails, Visit, NextPass, Cycle, SortDone,
           OpenTmp, WriteTmp, Signal, Kill, Refuse
  <1> QED BY <1>1, <1>2, <1>3, <1>4, <1>5

LEMMA IInvInit == Init => IInv
  <1> SUFFICES ASSUME Init PROVE IInv
    OBVIOUS
  <1>1. \A p \in Parses : PInv(p)
    BY DEF Init, PInv, QueryInv, SortInv, DoneInv
  <1>2. OrderSound
    BY DEF Init, OrderSound
  <1> QED BY TypeInit, <1>1, <1>2 DEF IInv

LEMMA IInvNext == IInv /\ [Next]_vars => IInv'
  <1> SUFFICES ASSUME IInv, [Next]_vars PROVE IInv'
    OBVIOUS
  <1>0. TypeOK'
    BY TypeNext DEF IInv
  <1>1. ASSUME NEW p \in Parses, ActionOf(p) PROVE IInv'
    <2>1. ASSUME NEW q \in Parses PROVE PInv(q)'
      <3>1. CASE q = p
        BY <1>1, <3>1, ActionInv DEF IInv
      <3>2. CASE q # p
        BY <1>1, <3>2, OthersSame, SameInv DEF IInv
      <3> QED BY <3>1, <3>2
    <2>2. OrderSound'
      BY <1>1, SoundStep DEF IInv
    <2> QED BY <1>0, <2>1, <2>2 DEF IInv
  <1>2. CASE UNCHANGED <<cache, included, tmp, pc, gen>>
    <2>1. ASSUME NEW q \in Parses PROVE PInv(q)'
      <3>1. Same(q)
        BY <1>2 DEF Same, gen
      <3> QED BY <3>1, SameInv DEF IInv
    <2>2. OrderSound'
      BY <1>2 DEF IInv, OrderSound
    <2> QED BY <1>0, <2>1, <2>2 DEF IInv
  <1>3. ASSUME NEW m \in Modules, Edit(m) PROVE IInv'
    BY <1>2, <1>3 DEF Edit
  <1>4. CASE UNCHANGED vars
    BY <1>2, <1>4 DEF vars
  <1> QED BY <1>1, <1>3, <1>4 DEF Next, ActionOf

LEMMA IInvAlways == Spec => []IInv
  BY IInvInit, IInvNext, PTL DEF Spec

\* Whatever the interleaving of generators, edits, signals, kills and clean,
\* the order on disk, and the one any parse goes on with, is complete and
\* topological.
THEOREM OrderAlwaysSound == Spec => []OrderSound
  <1>1. IInv => OrderSound
    BY DEF IInv
  <1> QED BY IInvAlways, <1>1, PTL

\* A reported cycle is one: what remains after a pass that placed nothing.
THEOREM CyclesAreReal == Spec => []CycleIsReal
  <1>1. IInv => CycleIsReal
    <2> SUFFICES ASSUME IInv, NEW p \in Parses, pc[p] = "cycle"
                 PROVE  \E S \in SUBSET mods[p] :
                          /\ S # {}
                          /\ \A m \in S : \E dep \in view[p][m].libs :
                               /\ IsLocal(mods[p], view[p], dep)
                               /\ \A k \in mods[p] : dep \in Ids(view[p], k) => k \in S
      BY DEF CycleIsReal
    <2>1. /\ mods[p] = Placed(p) \cup still[p]
          /\ still[p] # {}
          /\ \A m \in still[p] : ~Ready(mods[p], view[p], sorted[p], m)
      BY DEF IInv, PInv, SortInv, PartitionInv, RefusedInv, DoneInv
    <2>2. ASSUME NEW m \in still[p]
          PROVE  \E dep \in view[p][m].libs :
                   /\ IsLocal(mods[p], view[p], dep)
                   /\ \A k \in mods[p] : dep \in Ids(view[p], k) => k \in still[p]
      <3>1. PICK dep \in view[p][m].libs :
                   /\ IsLocal(mods[p], view[p], dep)
                   /\ ~IsSatisfied(sorted[p], view[p], dep)
        BY <2>1 DEF Ready
      <3>2. \A k \in Placed(p) : dep \notin Ids(view[p], k)
        BY <3>1 DEF IsSatisfied, Placed
      <3> QED BY <2>1, <3>1, <3>2
    <2> QED BY <2>1, <2>2
  <1> QED BY IInvAlways, <1>1, PTL

-----------------------------------------------------------------------------
(* MODULE_DEPS                                                             *)

\* The file's MODULE_DEPS are what the declarations it was made from call for.
DepsKnown(f) == \A m \in f.mods : f.deps[m] = ModuleDeps(f.mods, f.view, m)

DepsInv == cache # NoFile => DepsKnown(cache)

LEMMA DepsNext == IInv /\ DepsInv /\ [Next]_vars => DepsInv'
  <1> SUFFICES ASSUME IInv, DepsInv, [Next]_vars PROVE DepsInv'
    OBVIOUS
  <1>1. ASSUME NEW p \in Parses, Rename(p) PROVE DepsInv'
    <2>1. cache' = Output(p, TRUE) /\ mods[p] \subseteq Modules
      BY <1>1 DEF Rename, IInv, PInv, DoneInv, TypeOK
    <2>2. DepsKnown(Output(p, TRUE))
      BY <2>1 DEF DepsKnown, Output
    <2>3. \A f : f = Output(p, TRUE) => DepsKnown(f)
      BY <2>2
    <2>4. cache' = Output(p, TRUE) => DepsKnown(cache')
      BY <2>3
    <2> QED BY <2>1, <2>4 DEF DepsInv, DepsKnown
  <1>2. CASE cache' = cache \/ cache' = NoFile
    BY <1>2 DEF DepsInv, DepsKnown
  <1>3. (\E p \in Parses : Rename(p)) \/ cache' = cache \/ cache' = NoFile
    BY DEF Next, Start, Step, Query, QueryFails, Visit, NextPass, Cycle, SortDone, OpenTmp,
           WriteTmp, Signal, Kill, Refuse, Include, Fallback, Clean, Edit, vars
  <1> QED BY <1>1, <1>2, <1>3

\* Of names that only one module answers to, is_satisfied and local_mod_of say
\* the same.
LEMMA TheirDepsAgree ==
    ASSUME NEW f \in File, Sound(f), DepsKnown(f), Unambiguous(f), NEW i \in DOMAIN f.order
    PROVE  LET m == f.order[i] IN
           /\ f.deps[m] \subseteq {f.order[j] : j \in 1..(i - 1)}
           /\ \A dep \in f.view[m].libs :
                IsLocal(f.mods, f.view, dep) => \E k \in f.deps[m] : dep \in Ids(f.view, k)
  <1> DEFINE m == f.order[i]
  <1>0. f.order \in Seq(Modules) /\ f.mods \subseteq Modules
    BY DEF File
  <1>1. m \in f.mods /\ f.deps[m] = ModuleDeps(f.mods, f.view, m) /\ i \in 1..Len(f.order)
    BY <1>0 DEF Sound, DepsKnown
  <1>2. \A j \in 1..(i - 1) : j \in DOMAIN f.order /\ f.order[j] \in f.mods /\ f.order[j] # m
    BY <1>0, <1>1 DEF Sound
  <1>3. \A dep \in f.view[m].libs : IsLocal(f.mods, f.view, dep) =>
            \E j \in 1..(i - 1) : dep \in Ids(f.view, f.order[j])
    BY DEF Sound
  <1>4. \A k, l \in f.mods : \A dep : dep \in Ids(f.view, k) /\ dep \in Ids(f.view, l) => k = l
    BY DEF Unambiguous
  <1>5. ASSUME NEW k \in f.deps[m] PROVE \E j \in 1..(i - 1) : k = f.order[j]
    <2>1. PICK dep \in f.view[m].libs : IsLocalModOf(f.mods, f.view, dep, k)
      BY <1>1 DEF ModuleDeps
    <2>2. k \in f.mods /\ dep \in Ids(f.view, k) /\ IsLocal(f.mods, f.view, dep)
      BY <2>1 DEF IsLocalModOf, IsLocal
    <2>3. PICK j \in 1..(i - 1) : dep \in Ids(f.view, f.order[j])
      BY <1>3, <2>2
    <2> QED BY <1>2, <1>4, <2>2, <2>3
  <1>6. ASSUME NEW dep \in f.view[m].libs, IsLocal(f.mods, f.view, dep)
        PROVE  \E k \in f.deps[m] : dep \in Ids(f.view, k)
    <2>1. PICK j \in 1..(i - 1) : dep \in Ids(f.view, f.order[j])
      BY <1>3, <1>6
    <2> DEFINE k == f.order[j]
    <2>2. k \in f.mods /\ k # m
      BY <1>2, <2>1
    <2>3. \A l \in f.mods : dep \in Ids(f.view, l) => Pos[k] <= Pos[l]
      <3> SUFFICES ASSUME NEW l \in f.mods, dep \in Ids(f.view, l) PROVE Pos[k] <= Pos[l]
        OBVIOUS
      <3>1. l = k
        BY <1>4, <2>1, <2>2
      <3>2. Pos[k] \in Nat
        BY <1>0, <2>2, ModOrderAssumption
      <3> QED BY <3>1, <3>2
    <2>4. IsLocalModOf(f.mods, f.view, dep, k)
      BY <2>1, <2>2, <2>3 DEF IsLocalModOf
    <2>5. k \in f.deps[m]
      BY <1>1, <1>6, <2>2, <2>4 DEF ModuleDeps
    <2> QED BY <2>1, <2>5
  <1> QED BY <1>5, <1>6

\* gen-mod-order.sh's two answers agree in every order file, as long as no
\* name is two modules'.
THEOREM DepsAlwaysAgree == Spec => []DepsAgree
  <1>1. Init => DepsInv
    BY DEF Init, DepsInv
  <1>2. IInv /\ DepsInv => DepsAgree
    <2> SUFFICES ASSUME IInv, DepsInv, cache # NoFile, Unambiguous(cache), NEW i \in DOMAIN cache.order
                 PROVE  LET m == cache.order[i] IN
                        /\ cache.deps[m] \subseteq {cache.order[j] : j \in 1..(i - 1)}
                        /\ \A dep \in cache.view[m].libs :
                             IsLocal(cache.mods, cache.view, dep) =>
                               \E k \in cache.deps[m] : dep \in Ids(cache.view, k)
      BY DEF DepsAgree
    <2>1. cache \in File /\ Sound(cache) /\ DepsKnown(cache)
      BY DEF IInv, TypeOK, OrderSound, DepsInv
    <2> QED BY <2>1, TheirDepsAgree
  <1> QED BY <1>1, <1>2, DepsNext, IInvAlways, PTL DEF Spec

-----------------------------------------------------------------------------
(* What a run leaves                                                       *)

LEMMA LitterNext == TypeOK /\ NoLitter /\ [Next]_vars => NoLitter'
  <1> SUFFICES ASSUME TypeOK, NoLitter, [Next]_vars, NEW q \in Parses, tmp'[q] # NoFile
               PROVE  pc'[q] \in {"write", "rename", "killed"}
    BY DEF NoLitter
  <1>1. ASSUME NEW p \in Parses, ActionOf(p) PROVE pc'[q] \in {"write", "rename", "killed"}
    <2>1. CASE q # p
      BY <1>1, <2>1, OthersSame DEF Same, NoLitter
    <2>2. CASE q = p
      <3> USE DEF TypeOK, NoLitter
      <3>1. CASE OpenTmp(p) \/ WriteTmp(p) BY <2>2, <3>1 DEF OpenTmp, WriteTmp
      <3>2. CASE Rename(p) \/ Signal(p) BY <2>2, <3>2 DEF Rename, Signal
      <3>3. CASE Kill(p) BY <2>2, <3>3 DEF Kill
      <3>4. CASE Start(p) \/ Clean(p) BY <2>2, <3>4 DEF Start, Clean
      <3>5. CASE \E m \in Modules : Query(p, m) \/ QueryFails(p, m) \/ Visit(p, m)
        BY <2>2, <3>5 DEF Query, QueryFails, Visit
      <3>6. CASE NextPass(p) \/ Cycle(p) \/ SortDone(p) BY <2>2, <3>6 DEF NextPass, Cycle, SortDone
      <3>7. CASE Include(p) \/ Refuse(p) \/ Fallback(p) BY <2>2, <3>7 DEF Include, Refuse, Fallback
      <3> QED BY <1>1, <3>1, <3>2, <3>3, <3>4, <3>5, <3>6, <3>7 DEF ActionOf, Step
    <2> QED BY <2>1, <2>2
  <1>2. CASE UNCHANGED <<tmp, pc>>
    BY <1>2 DEF NoLitter
  <1> QED BY <1>1, <1>2 DEF Next, ActionOf, Edit, vars

\* The trap of gen-mod-order.sh removes what it wrote, however a run ends
\* short of SIGKILL.
THEOREM NeverLitter == Spec => []NoLitter
  <1>1. Init => NoLitter
    BY DEF Init, NoLitter
  <1>2. TypeOK /\ NoLitter /\ [Next]_vars => NoLitter'
    BY LitterNext
  <1> QED BY <1>1, <1>2, TypeCorrect, PTL DEF Spec

-----------------------------------------------------------------------------
(* A parse alone in its directory                                          *)

\* ds is what the makefiles of the modules in S say now.
Seen(ds, S) == \A m \in S : tree[m].kind = "module" /\ ds[m] = tree[m].decl

Current(f) == f # NoFile /\ f.mods = Listed /\ Seen(f.view, Listed)

\* What a parse nobody has interfered with has read so far is still so.
QuietInv(p) ==
    quiet[p] =>
      /\ pc[p] = "query" => mods[p] = Listed /\ Seen(view[p], mods[p] \ todo[p])
      /\ pc[p] \in {"sort", "open", "write", "rename"} => mods[p] = Listed /\ Seen(view[p], Listed)
      /\ pc[p] = "include" => Current(cache)
      /\ pc[p] = "parsed" /\ goal[p] = "build" => Current(included[p])

\* A step of p that leaves q quiet leaves alone what q goes by.
LEMMA QuietOthers ==
    ASSUME TypeOK, NEW p \in Parses, NEW q \in Parses, q # p, ActionOf(p), QuietInv(q)
    PROVE  QuietInv(q)'
  <1> SUFFICES ASSUME quiet'[q] PROVE QuietInv(q)'
    BY DEF QuietInv
  <1>1. Same(q)
    BY OthersSame
  <1>2. quiet[q] /\ cache' = cache
    <2>1. ~Rename(p) /\ ~Clean(p)
      BY DEF Rename, Clean, Alone
    <2>2. CASE Start(p)
      BY <2>2 DEF Start, TypeOK
    <2>3. CASE quiet' = quiet /\ cache' = cache
      BY <2>3
    <2>4. Start(p) \/ (quiet' = quiet /\ cache' = cache)
      BY <2>1 DEF ActionOf, Step, Query, QueryFails, Visit, NextPass, Cycle, SortDone, OpenTmp,
                  WriteTmp, Signal, Kill, Refuse, Include, Fallback
    <2> QED BY <2>2, <2>3, <2>4
  <1>3. tree' = tree /\ goal'[q] = goal[q] /\ included'[q] = included[q]
    BY DEF ActionOf, Start, Step, Query, QueryFails, Visit, NextPass, Cycle, SortDone, OpenTmp,
           WriteTmp, Rename, Signal, Kill, Refuse, Include, Fallback, Clean, TypeOK
  <1> QED BY <1>1, <1>2, <1>3 DEF QuietInv, Same, Seen, Current, Listed

LEMMA QuietOwn ==
    ASSUME TypeOK, NEW p \in Parses, ActionOf(p), PInv(p), QuietInv(p)
    PROVE  QuietInv(p)'
  <1> USE DEF TypeOK
  <1>0. tree' = tree /\ Listed' = Listed
    BY DEF ActionOf, Start, Step, Query, QueryFails, Visit, NextPass, Cycle, SortDone, OpenTmp,
           WriteTmp, Rename, Signal, Kill, Refuse, Include, Fallback, Clean, Listed
  <1>1. CASE Start(p)
    <2>1. /\ mods'[p] = Listed /\ todo'[p] = Listed
          /\ pc'[p] = "query" \/ (pc'[p] = "open" /\ Listed = {})
      BY <1>1 DEF Start
    <2> QED BY <1>0, <2>1 DEF QuietInv, Seen
  <1>2. ASSUME NEW m \in Modules, Query(p, m) PROVE QuietInv(p)'
    <2>1. /\ pc[p] = "query" /\ tree[m].kind = "module" /\ quiet' = quiet /\ mods'[p] = mods[p]
          /\ view'[p] = [view[p] EXCEPT ![m] = tree[m].decl] /\ m \in todo[p]
      BY <1>2 DEF Query, First
    <2>2. /\ \/ pc'[p] = "sort" /\ todo[p] = {m}
             \/ pc'[p] = "query" /\ todo'[p] = todo[p] \ {m}
      BY <1>2 DEF Query
    <2>3. view'[p][m] = tree[m].decl /\ \A k \in Modules \ {m} : view'[p][k] = view[p][k]
      BY <2>1
    <2>4. quiet[p] => mods[p] = Listed /\ Seen(view[p], mods[p] \ todo[p])
      BY <2>1 DEF QuietInv
    <2>5. quiet[p] => Seen(view'[p], (mods[p] \ todo[p]) \cup {m})
      BY <2>1, <2>3, <2>4 DEF Seen, Listed
    <2> QED BY <1>0, <2>1, <2>2, <2>4, <2>5 DEF QuietInv, Seen
  <1>3. ASSUME NEW m \in Modules, Visit(p, m) PROVE QuietInv(p)'
    <2>1. pc[p] = "sort" /\ UNCHANGED <<pc, quiet, mods, view>>
      BY <1>3 DEF Visit
    <2> QED BY <1>0, <2>1 DEF QuietInv, Seen
  <1>4. CASE NextPass(p) \/ SortDone(p) \/ OpenTmp(p) \/ WriteTmp(p)
    <2>1. /\ pc[p] \in {"sort", "open", "write"} /\ pc'[p] \in {"sort", "open", "write", "rename"}
          /\ UNCHANGED <<quiet, mods, view>>
      BY <1>4 DEF NextPass, SortDone, OpenTmp, WriteTmp, gen
    <2> QED BY <1>0, <2>1 DEF QuietInv, Seen
  <1>5. CASE Rename(p)
    <2>1. /\ pc[p] = "rename" /\ pc'[p] = "include" /\ cache' = tmp[p]
          /\ quiet'[p] = quiet[p] /\ tmp[p] = Output(p, TRUE)
      BY <1>5 DEF Rename, Alone, PInv, DoneInv
    <2>2. tmp[p] # NoFile
      <3>1. Output(p, TRUE) \in File
        BY OutputType
      <3> QED BY <2>1, <3>1, ModOrderAssumption, Zenon
    <2>3. tmp[p].mods = mods[p] /\ tmp[p].view = view[p]
      BY <2>1 DEF Output
    <2> QED BY <1>0, <2>1, <2>2, <2>3 DEF QuietInv, Current, Seen
  <1>6. CASE Include(p)
    <2>1. pc[p] = "include" /\ pc'[p] = "parsed" /\ included'[p] = cache /\ quiet' = quiet
      BY <1>6 DEF Include
    <2> QED BY <1>0, <2>1 DEF QuietInv, Current, Seen
  <1>7. CASE Fallback(p)
    <2>1. goal'[p] # "build" /\ pc'[p] = "parsed"
      BY <1>7 DEF Fallback
    <2> QED BY <2>1 DEF QuietInv
  <1>8. CASE pc'[p] \in {"failed", "cycle", "killed", "refused", "cleaned"}
    BY <1>8 DEF QuietInv
  <1>9. (\E m \in Modules : QueryFails(p, m)) \/ Cycle(p) \/ Signal(p) \/ Kill(p) \/ Refuse(p) \/ Clean(p)
            => pc'[p] \in {"failed", "cycle", "killed", "refused", "cleaned"}
    BY DEF QueryFails, Cycle, Signal, Kill, Refuse, Clean
  <1> QED
    BY <1>1, <1>2, <1>3, <1>4, <1>5, <1>6, <1>7, <1>8, <1>9 DEF ActionOf, Step

LEMMA QuietNext ==
    IInv /\ (\A p \in Parses : QuietInv(p)) /\ [Next]_vars => (\A p \in Parses : QuietInv(p))'
  <1> SUFFICES ASSUME IInv, \A p \in Parses : QuietInv(p), [Next]_vars, NEW q \in Parses
               PROVE  QuietInv(q)'
    OBVIOUS
  <1>1. ASSUME NEW p \in Parses, ActionOf(p) PROVE QuietInv(q)'
    BY <1>1, QuietOthers, QuietOwn DEF IInv
  <1>2. ASSUME NEW m \in Modules, Edit(m) PROVE QuietInv(q)'
    BY <1>2 DEF Edit, QuietInv
  <1>3. CASE UNCHANGED vars
    BY <1>3 DEF vars, gen, QuietInv, Seen, Current, Listed
  <1> QED BY <1>1, <1>2, <1>3 DEF Next, ActionOf

\* A build that nobody interfered with goes by the makefiles as they are, and
\* never by an order an earlier run left.
THEOREM AlwaysFreshWhenAlone == Spec => []FreshWhenAlone
  <1>1. Init => \A p \in Parses : QuietInv(p)
    BY DEF Init, QuietInv
  <1>2. (\A p \in Parses : QuietInv(p)) => FreshWhenAlone
    BY DEF QuietInv, Current, Seen, FreshWhenAlone
  <1> QED BY <1>1, <1>2, QuietNext, IInvAlways, PTL DEF Spec
=============================================================================
