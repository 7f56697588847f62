------------------------ MODULE FrameworkBuildProofs ------------------------
(***************************************************************************)
(* Proofs about FrameworkBuild, for any modules, RUN_IDs and build orders. *)
(***************************************************************************)
EXTENDS FrameworkBuild, TLAPS

-----------------------------------------------------------------------------
(* Type correctness.  The unit a step is about is one of the order, which  *)
(* TypeOK does not say: Place does, with where each step finds the loop.   *)

Place ==
    /\ status = "building" <=> pc # "idle"
    /\ pc = "requires" => pos = 1 /\ made = [u \in Units |-> "none"]
    /\ pc \in {"making", "refresh"} => pos \in DOMAIN graph.order
    /\ pc = "check" => pos \notin DOMAIN graph.order
    /\ status \in {"passed", "failed"} => pos \notin DOMAIN graph.order

LEMMA OrderUnits ==
    ASSUME NEW g \in Graphs, NEW i \in DOMAIN g.order
    PROVE  /\ g.order[i] \in Units
           /\ i \in Nat \ {0}
           /\ g.deps \in [Units -> SUBSET Units]
           /\ \A j \in DOMAIN g.order : g.order[i] = g.order[j] => i = j
           /\ \A d \in g.deps[g.order[i]] :
                \E j \in DOMAIN g.order : j < i /\ g.order[j] = d
BY FrameworkBuildAssumption DEF Graph, Sorted

LEMMA TypeInit == Init => TypeOK
BY FrameworkBuildAssumption DEF Init, TypeOK, PCs, Statuses, Made

LEMMA PlaceInit == Init => Place
BY DEF Init, Place

LEMMA TypeNext == TypeOK /\ Place /\ [Next]_vars => TypeOK' /\ Place'
<1> SUFFICES ASSUME TypeOK, Place, [Next]_vars PROVE TypeOK' /\ Place'
  OBVIOUS
<1>0. ASSUME pos \in DOMAIN graph.order
      PROVE  Unit \in Units
  BY <1>0, OrderUnits DEF Unit, TypeOK
<1> USE DEF TypeOK, Place, PCs, Statuses, Made, markers
<1>1. CASE Begin
  BY <1>1, FrameworkBuildAssumption DEF Begin
<1>2. CASE Refuse
  BY <1>2 DEF Refuse, Exit
<1>3. CASE Required
  BY <1>3 DEF Required
<1>4. CASE Skip
  <2>1. Unit \in Units
    BY <1>0, <1>4 DEF Skip
  <2>2. PICK d \in graph.deps[Unit] \cap failed[run] :
            skipped' = [skipped EXCEPT ![run][Unit] =
                            IF skipped[run][d] # NoUnit THEN skipped[run][d] ELSE d]
    BY <1>4 DEF Skip
  <2>3. skipped' \in [RunIds -> [Units -> Units \cup {NoUnit}]]
    BY <2>1, <2>2
  <2> QED
    BY <1>4, <2>1, <2>3 DEF Skip
<1>5. CASE Enter
  BY <1>0, <1>5 DEF Enter
<1>6. CASE Succeed
  BY <1>0, <1>6 DEF Succeed
<1>7. CASE Fail
  BY <1>0, <1>7 DEF Fail, Exit
<1>8. CASE Refresh
  <2>1. latest' \in [Units -> Snapshot \cup {NoRun}]
    BY <1>0, <1>8 DEF Refresh, Snapshot
  <2> QED
    BY <1>8, <2>1 DEF Refresh, Exit
<1>9. CASE LoopDone
  BY <1>9 DEF LoopDone
<1>10. CASE Check
  BY <1>10 DEF Check, Exit
<1>11. CASE Kill
  BY <1>11 DEF Kill, Exit
<1>12. CASE UNCHANGED vars
  BY <1>12 DEF vars
<1> QED
  BY <1>1, <1>2, <1>3, <1>4, <1>5, <1>6, <1>7, <1>8, <1>9, <1>10, <1>11, <1>12 DEF Next

\* Whatever the invocations and however they end, the state has its type.
THEOREM TypeCorrect == Spec => []TypeOK
<1>1. Init => TypeOK /\ Place
  BY TypeInit, PlaceInit
<1>2. (TypeOK /\ Place) /\ [Next]_vars => (TypeOK /\ Place)'
  BY TypeNext
<1> QED
  BY <1>1, <1>2, PTL DEF Spec

-----------------------------------------------------------------------------
(* The inductive invariant.  Markers of a RUN_ID survive the invocation    *)
(* that wrote them, so they say nothing of a unit this invocation has not  *)
(* come to; of the ones it is done with they say exactly what it made of   *)
(* them.                                                                   *)

\* u's markers are this invocation's.
Settled(u) ==
    /\ made[u] # "none"
    /\ u \in failed[run] <=> made[u] \in {"failed", "skipped"}
    /\ skipped[run][u] # NoUnit <=> made[u] = "skipped"

\* The places of the order the loop is done with.
Done == {i \in DOMAIN graph.order : i < pos \/ (i = pos /\ pc = "refresh")}

Past == \A i \in Done : Settled(graph.order[i])

Future ==
    /\ pc \notin {"idle"} =>
        \A i \in DOMAIN graph.order \ Done : made[graph.order[i]] = "none"
    /\ \A u \in Units \ Present : made[u] = "none"

Making ==
    pc = "making" =>
        /\ skipped[run][Unit] = NoUnit
        /\ graph.deps[Unit] \cap failed[run] = {}

FastStop == failFast /\ pc # "idle" => \A u \in Units : made[u] \in {"none", "ok"}

Latest ==
    \A i \in DOMAIN graph.order : i < pos =>
        LET u == graph.order[i]
        IN latest[u] = [run |-> run, failed |-> made[u] # "ok", root |-> Roots[u]]

IInv == TypeOK /\ Place /\ Past /\ Future /\ Making /\ FastStop /\ Latest /\ RootIsCause

\* Present and Done, unfolded.
LEMMA Domains ==
    ASSUME TypeOK
    PROVE  /\ \A i \in DOMAIN graph.order :
                /\ graph.order[i] \in Units \cap Present
                /\ i \in Nat \ {0}
           /\ \A i, j \in DOMAIN graph.order :
                graph.order[i] = graph.order[j] => i = j
           /\ \A u \in Present : u \in Units /\ \E i \in DOMAIN graph.order : u = graph.order[i]
           /\ graph.deps \in [Units -> SUBSET Units]
<1>1. graph \in Graphs
  BY DEF TypeOK
<1>2. graph \in Graph /\ Sorted(graph)
  BY <1>1, FrameworkBuildAssumption
<1> QED
  BY <1>1, <1>2, OrderUnits DEF Present, Graph, Sorted

\* What a unit in the making needs has been dealt with.
LEMMA NeedsDone ==
    ASSUME TypeOK, pos \in DOMAIN graph.order, pc # "idle", Past, NEW d \in graph.deps[Unit]
    PROVE  d \in Present /\ d # Unit /\ Settled(d)
<1>1. graph \in Graphs
  BY DEF TypeOK
<1>2. PICK j \in DOMAIN graph.order : j < pos /\ graph.order[j] = d
  BY <1>1, OrderUnits DEF Unit
<1>3. j \in Done
  BY <1>2 DEF Done
<1>4. j # pos
  BY <1>2, Domains
<1> QED
  BY <1>2, <1>3, <1>4, Domains DEF Past, Present, Unit

LEMMA IInvInit == Init => IInv
<1> SUFFICES ASSUME Init PROVE IInv
  OBVIOUS
<1>1. TypeOK /\ Place
  BY TypeInit, PlaceInit
<1>2. \A i \in DOMAIN graph.order : ~(i < pos)
  BY <1>1, Domains DEF Init
<1> QED
  BY <1>1, <1>2, Domains DEF IInv, Init, Past, Done, Future, Making, FastStop, Latest, RootIsCause

\* A new invocation starts from nothing done.
LEMMA IInvBegin == IInv /\ Begin => (Past /\ Future /\ Making /\ FastStop /\ Latest /\ RootIsCause)'
<1> SUFFICES ASSUME IInv, Begin
             PROVE  (Past /\ Future /\ Making /\ FastStop /\ Latest /\ RootIsCause)'
  OBVIOUS
<1>1. TypeOK'
  BY TypeNext DEF IInv, Next
<1>2. \A i \in DOMAIN graph.order' : i \in Nat \ {0} /\ graph.order'[i] \in Units
  BY <1>1, OrderUnits DEF TypeOK
<1>3. \A i \in DOMAIN graph.order' : ~(i < pos')
  BY <1>2 DEF Begin
<1>4. Done' = {}
  BY <1>3 DEF Begin, Done
<1>5. \A u \in Units : made'[u] = "none"
  BY DEF Begin
<1>6. Present' \subseteq Units
  BY <1>2 DEF Present
<1> QED
  BY <1>2, <1>3, <1>4, <1>5, <1>6 DEF Begin, Past, Future, Making, FastStop, Latest, RootIsCause

\* The steps between units write no marker.
LEMMA IInvQuiet ==
    IInv /\ (Refuse \/ Required \/ LoopDone \/ Check \/ UNCHANGED vars)
        => (Past /\ Future /\ Making /\ FastStop /\ Latest /\ RootIsCause)'
<1> SUFFICES ASSUME IInv, Refuse \/ Required \/ LoopDone \/ Check \/ UNCHANGED vars
             PROVE  (Past /\ Future /\ Making /\ FastStop /\ Latest /\ RootIsCause)'
  OBVIOUS
<1>1. UNCHANGED <<graph, run, failFast, markers, pos, made>>
  BY DEF Refuse, Required, LoopDone, Check, vars
<1>2. Done' = Done /\ Present' = Present /\ Roots' = Roots /\ Unit' = Unit
  BY <1>1 DEF Refuse, Required, LoopDone, Check, vars, Done, Present, Roots, Unit, markers, Exit
<1>3. pc' \in {"idle", "loop", "check"} \/ pc' = pc
  BY DEF Refuse, Required, LoopDone, Check, vars, Exit
<1>4. pc' # "idle" => pc # "idle"
  BY DEF Refuse, Required, LoopDone, Check, vars, Exit
<1>5. \A u : Settled(u)' <=> Settled(u)
  BY <1>1 DEF Settled, markers
<1>6. Past' /\ Future' /\ Making' /\ FastStop'
  BY <1>1, <1>2, <1>3, <1>4, <1>5 DEF IInv, Past, Future, Making, FastStop, markers
<1>7. Latest' /\ RootIsCause'
  BY <1>1, <1>2 DEF IInv, Latest, RootIsCause, markers, P!Reaches
<1> QED
  BY <1>6, <1>7

\* A step about the unit the loop is at leaves the others' markers alone.
LEMMA OthersKept ==
    ASSUME TypeOK, pos \in DOMAIN graph.order,
           UNCHANGED <<graph, run, pos>>,
           TypeOK',
           \A v \in Units \ {Unit} :
                /\ made'[v] = made[v]
                /\ v \in failed'[run] <=> v \in failed[run]
                /\ skipped'[run][v] = skipped[run][v]
    PROVE  /\ Unit \in Units \cap Present /\ Unit' = Unit /\ Present' = Present
           /\ \A v \in Units \ {Unit} : Settled(v)' <=> Settled(v)
           /\ \A v \in Units \ {Unit} : Roots'[v] = Roots[v]
           /\ \A i \in DOMAIN graph.order : i # pos => graph.order[i] \in Units \ {Unit}
<1>1. Unit \in Units \cap Present /\ Unit' = Unit /\ Present' = Present
  BY Domains DEF Unit, Present
<1>2. \A v \in Units \ {Unit} : Settled(v)' <=> Settled(v)
  BY DEF Settled
<1>3. \A v \in Units \ {Unit} : Roots'[v] = Roots[v]
  BY DEF Roots
<1>4. \A i \in DOMAIN graph.order : i # pos => graph.order[i] \in Units \ {Unit}
  BY Domains DEF Unit
<1> QED
  BY <1>1, <1>2, <1>3, <1>4

LEMMA IInvEnter == IInv /\ Enter => (Past /\ Future /\ Making /\ FastStop /\ Latest /\ RootIsCause)'
<1> SUFFICES ASSUME IInv, Enter
             PROVE  (Past /\ Future /\ Making /\ FastStop /\ Latest /\ RootIsCause)'
  OBVIOUS
<1>1. TypeOK /\ TypeOK' /\ pos \in DOMAIN graph.order /\ Unit \in Units
  BY TypeNext, Domains DEF IInv, Next, Enter, Unit
<1>2. /\ \A v \in Units \ {Unit} : skipped'[run][v] = skipped[run][v]
      /\ skipped'[run][Unit] = NoUnit
  BY <1>1 DEF Enter, TypeOK
<1>3. /\ Unit \in Units \cap Present /\ Unit' = Unit /\ Present' = Present
      /\ \A v \in Units \ {Unit} : Settled(v)' <=> Settled(v)
      /\ \A v \in Units \ {Unit} : Roots'[v] = Roots[v]
      /\ \A i \in DOMAIN graph.order : i # pos => graph.order[i] \in Units \ {Unit}
  BY <1>1, <1>2, OthersKept DEF Enter
<1>4. Done' = Done /\ pos \notin Done
  BY <1>1 DEF Enter, Done, TypeOK
<1>5. made[Unit] = "none"
  BY <1>1, <1>4 DEF IInv, Future, Enter, Unit
<1>6. Past'
  BY <1>3, <1>4 DEF IInv, Past, Enter, Done
<1>7. Future' /\ Making' /\ FastStop'
  BY <1>2, <1>3, <1>4 DEF IInv, Future, Making, FastStop, Enter
<1>8. Latest'
  BY <1>1, <1>3 DEF IInv, Latest, Enter, TypeOK
<1>9. RootIsCause'
  BY <1>2, <1>3, <1>5, <1>1, Domains DEF IInv, RootIsCause, Enter, P!Reaches
<1> QED
  BY <1>6, <1>7, <1>8, <1>9

LEMMA IInvSucceed == IInv /\ Succeed => (Past /\ Future /\ Making /\ FastStop /\ Latest /\ RootIsCause)'
<1> SUFFICES ASSUME IInv, Succeed
             PROVE  (Past /\ Future /\ Making /\ FastStop /\ Latest /\ RootIsCause)'
  OBVIOUS
<1>1. TypeOK /\ TypeOK' /\ pos \in DOMAIN graph.order /\ Unit \in Units
  BY TypeNext, Domains DEF IInv, Next, Succeed, Unit, Place
<1>2. /\ \A v \in Units \ {Unit} :
            made'[v] = made[v] /\ (v \in failed'[run] <=> v \in failed[run])
      /\ made'[Unit] = "ok" /\ Unit \notin failed'[run] /\ skipped' = skipped
      /\ skipped[run][Unit] = NoUnit
  BY <1>1 DEF Succeed, TypeOK, IInv, Making
<1>3. /\ Unit \in Units \cap Present /\ Unit' = Unit /\ Present' = Present
      /\ \A v \in Units \ {Unit} : Settled(v)' <=> Settled(v)
      /\ \A v \in Units \ {Unit} : Roots'[v] = Roots[v]
      /\ \A i \in DOMAIN graph.order : i # pos => graph.order[i] \in Units \ {Unit}
  BY <1>1, <1>2, OthersKept DEF Succeed
<1>4. Done' = Done \cup {pos} /\ pos \notin Done
  BY <1>1 DEF Succeed, Done, TypeOK
<1>5. made[Unit] = "none"
  BY <1>1, <1>4 DEF IInv, Future, Succeed, Unit
<1>6. Settled(Unit)'
  BY <1>2, <1>3 DEF Settled, Succeed
<1>7. Past'
  BY <1>3, <1>4, <1>6 DEF IInv, Past, Succeed, Done, Unit
<1>8. Future' /\ Making' /\ FastStop'
  BY <1>2, <1>3, <1>4 DEF IInv, Future, Making, FastStop, Succeed
<1>9. Latest'
  BY <1>1, <1>2, <1>3 DEF IInv, Latest, Succeed, TypeOK
<1>10. RootIsCause'
  BY <1>1, <1>2, <1>3, <1>5, Domains DEF IInv, RootIsCause, Succeed, P!Reaches
<1> QED
  BY <1>7, <1>8, <1>9, <1>10

LEMMA IInvFail == IInv /\ Fail => (Past /\ Future /\ Making /\ FastStop /\ Latest /\ RootIsCause)'
<1> SUFFICES ASSUME IInv, Fail
             PROVE  (Past /\ Future /\ Making /\ FastStop /\ Latest /\ RootIsCause)'
  OBVIOUS
<1>1. TypeOK /\ TypeOK' /\ pos \in DOMAIN graph.order /\ Unit \in Units
  BY TypeNext, Domains DEF IInv, Next, Fail, Unit, Place
<1>2. /\ \A v \in Units \ {Unit} :
            made'[v] = made[v] /\ (v \in failed'[run] <=> v \in failed[run])
      /\ made'[Unit] = "failed" /\ Unit \in failed'[run] /\ skipped' = skipped
      /\ skipped[run][Unit] = NoUnit
  BY <1>1 DEF Fail, TypeOK, IInv, Making
<1>3. /\ Unit \in Units \cap Present /\ Unit' = Unit /\ Present' = Present
      /\ \A v \in Units \ {Unit} : Settled(v)' <=> Settled(v)
      /\ \A v \in Units \ {Unit} : Roots'[v] = Roots[v]
      /\ \A i \in DOMAIN graph.order : i # pos => graph.order[i] \in Units \ {Unit}
  BY <1>1, <1>2, OthersKept DEF Fail
<1>4. Done' \in {Done, Done \cup {pos}} /\ pos \notin Done /\ (pc' # "idle" => Done' = Done \cup {pos})
  BY <1>1 DEF Fail, Done, TypeOK, Exit
<1>5. made[Unit] = "none"
  BY <1>1, <1>4 DEF IInv, Future, Fail, Unit
<1>6. Settled(Unit)'
  BY <1>2, <1>3 DEF Settled, Fail
<1>7. Past'
  BY <1>3, <1>4, <1>6 DEF IInv, Past, Fail, Done, Unit
<1>8. Future' /\ Making' /\ FastStop'
  BY <1>2, <1>3, <1>4 DEF IInv, Future, Making, FastStop, Fail, Exit
<1>9. Latest'
  BY <1>1, <1>2, <1>3 DEF IInv, Latest, Fail, TypeOK
<1>10. RootIsCause'
  BY <1>1, <1>2, <1>3, <1>5, Domains DEF IInv, RootIsCause, Fail, P!Reaches
<1> QED
  BY <1>7, <1>8, <1>9, <1>10

\* A skip passes on a root cause that the skipped unit needs too.
LEMMA ReachesThrough ==
    ASSUME TypeOK, NEW u \in Units, NEW d \in graph.deps[u], NEW r
    PROVE  /\ P!Reaches(graph.deps, u, d)
           /\ P!Reaches(graph.deps, d, r) => P!Reaches(graph.deps, u, r)
<1>1. P!Reaches(graph.deps, u, d)
  BY DEF P!Reaches
<1>2. ASSUME P!Reaches(graph.deps, d, r)
      PROVE  P!Reaches(graph.deps, u, r)
  <2> SUFFICES ASSUME NEW S \in SUBSET Units, graph.deps[u] \subseteq S,
                      \A x \in S : graph.deps[x] \subseteq S
               PROVE  r \in S
    BY DEF P!Reaches
  <2>1. graph.deps[d] \subseteq S
    OBVIOUS
  <2> QED
    BY <1>2, <2>1 DEF P!Reaches
<1> QED
  BY <1>1, <1>2

LEMMA IInvSkip == IInv /\ Skip => (Past /\ Future /\ Making /\ FastStop /\ Latest /\ RootIsCause)'
<1> SUFFICES ASSUME IInv, Skip
             PROVE  (Past /\ Future /\ Making /\ FastStop /\ Latest /\ RootIsCause)'
  OBVIOUS
<1>1. TypeOK /\ TypeOK' /\ pos \in DOMAIN graph.order /\ Unit \in Units
  BY TypeNext, Domains DEF IInv, Next, Skip, Unit
<1>2. PICK d \in graph.deps[Unit] \cap failed[run] :
            skipped' = [skipped EXCEPT ![run][Unit] =
                            IF skipped[run][d] # NoUnit THEN skipped[run][d] ELSE d]
  BY DEF Skip
<1>3. d \in Present \cap Units /\ d # Unit /\ Settled(d)
  BY <1>1, NeedsDone, Domains DEF IInv, Skip
<1>4. /\ \A v \in Units \ {Unit} :
            /\ made'[v] = made[v]
            /\ v \in failed'[run] <=> v \in failed[run]
            /\ skipped'[run][v] = skipped[run][v]
      /\ made'[Unit] = "skipped" /\ Unit \in failed'[run]
      /\ skipped'[run][Unit] = IF skipped[run][d] # NoUnit THEN skipped[run][d] ELSE d
  BY <1>1, <1>2 DEF Skip, TypeOK
<1>5. /\ Unit \in Units \cap Present /\ Unit' = Unit /\ Present' = Present
      /\ \A v \in Units \ {Unit} : Settled(v)' <=> Settled(v)
      /\ \A v \in Units \ {Unit} : Roots'[v] = Roots[v]
      /\ \A i \in DOMAIN graph.order : i # pos => graph.order[i] \in Units \ {Unit}
  BY <1>1, <1>4, OthersKept DEF Skip
<1>6. Done' = Done \cup {pos} /\ pos \notin Done
  BY <1>1 DEF Skip, Done, TypeOK
<1>7. made[Unit] = "none"
  BY <1>1, <1>6 DEF IInv, Future, Skip, Unit
<1>8. Settled(Unit)'
  BY <1>3, <1>4, <1>5, FrameworkBuildAssumption DEF Settled, Skip
<1>9. Past'
  BY <1>5, <1>6, <1>8 DEF IInv, Past, Skip, Done, Unit
<1>10. ~failFast
  BY <1>2, <1>3 DEF IInv, FastStop, Settled, Skip
<1>11. Future' /\ Making' /\ FastStop'
  BY <1>4, <1>5, <1>6, <1>10 DEF IInv, Future, Making, FastStop, Skip
<1>12. Latest'
  BY <1>1, <1>4, <1>5 DEF IInv, Latest, Skip, TypeOK
<1>13. LET r == skipped'[run][Unit]
       IN r \in Present \ {Unit} /\ made[r] = "failed" /\ P!Reaches(graph.deps, Unit, r)
  <2>1. CASE made[d] = "failed"
    BY <1>1, <1>3, <1>4, <2>1, ReachesThrough DEF Settled
  <2>2. CASE made[d] = "skipped"
    <3>1. skipped'[run][Unit] = skipped[run][d]
      BY <1>3, <1>4, <2>2 DEF Settled
    <3>2. LET r == skipped[run][d]
          IN r \in Present /\ made[r] = "failed" /\ P!Reaches(graph.deps, d, r)
      BY <1>3, <2>2 DEF IInv, RootIsCause
    <3> QED
      BY <1>1, <1>7, <3>1, <3>2, ReachesThrough
  <2> QED
    BY <1>2, <1>3, <2>1, <2>2 DEF Settled
<1>14. RootIsCause'
  <2> SUFFICES ASSUME NEW u \in Present, made'[u] = "skipped"
               PROVE  LET r == skipped'[run][u]
                      IN r \in Present /\ made'[r] = "failed" /\ P!Reaches(graph.deps, u, r)
    BY <1>5 DEF RootIsCause, Skip, P!Reaches
  <2>1. CASE u = Unit
    BY <1>1, <1>4, <1>13, <2>1, Domains
  <2>2. CASE u # Unit
    BY <1>1, <1>4, <1>7, <2>2, Domains DEF IInv, RootIsCause
  <2> QED
    BY <2>1, <2>2
<1> QED
  BY <1>9, <1>11, <1>12, <1>14

LEMMA IInvRefresh == IInv /\ Refresh => (Past /\ Future /\ Making /\ FastStop /\ Latest /\ RootIsCause)'
<1> SUFFICES ASSUME IInv, Refresh
             PROVE  (Past /\ Future /\ Making /\ FastStop /\ Latest /\ RootIsCause)'
  OBVIOUS
<1>1. TypeOK /\ TypeOK' /\ pos \in DOMAIN graph.order /\ Unit \in Units
  BY TypeNext, Domains DEF IInv, Next, Refresh, Unit, Place
<1>2. pos \in Done /\ Settled(Unit)
  BY <1>1 DEF IInv, Past, Done, Refresh, Unit
<1>3. pc' = "loop" /\ pos' = pos + 1
  BY <1>1, <1>2 DEF IInv, FastStop, Refresh, Settled
<1>0. \A i \in DOMAIN graph.order : i < pos + 1 <=> i < pos \/ i = pos
  <2>1. \A i \in DOMAIN graph.order : i \in Nat
    BY <1>1, Domains
  <2>2. pos \in Nat
    BY <1>1 DEF TypeOK
  <2> QED
    BY <2>1, <2>2
<1>4. Done' = Done
  BY <1>0, <1>3 DEF Done, Refresh
<1>5. \A u : Settled(u)' <=> Settled(u)
  BY DEF Settled, Refresh
<1>6. Past' /\ Future' /\ Making' /\ FastStop' /\ RootIsCause'
  BY <1>3, <1>4, <1>5 DEF IInv, Past, Future, Making, FastStop, RootIsCause, Refresh, Present, P!Reaches
<1>7. Latest'
  <2> SUFFICES ASSUME NEW i \in DOMAIN graph.order, i < pos + 1
               PROVE  LET u == graph.order[i]
                      IN latest'[u] = [run |-> run, failed |-> made[u] # "ok", root |-> Roots[u]]
    BY <1>3 DEF Latest, Refresh, Roots
  <2>1. CASE i = pos
    BY <1>1, <1>2, <2>1 DEF Refresh, Settled, Roots, TypeOK, Unit, Made
  <2>2. CASE i < pos
    BY <1>1, <2>2, Domains DEF IInv, Latest, Refresh, TypeOK, Unit
  <2> QED
    BY <1>0, <2>1, <2>2
<1> QED
  BY <1>6, <1>7

LEMMA IInvKill == IInv /\ Kill => (Past /\ Future /\ Making /\ FastStop /\ Latest /\ RootIsCause)'
<1> SUFFICES ASSUME IInv, Kill
             PROVE  (Past /\ Future /\ Making /\ FastStop /\ Latest /\ RootIsCause)'
  OBVIOUS
<1>1. TypeOK /\ UNCHANGED <<graph, run, failFast, failed, skipped, pos, made>>
  BY DEF IInv, Kill
<1>2. pc' = "idle" /\ Done' \subseteq Done /\ Present' = Present /\ Roots' = Roots
  BY <1>1 DEF Kill, Exit, Done, Present, Roots
<1>3. \A u : Settled(u)' <=> Settled(u)
  BY <1>1 DEF Settled
<1>4. Past' /\ Future' /\ Making' /\ FastStop' /\ RootIsCause'
  BY <1>1, <1>2, <1>3 DEF IInv, Past, Future, Making, FastStop, RootIsCause, P!Reaches
<1>5. Latest'
  <2> SUFFICES ASSUME NEW i \in DOMAIN graph.order, i < pos
               PROVE  latest'[graph.order[i]] = latest[graph.order[i]]
    BY <1>1, <1>2 DEF IInv, Latest
  <2>1. pc = "refresh" => pos \in DOMAIN graph.order
    BY DEF IInv, Place
  <2>2. i # pos
    BY <1>1, Domains DEF TypeOK
  <2> QED
    BY <1>1, <2>1, <2>2, Domains DEF Kill, TypeOK, Unit
<1> QED
  BY <1>4, <1>5

LEMMA IInvNext == IInv /\ [Next]_vars => IInv'
<1> SUFFICES ASSUME IInv, [Next]_vars PROVE IInv'
  OBVIOUS
<1>1. TypeOK' /\ Place'
  BY TypeNext DEF IInv
<1>2. (Past /\ Future /\ Making /\ FastStop /\ Latest /\ RootIsCause)'
  BY IInvBegin, IInvQuiet, IInvSkip, IInvEnter, IInvSucceed, IInvFail, IInvRefresh, IInvKill
     DEF Next
<1> QED
  BY <1>1, <1>2 DEF IInv

THEOREM IInvAlways == Spec => []IInv
BY IInvInit, IInvNext, PTL DEF Spec

-----------------------------------------------------------------------------
(* What follows from it.                                                   *)

\* A skipped module is put down to one it needs that failed in this very
\* invocation.
THEOREM RootAlwaysCause == Spec => []RootIsCause
<1>1. IInv => RootIsCause
  BY DEF IInv
<1> QED
  BY <1>1, IInvAlways, PTL

\* The markers the final report reads tell what this invocation made of each
\* module it is done with.
THEOREM ReportAlwaysTrue == Spec => []ReportIsTrue
<1>1. IInv => ReportIsTrue
  <2> SUFFICES ASSUME IInv, NEW i \in DOMAIN graph.order, i < pos
               PROVE  Settled(graph.order[i])
    BY DEF ReportIsTrue, Settled
  <2> QED
    BY DEF IInv, Past, Done
<1> QED
  BY <1>1, IInvAlways, PTL

\* A build that reaches its end leaves every module's runs/latest at it.
THEOREM LatestAlwaysKept == Spec => []LatestKept
<1>1. IInv => LatestKept
  <2> SUFFICES ASSUME IInv, status \in {"passed", "failed"}, NEW u \in Present
               PROVE  latest[u] = [run |-> run, failed |-> made[u] # "ok", root |-> Roots[u]]
    BY DEF LatestKept
  <2>1. TypeOK /\ pos \notin DOMAIN graph.order
    BY DEF IInv, Place
  <2>2. PICK i \in DOMAIN graph.order : u = graph.order[i]
    BY DEF Present
  <2>3. i < pos
    <3>1. graph.order \in Seq(Units) /\ pos \in Nat \ {0}
      BY <2>1, FrameworkBuildAssumption DEF TypeOK, Graph
    <3> QED
      BY <2>1, <2>2, <3>1
  <2> QED
    BY <2>2, <2>3 DEF IInv, Latest
<1> QED
  BY <1>1, IInvAlways, PTL

-----------------------------------------------------------------------------
(* The refinement: what the markers decide is what a build that remembers  *)
(* only its own attempts would have decided.                               *)

LEMMA AllDone ==
    ASSUME IInv, pos \notin DOMAIN graph.order, NEW u \in Present
    PROVE  Settled(u)
<1>1. TypeOK
  BY DEF IInv
<1>2. graph.order \in Seq(Units) /\ pos \in Nat \ {0}
  BY <1>1, FrameworkBuildAssumption DEF TypeOK, Graph
<1>3. PICK i \in DOMAIN graph.order : u = graph.order[i]
  BY DEF Present
<1>4. i < pos
  BY <1>2, <1>3
<1> QED
  BY <1>3, <1>4 DEF IInv, Past, Done

\* The roots of the units a step does not skip stay what they are.
LEMMA RootsFun == TypeOK => Roots \in [Units -> Units \cup {NoUnit}]
BY DEF TypeOK, Roots

LEMMA AbstractInit == Init => P!Init
<1> SUFFICES ASSUME Init PROVE P!Init
  OBVIOUS
<1>1. TypeOK
  BY TypeInit
<1>2. Present \in SUBSET Units /\ graph.deps \in [Units -> SUBSET Units]
  BY <1>1, Domains
<1> QED
  BY <1>2 DEF Init, Roots, P!Init, P!Nothing, P!NoRoots

LEMMA AbstractTry ==
    ASSUME IInv, Succeed \/ Fail
    PROVE  P!Try(Unit)
<1>1. TypeOK /\ pos \in DOMAIN graph.order /\ Unit \in Units \cap Present /\ status = "building"
  BY Domains DEF IInv, Place, Succeed, Fail, Unit
<1>2. made[Unit] = "none"
  <2>1. pos \notin Done
    BY <1>1 DEF Done, Succeed, Fail, TypeOK
  <2> QED
    BY <1>1, <2>1 DEF IInv, Future, Succeed, Fail, Unit
<1>3. \A d \in graph.deps[Unit] : made[d] = "ok"
  <2> SUFFICES ASSUME NEW d \in graph.deps[Unit] PROVE made[d] = "ok"
    OBVIOUS
  <2>1. Settled(d) /\ d \in Units
    BY <1>1, NeedsDone, Domains DEF IInv, Succeed, Fail
  <2>2. d \notin failed[run]
    BY DEF IInv, Making, Succeed, Fail
  <2> QED
    BY <1>1, <2>1, <2>2 DEF Settled, TypeOK, Made
<1>4. Roots' = Roots
  <2>1. \A u \in Units : (made'[u] = "skipped") <=> (made[u] = "skipped")
    BY <1>1, <1>2 DEF Succeed, Fail, TypeOK
  <2> QED
    BY <2>1 DEF Roots, Succeed, Fail
<1> QED
  BY <1>1, <1>2, <1>3, <1>4 DEF P!Try, Succeed, Fail, Exit, Present

LEMMA AbstractSkip ==
    ASSUME IInv, Skip
    PROVE  P!Skip(Unit)
<1>1. TypeOK /\ pos \in DOMAIN graph.order /\ Unit \in Units \cap Present /\ status = "building"
  BY Domains DEF IInv, Place, Skip, Unit
<1>2. made[Unit] = "none"
  <2>1. pos \notin Done
    BY <1>1 DEF Done, Skip, TypeOK
  <2> QED
    BY <1>1, <2>1 DEF IInv, Future, Skip, Unit
<1>3. PICK d \in graph.deps[Unit] \cap failed[run] :
            skipped' = [skipped EXCEPT ![run][Unit] =
                            IF skipped[run][d] # NoUnit THEN skipped[run][d] ELSE d]
  BY DEF Skip
<1>4. d \in Units /\ d # Unit /\ Settled(d)
  BY <1>1, NeedsDone, Domains DEF IInv, Skip
<1>5. Roots' = [Roots EXCEPT ![Unit] = IF made[d] = "failed" THEN d ELSE Roots[d]]
  <2>1. \A u \in Units : Roots'[u] = IF u = Unit THEN skipped'[run][Unit] ELSE Roots[u]
    BY <1>1, <1>3 DEF Roots, Skip, TypeOK
  <2>2. skipped'[run][Unit] = IF made[d] = "failed" THEN d ELSE Roots[d]
    BY <1>1, <1>3, <1>4 DEF Settled, Roots, TypeOK
  <2> QED
    BY <1>1, <2>1, <2>2 DEF Roots
<1>6. P!Bad(d)
  BY <1>3, <1>4 DEF Settled, P!Bad
<1>7. \E e \in graph.deps[Unit] :
        /\ P!Bad(e)
        /\ Roots' = [Roots EXCEPT ![Unit] = IF made[e] = "failed" THEN e ELSE Roots[e]]
  BY <1>3, <1>5, <1>6
<1>8. /\ made' = [made EXCEPT ![Unit] = "skipped"]
      /\ UNCHANGED <<status, Present, graph.deps, failFast>>
  BY DEF Skip, Present
<1> QED
  BY <1>1, <1>2, <1>7, <1>8 DEF P!Skip

LEMMA AbstractNext == IInv /\ [Next]_vars => [P!Next]_P!vars
<1> SUFFICES ASSUME IInv, [Next]_vars PROVE [P!Next]_P!vars
  OBVIOUS
<1>0. TypeOK /\ TypeOK' /\ Place
  BY TypeNext DEF IInv
<1>1. CASE Begin
  <2>1. graph' \in Graphs /\ Present' \in SUBSET Units
    BY <1>0, OrderUnits DEF TypeOK, Present
  <2>2. graph.deps' \in [Units -> SUBSET Units]
    BY <2>1, FrameworkBuildAssumption DEF Graph
  <2>3. Roots' = P!NoRoots
    BY <1>1 DEF Begin, Roots, P!NoRoots
  <2>4. P!Begin
    BY <1>0, <1>1, <2>1, <2>2, <2>3 DEF Begin, Place, P!Begin, P!Nothing
  <2> QED
    BY <2>4 DEF P!Next
<1>2. CASE Refuse
  <2>1. P!Refuse
    BY <1>0, <1>2 DEF Refuse, Exit, Place, Present, Roots, markers, P!Refuse, P!Nothing
  <2> QED
    BY <2>1 DEF P!Next
<1>3. CASE Required \/ LoopDone
  BY <1>3 DEF Required, LoopDone, Present, Roots, markers, P!vars
<1>4. CASE Skip
  <2>1. Unit \in Units
    BY <1>0, <1>4, Domains DEF Skip, Unit
  <2> QED
    BY <1>4, <2>1, AbstractSkip DEF P!Next
<1>5. CASE Enter
  <2>1. pos \notin Done /\ Unit \in Units
    BY <1>0, <1>5, Domains DEF Done, Enter, TypeOK, Unit
  <2>2. made[Unit] = "none"
    BY <1>5, <2>1 DEF IInv, Future, Enter, Unit
  <2>3. Roots' = Roots
    BY <1>0, <1>5, <2>1, <2>2 DEF Roots, Enter, TypeOK
  <2> QED
    BY <1>5, <2>3 DEF Enter, Present, P!vars
<1>6. CASE Succeed \/ Fail
  <2>1. Unit \in Units
    BY <1>0, <1>6, Domains DEF Succeed, Fail, Place, Unit
  <2> QED
    BY <1>6, <2>1, AbstractTry DEF P!Next
<1>7. CASE Refresh
  <2>1. pos \in Done
    BY <1>0, <1>7 DEF Refresh, Place, Done
  <2>2. Settled(Unit) /\ Unit \in Units
    BY <1>0, <2>1, Domains DEF IInv, Past, Unit, Done
  <2>3. UNCHANGED status
    BY <1>7, <2>2 DEF IInv, FastStop, Refresh, Settled
  <2> QED
    BY <1>7, <2>3 DEF Refresh, Present, Roots, P!vars
<1>8. CASE Check
  <2>1. \A u \in Present : Settled(u) /\ u \in Units
    BY <1>0, <1>8, AllDone, Domains DEF Check, Place
  <2>2. \A u \in Present : made[u] # "none" /\ (u \in failed[run] <=> made[u] # "ok")
    BY <1>0, <2>1 DEF Settled, TypeOK, Made
  <2>3. (\E i \in DOMAIN graph.order : graph.order[i] \in failed[run])
            <=> ~(\A u \in Present : made[u] = "ok")
    BY <2>2 DEF Present
  <2>4. P!End
    BY <1>0, <1>8, <2>2, <2>3 DEF Check, Exit, Place, Present, Roots, markers, P!End
  <2> QED
    BY <2>4 DEF P!Next
<1>9. CASE Kill
  <2>1. P!Kill
    BY <1>0, <1>9 DEF Kill, Exit, Place, Present, Roots, P!Kill
  <2> QED
    BY <2>1 DEF P!Next
<1>10. CASE UNCHANGED vars
  BY <1>10 DEF vars, markers, Present, Roots, P!vars
<1> QED
  BY <1>1, <1>2, <1>3, <1>4, <1>5, <1>6, <1>7, <1>8, <1>9, <1>10 DEF Next

\* The framework's build, working from markers that outlive it, implements the
\* keep-going build, which remembers only its own attempts.
THEOREM KeepsPromise == Spec => Promise
<1>1. Init => P!Init
  BY AbstractInit
<1>2. IInv /\ [Next]_vars => [P!Next]_P!vars
  BY AbstractNext
<1> QED
  BY <1>1, <1>2, IInvAlways, PTL DEF Spec, Promise, P!Spec
=============================================================================
