------------------------ MODULE WorkspaceBuildProofs ------------------------
(***************************************************************************)
(* Proofs about WorkspaceBuild, for any frameworks, RUN_IDs and makefiles, *)
(* and any number of invocations.                                          *)
(***************************************************************************)
EXTENDS WorkspaceBuild, TLAPS

-----------------------------------------------------------------------------
(* Type correctness.  The framework a step is about is one of the order,   *)
(* which TypeOK does not say: Place does.                                  *)

Place ==
    /\ status = "building" <=> pc # "idle"
    /\ pc \in {"making", "refresh"} => pos \in DOMAIN config.order
    /\ pc = "check" \/ Ended => pos \notin DOMAIN config.order

LEMMA ConfigOrder ==
    ASSUME NEW c \in Configs, NEW i \in DOMAIN c.order
    PROVE  /\ c.order[i] \in Frameworks
           /\ i \in Nat \ {0}
           /\ c.prereqs \in [Frameworks -> SUBSET Frameworks]
           /\ \A j \in DOMAIN c.order : c.order[i] = c.order[j] => i = j
           /\ \A p \in c.prereqs[c.order[i]] :
                \E j \in DOMAIN c.order : j < i /\ c.order[j] = p
BY WorkspaceBuildAssumption DEF Config, Sorted

LEMMA TypeInit == Init => TypeOK /\ Place
BY WorkspaceBuildAssumption DEF Init, TypeOK, Place, PCs, Statuses, Made, Nothing, Ended

LEMMA FType ==
    ASSUME TypeOK, pos \in DOMAIN config.order PROVE F \in Frameworks
BY ConfigOrder DEF TypeOK, F

\* A marker directory stays one when F's marker comes or goes.
LEMMA MarkerType ==
    ASSUME TypeOK, F \in Frameworks, NEW m \in [RunIds -> SUBSET Frameworks]
    PROVE  Add(m) \in [RunIds -> SUBSET Frameworks] /\ Remove(m) \in [RunIds -> SUBSET Frameworks]
BY DEF TypeOK, Add, Remove

LEMMA TypeNext == TypeOK /\ Place /\ [Next]_vars => TypeOK' /\ Place'
<1> SUFFICES ASSUME TypeOK, Place, [Next]_vars PROVE TypeOK' /\ Place'
  OBVIOUS
<1>0. pos \in DOMAIN config.order =>
        /\ F \in Frameworks
        /\ \A how \in Made : [made EXCEPT ![F] = how] \in [Frameworks -> Made]
        /\ \A m \in [RunIds -> SUBSET Frameworks] :
             Add(m) \in [RunIds -> SUBSET Frameworks] /\ Remove(m) \in [RunIds -> SUBSET Frameworks]
  BY FType, MarkerType DEF TypeOK
<1> USE DEF Place, PCs, Statuses, Ended
<1>1. CASE Begin
  <2>1. made' \in [Frameworks -> Made] /\ runs' \in 0..MaxRuns
    BY <1>1, WorkspaceBuildAssumption DEF Begin, TypeOK, Made
  <2>2. used' \in SUBSET RunIds
    BY <1>1 DEF Begin, TypeOK
  <2> QED
    BY <1>1, <2>1, <2>2 DEF Begin, TypeOK, own, nested
<1>2. CASE Refuse \/ Required \/ LoopDone \/ Check
  BY <1>2 DEF Refuse, Required, LoopDone, Check, Exit, TypeOK, own, nested, setup
<1>3. CASE CannotBuild
  BY <1>0, <1>3 DEF CannotBuild, InLoop, StopOrRefresh, Exit, TypeOK, Made, own, nested, setup
<1>4. CASE Skip
  <2>0. F \in Frameworks /\ InLoop
    BY <1>0, <1>4 DEF Skip, InLoop
  <2>1. PICK p \in Whys :
            skipped' = [skipped EXCEPT ![run][F] =
                            IF skipped[run][p] # NoRoot THEN skipped[run][p] ELSE p]
    BY <1>4 DEF Skip
  <2>2. p \in Frameworks
    BY <2>0 DEF Whys, TypeOK
  <2>3. skipped' \in [RunIds -> [Frameworks -> Frameworks \cup {NoRoot}]]
    BY <2>0, <2>1, <2>2 DEF TypeOK
  <2> QED
    BY <1>0, <1>4, <2>3 DEF Skip, InLoop, StopOrRefresh, Exit, TypeOK, Made, nested, setup
<1>5. CASE Enter
  <2>1. skipped' \in [RunIds -> [Frameworks -> Frameworks \cup {NoRoot}]]
    BY <1>0, <1>5 DEF Enter, InLoop, TypeOK
  <2> QED
    BY <1>5, <2>1 DEF Enter, InLoop, TypeOK, nested, setup
<1>6. CASE Succeed
  BY <1>0, <1>6 DEF Succeed, TypeOK, Made, setup
<1>7. CASE Exclude
  BY <1>0, <1>7 DEF Exclude, TypeOK, Made, setup
<1>8. CASE Fail
  <2>1. /\ failed' \in [RunIds -> SUBSET Frameworks]
        /\ testsonly' \in [RunIds -> SUBSET Frameworks]
        /\ made' \in [Frameworks -> Made]
    BY <1>0, <1>8 DEF Fail, TypeOK, Made
  <2>2. /\ modFailed' \in [RunIds -> SUBSET Frameworks]
        /\ tstFailed' \in [RunIds -> SUBSET Frameworks]
    <3>1. PICK why \in Failures : ModuleMarkers(why)
      BY <1>8 DEF Fail
    <3>2. modFailed' \in {Add(modFailed), modFailed, Remove(modFailed)}
      BY <3>1 DEF ModuleMarkers, Failures
    <3>3. tstFailed' \in {Add(tstFailed), tstFailed, Remove(tstFailed)}
      BY <3>1 DEF ModuleMarkers, Failures
    <3> QED
      BY <1>0, <1>8, <3>2, <3>3 DEF Fail, TypeOK
  <2> QED
    BY <1>8, <2>1, <2>2 DEF Fail, StopOrRefresh, Exit, TypeOK, setup
<1>9. CASE Refresh
  <2>1. latest' \in [Frameworks -> Snapshot \cup {NoRun}]
    BY <1>0, <1>9 DEF Refresh, TypeOK, Snapshot
  <2> QED
    BY <1>9, <2>1 DEF Refresh, TypeOK, own, nested, setup
<1>10. CASE Kill
  <2>1. latest' \in [Frameworks -> Snapshot \cup {NoRun}]
    BY <1>0, <1>10 DEF Kill, TypeOK
  <2>2. modFailed' \in [RunIds -> SUBSET Frameworks] /\ tstFailed' \in [RunIds -> SUBSET Frameworks]
    BY <1>0, <1>10 DEF Kill, TypeOK
  <2> QED
    BY <1>10, <2>1, <2>2 DEF Kill, Exit, TypeOK, own, setup
<1>11. CASE UNCHANGED vars
  BY <1>11 DEF vars, TypeOK, own, nested, setup
<1> QED
  BY <1>1, <1>2, <1>3, <1>4, <1>5, <1>6, <1>7, <1>8, <1>9, <1>10, <1>11 DEF Next

\* Whatever the invocations and however they end, the state has its type.
THEOREM TypeCorrect == Spec => []TypeOK
<1>1. Init => TypeOK /\ Place
  BY TypeInit
<1>2. (TypeOK /\ Place) /\ [Next]_vars => (TypeOK /\ Place)'
  BY TypeNext
<1> QED
  BY <1>1, <1>2, PTL DEF Spec

-----------------------------------------------------------------------------
(* The inductive invariant.  Markers outlive the invocation that wrote     *)
(* them.  Of a framework this invocation is done with, some of them tell   *)
(* what it made of it (Settled); the others do when the RUN_ID is its own  *)
(* (Own), because then there were none of the frameworks to come (Clear).  *)

Settled(f) ==
    /\ made[f] # "none"
    /\ f \in failed[run] <=> made[f] \notin {"ok", "excluded"}
    /\ made[f] = "skipped" => skipped[run][f] # NoRoot
    /\ made[f] \in {"ok", "excluded", "tests", "failed"} => skipped[run][f] = NoRoot
    /\ made[f] = "tests" => f \in testsonly[run]
    /\ made[f] = "excluded" => f \in excluded[run]

Own(f) ==
    /\ f \in testsonly[run] <=> made[f] = "tests"
    /\ f \in excluded[run] <=> made[f] = "excluded"
    /\ skipped[run][f] # NoRoot <=> made[f] = "skipped"

\* No marker of f in run r.
Clear(r, f) ==
    /\ f \notin failed[r] /\ f \notin testsonly[r] /\ f \notin excluded[r]
    /\ f \notin tstFailed[r] /\ skipped[r][f] = NoRoot

\* What came of f is right, by what came of its PREREQS=.
Right(f) ==
    /\ made[f] = "skipped" => \E p \in config.prereqs[f] : made[p] \in Bad
    /\ Fresh =>
        /\ made[f] \in {"ok", "tests", "failed"} =>
             \A p \in config.prereqs[f] : made[p] \in {"ok", "tests"}
        /\ made[f] = "skipped" =>
             made[skipped[run][f]] \in {"failed", "cannot"} /\ Reaches(f, skipped[run][f])
        /\ made[f] = "cannot" => \E p \in config.prereqs[f] : made[p] = "excluded"

\* The places of the order the loop is done with.
Done == {i \in DOMAIN config.order : i < pos \/ (i = pos /\ pc = "refresh")}

Past == \A i \in Done :
            Settled(config.order[i]) /\ (Fresh => Own(config.order[i]))

Future ==
    /\ pc # "idle" => \A i \in DOMAIN config.order \ Done :
                        /\ made[config.order[i]] = "none"
                        /\ Fresh => Clear(run, config.order[i])
    /\ \A f \in Frameworks \ Present : made[f] = "none"

\* A RUN_ID that no invocation had has no markers.
Untouched ==
    \A r \in RunIds \ used : r # run \/ status = "none" => \A f \in Frameworks : Clear(r, f)

Making == pc = "making" => skipped[run][F] = NoRoot /\ Whys = {} /\ Excls = {}

Latest ==
    \A i \in DOMAIN config.order : i < pos =>
        LET f == config.order[i]
        IN latest[f] # NoRun /\ latest[f].run = run
             /\ (latest[f].failed <=> made[f] \notin {"ok", "excluded"})

AllRight == \A f \in Present : Right(f)

Rest == Past /\ Future /\ Untouched /\ Making /\ Latest /\ AllRight /\ ExitIsTrue
IInv == TypeOK /\ Place /\ Rest

\* Present and Done, unfolded.
LEMMA Domains ==
    ASSUME TypeOK
    PROVE  /\ \A i \in DOMAIN config.order :
                config.order[i] \in Frameworks \cap Present /\ i \in Nat \ {0}
           /\ \A i, j \in DOMAIN config.order : config.order[i] = config.order[j] => i = j
           /\ \A f \in Present : f \in Frameworks /\ \E i \in DOMAIN config.order : f = config.order[i]
           /\ config.prereqs \in [Frameworks -> SUBSET Frameworks]
           /\ NoRoot \notin Frameworks
<1>1. config \in Configs
  BY DEF TypeOK
<1> QED
  BY <1>1, ConfigOrder, WorkspaceBuildAssumption DEF Present, Config, Sorted

\* What the framework the loop is at needs has been dealt with.
LEMMA NeedsDone ==
    ASSUME TypeOK, pos \in DOMAIN config.order, Past, NEW p \in config.prereqs[F]
    PROVE  p \in Present /\ p # F /\ Settled(p) /\ (Fresh => Own(p))
<1>1. config \in Configs
  BY DEF TypeOK
<1>2. PICK j \in DOMAIN config.order : j < pos /\ config.order[j] = p
  BY <1>1, ConfigOrder DEF F
<1>3. j \in Done
  BY <1>2 DEF Done
<1>4. j # pos
  BY <1>2, Domains
<1> QED
  BY <1>2, <1>3, <1>4, Domains DEF Past, Present, F

LEMMA RestInit == Init => Rest
<1> SUFFICES ASSUME Init PROVE Rest
  OBVIOUS
<1>1. TypeOK /\ Place
  BY TypeInit
<1>2. \A i \in DOMAIN config.order : ~(i < pos)
  BY <1>1, Domains DEF Init
<1>3. \A f \in Frameworks : made[f] = "none"
  BY DEF Init
<1>4. Past /\ Future /\ Making /\ Latest /\ ExitIsTrue
  BY <1>2, <1>3, <1>1, Domains DEF Init, Past, Done, Future, Making, Latest, ExitIsTrue, Ended
<1>5. Untouched
  BY DEF Init, Untouched, Clear, Nothing
<1>6. AllRight
  BY <1>1, <1>3, Domains DEF AllRight, Right
<1> QED
  BY <1>4, <1>5, <1>6 DEF Rest

\* A new invocation starts from nothing done, and with markers only if its
\* RUN_ID was used before.
LEMMA RestBegin == IInv /\ Begin => Rest'
<1> SUFFICES ASSUME IInv, Begin PROVE Rest'
  OBVIOUS
<1>1. TypeOK /\ TypeOK'
  BY TypeNext DEF IInv, Next
<1>2. \A i \in DOMAIN config'.order :
        i \in Nat \ {0} /\ config'.order[i] \in Frameworks \cap Present'
  BY <1>1, ConfigOrder DEF TypeOK, Present
<1>3. \A i \in DOMAIN config'.order : ~(i < pos')
  BY <1>2 DEF Begin
<1>4. Done' = {}
  BY <1>3 DEF Begin, Done
<1>5. \A f \in Frameworks : made'[f] = "none"
  BY DEF Begin
<1>6. \A r, f : Clear(r, f)' <=> Clear(r, f)
  BY DEF Begin, Clear, own, nested
<1>7. \A r \in RunIds \ used' : \A f \in Frameworks : Clear(r, f)
  <2> SUFFICES ASSUME NEW r \in RunIds, r \notin used' PROVE \A f \in Frameworks : Clear(r, f)
    OBVIOUS
  <2>1. r \notin used /\ (r # run \/ status = "none")
    BY DEF Begin
  <2> QED
    BY <2>1 DEF IInv, Rest, Untouched
<1>8. Untouched'
  BY <1>6, <1>7 DEF Untouched
<1>9. Future'
  <2>1. ASSUME Fresh', NEW f \in Frameworks PROVE Clear(run, f)'
    <3>1. \A r \in RunIds \ used' : Clear(r, f)
      BY <1>7
    <3>2. run' \in RunIds \ used'
      BY <1>1, <2>1 DEF Fresh, TypeOK
    <3> QED
      BY <3>1, <3>2 DEF Clear, Begin, own, nested
  <2>2. \A f \in Frameworks \ Present' : made'[f] = "none"
    BY <1>5
  <2>3. \A i \in DOMAIN config'.order : made'[config'.order[i]] = "none"
    BY <1>2, <1>5
  <2>4. \A i \in DOMAIN config'.order : Fresh' => Clear(run, config.order[i])'
    BY <1>2, <2>1 DEF Clear
  <2> QED
    BY <2>2, <2>3, <2>4 DEF Future
<1>10. AllRight'
  <2> SUFFICES ASSUME NEW f \in Present' PROVE Right(f)'
    BY DEF AllRight
  <2>1. f \in Frameworks
    BY <1>2 DEF Present
  <2> QED
    BY <1>5, <2>1 DEF Right
<1> QED
  BY <1>3, <1>4, <1>8, <1>9, <1>10 DEF Begin, Rest, Past, Making, Latest, ExitIsTrue, Ended

\* The steps between frameworks write no marker.
LEMMA RestQuiet ==
    IInv /\ (Refuse \/ Required \/ LoopDone \/ UNCHANGED vars) => Rest'
<1> SUFFICES ASSUME IInv, Refuse \/ Required \/ LoopDone \/ UNCHANGED vars PROVE Rest'
  OBVIOUS
<1>1. UNCHANGED <<config, run, used, failed, skipped, testsonly, excluded, tstFailed, latest,
                  pos, made>>
  BY DEF Refuse, Required, LoopDone, vars, setup, own, nested
<1>2. /\ pc' \in {"idle", "loop", "check"} \/ pc' = pc
      /\ pc' # "idle" => pc # "idle"
      /\ pc = "refresh" <=> pc' = "refresh"
      /\ status' = "refused" \/ status' = status
      /\ status # "none" \/ status' = "none"
  BY DEF IInv, Place, Refuse, Required, LoopDone, vars, Exit
<1>3. Done' = Done /\ Present' = Present /\ F' = F /\ Whys' = Whys /\ Excls' = Excls
  BY <1>1, <1>2 DEF Done, Present, F, Whys, Excls
<1>4. \A r, f : (Clear(r, f)' <=> Clear(r, f)) /\ (Settled(f)' <=> Settled(f))
                /\ (Own(f)' <=> Own(f)) /\ (Right(f)' <=> Right(f))
  <2> SUFFICES ASSUME NEW r, NEW f
               PROVE  /\ Clear(r, f)' <=> Clear(r, f)
                      /\ Settled(f)' <=> Settled(f)
                      /\ Own(f)' <=> Own(f)
                      /\ Right(f)' <=> Right(f)
    OBVIOUS
  <2>1. (Clear(r, f)' <=> Clear(r, f)) /\ (Settled(f)' <=> Settled(f)) /\ (Own(f)' <=> Own(f))
    BY <1>1 DEF Clear, Settled, Own
  <2>2. Right(f)' <=> Right(f)
    BY <1>1 DEF Right, Fresh, Reaches
  <2> QED
    BY <2>1, <2>2
<1>5. Past' /\ AllRight'
  BY <1>1, <1>3, <1>4 DEF IInv, Rest, Past, AllRight, Fresh
<1>6. Future'
  BY <1>1, <1>2, <1>3, <1>4 DEF IInv, Rest, Future, Fresh, Clear
<1>7. Untouched'
  BY <1>1, <1>2, <1>4 DEF IInv, Rest, Untouched
<1>8. Making' /\ Latest'
  BY <1>1, <1>2, <1>3 DEF IInv, Rest, Making, Latest
<1>9. ExitIsTrue'
  BY <1>1, <1>2, <1>3 DEF IInv, Rest, ExitIsTrue, Ended
<1> QED
  BY <1>5, <1>6, <1>7, <1>8, <1>9 DEF Rest

-----------------------------------------------------------------------------
(* The steps about the framework the loop is at *)

\* f's markers of run r are as they were.
Same(r, f) ==
    /\ f \in failed'[r] <=> f \in failed[r]
    /\ f \in testsonly'[r] <=> f \in testsonly[r]
    /\ f \in excluded'[r] <=> f \in excluded[r]
    /\ f \in tstFailed'[r] <=> f \in tstFailed[r]
    /\ skipped'[r][f] = skipped[r][f]

\* Only F's markers of this run can have changed.
Frame == \A r \in RunIds, f \in Frameworks : r # run \/ f # F => Same(r, f)

LEMMA OthersKept ==
    ASSUME IInv, pos \in DOMAIN config.order, Frame, UNCHANGED <<config, run, used, pos>>,
           \A f \in Frameworks \ {F} : made'[f] = made[f]
    PROVE  /\ F \in Frameworks \cap Present /\ F' = F /\ Present' = Present
           /\ \A f \in Frameworks \ {F} :
                /\ Settled(f)' <=> Settled(f)
                /\ Own(f)' <=> Own(f)
                /\ Clear(run, f)' <=> Clear(run, f)
           /\ \A i \in DOMAIN config.order : i # pos => config.order[i] \in Frameworks \ {F}
<1>1. F \in Frameworks \cap Present /\ F' = F /\ Present' = Present
  BY Domains DEF IInv, F, Present
<1>2. run \in RunIds
  BY DEF IInv, TypeOK
<1>3. ASSUME NEW f \in Frameworks \ {F}
      PROVE  /\ Settled(f)' <=> Settled(f)
             /\ Own(f)' <=> Own(f)
             /\ Clear(run, f)' <=> Clear(run, f)
  <2>1. Same(run, f)
    BY <1>2 DEF Frame
  <2> QED
    BY <2>1 DEF Same, Settled, Own, Clear
<1>4. \A i \in DOMAIN config.order : i # pos => config.order[i] \in Frameworks \ {F}
  BY Domains DEF IInv, F
<1> QED
  BY <1>1, <1>3, <1>4

LEMMA UntouchedKept ==
    ASSUME IInv, pc # "idle", Frame, UNCHANGED <<run, used>>, status' # "none"
    PROVE  Untouched'
<1> SUFFICES ASSUME NEW r \in RunIds \ used, r # run, NEW f \in Frameworks PROVE Clear(r, f)'
  BY DEF Untouched
<1>1. Clear(r, f)
  BY DEF IInv, Rest, Untouched
<1>2. Same(r, f)
  BY DEF Frame
<1> QED
  BY <1>1, <1>2 DEF Same, Clear

\* The loop comes to an end with F: how it did must be right, and its markers
\* must say so.
LEMMA Decides ==
    ASSUME IInv, TypeOK', pc \in {"loop", "making"}, pos \in DOMAIN config.order,
           Frame, UNCHANGED <<config, run, used, latest, pos>>,
           NEW how \in Made, made' = [made EXCEPT ![F] = how],
           pc' = "refresh" \/ pc' = "idle", status' \in {"building", "failfast"},
           Settled(F)', Fresh => Own(F)', Right(F)'
    PROVE  Rest'
<1>1. TypeOK /\ F \in Frameworks /\ made'[F] = how
      /\ \A f \in Frameworks \ {F} : made'[f] = made[f]
  BY FType DEF IInv, TypeOK
<1>2. /\ F \in Frameworks \cap Present /\ F' = F /\ Present' = Present
      /\ \A f \in Frameworks \ {F} :
            /\ Settled(f)' <=> Settled(f)
            /\ Own(f)' <=> Own(f)
            /\ Clear(run, f)' <=> Clear(run, f)
      /\ \A i \in DOMAIN config.order : i # pos => config.order[i] \in Frameworks \ {F}
  BY <1>1, OthersKept
<1>3. pos \notin Done /\ Done' \in {Done, Done \cup {pos}} /\ (pc' # "idle" => Done' = Done \cup {pos})
  BY <1>1 DEF Done, TypeOK
<1>4. made[F] = "none"
  BY <1>3 DEF IInv, Rest, Future, F
<1>5. Past'
  <2> SUFFICES ASSUME NEW i \in Done', i \in DOMAIN config.order
               PROVE  Settled(config.order[i])' /\ (Fresh => Own(config.order[i])')
    BY DEF Past, Fresh, Done
  <2>1. CASE i = pos
    <3>1. config.order[i] = F
      BY <2>1 DEF F
    <3> QED
      BY <1>2, <3>1
  <2>2. CASE i # pos
    <3>1. i \in Done /\ config.order[i] \in Frameworks \ {F}
      BY <1>2, <1>3, <2>2
    <3>2. Settled(config.order[i]) /\ (Fresh => Own(config.order[i]))
      BY <3>1 DEF IInv, Rest, Past
    <3> QED
      BY <1>2, <3>1, <3>2
  <2> QED
    BY <2>1, <2>2
<1>6. Future'
  <2>1. \A f \in Frameworks \ Present : made'[f] = "none"
    BY <1>1, <1>2 DEF IInv, Rest, Future
  <2>2. ASSUME pc' # "idle", NEW i \in DOMAIN config.order, i \notin Done'
        PROVE  made'[config.order[i]] = "none" /\ (Fresh => Clear(run, config.order[i])')
    <3>1. i \notin Done /\ i # pos /\ config.order[i] \in Frameworks \ {F}
      BY <1>2, <1>3, <2>2
    <3>2. made[config.order[i]] = "none" /\ (Fresh => Clear(run, config.order[i]))
      BY <3>1, <2>2 DEF IInv, Rest, Future
    <3> QED
      BY <1>1, <1>2, <3>1, <3>2
  <2> QED
    BY <1>2, <2>1, <2>2 DEF Future, Fresh
<1>7. Untouched'
  BY UntouchedKept
<1>8. Latest'
  <2> SUFFICES ASSUME NEW i \in DOMAIN config.order, i < pos
               PROVE  made'[config.order[i]] = made[config.order[i]]
    BY DEF IInv, Rest, Latest
  <2>1. i # pos
    BY <1>1, Domains DEF TypeOK
  <2> QED
    BY <1>1, <1>2, <2>1
<1>9. AllRight'
  <2> SUFFICES ASSUME NEW f \in Present PROVE Right(f)'
    BY <1>2 DEF AllRight
  <2>1. CASE f = F
    <3>1. f = F'
      BY <1>2, <2>1
    <3> QED
      BY <3>1 DEF Right, Reaches
  <2>2. CASE f # F
    <3>1. f \in Frameworks \ {F} /\ Right(f) /\ config.prereqs[f] \subseteq Frameworks
      BY <1>1, <2>2, Domains DEF IInv, Rest, AllRight
    <3>2. made'[f] = made[f] /\ skipped'[run][f] = skipped[run][f]
      BY <1>1, <3>1 DEF Frame, Same, TypeOK
    <3>3. \A p \in Frameworks : made[p] # "none" => made'[p] = made[p]
      BY <1>1, <1>4
    <3>4. made[f] = "skipped" /\ Fresh => skipped[run][f] \in Frameworks
      <4>1. skipped[run][f] \in Frameworks \cup {NoRoot}
        BY <1>1, <3>1 DEF TypeOK
      <4>2. PICK i \in DOMAIN config.order : f = config.order[i]
        BY <1>1, Domains
      <4>3. made[f] = "skipped" => i \in Done
        BY <4>2 DEF IInv, Rest, Future
      <4> QED
        BY <4>1, <4>2, <4>3 DEF IInv, Rest, Past, Settled
    <3>5. made[f] = "skipped" => \E p \in config.prereqs[f] : made'[p] \in Bad
      BY <3>1, <3>3 DEF Right, Bad
    <3>6. ASSUME Fresh
          PROVE  /\ made[f] \in {"ok", "tests", "failed"} =>
                      \A p \in config.prereqs[f] : made'[p] \in {"ok", "tests"}
                 /\ made[f] = "skipped" =>
                      made'[skipped[run][f]] \in {"failed", "cannot"} /\ Reaches(f, skipped[run][f])
                 /\ made[f] = "cannot" => \E p \in config.prereqs[f] : made'[p] = "excluded"
      BY <3>1, <3>3, <3>4, <3>6 DEF Right
    <3> QED
      BY <3>2, <3>5, <3>6 DEF Right, Fresh, Reaches
  <2> QED
    BY <2>1, <2>2
<1> QED
  BY <1>5, <1>6, <1>7, <1>8, <1>9 DEF Rest, Making, ExitIsTrue, Ended

LEMMA InOrder ==
    ASSUME IInv, InLoop \/ pc = "making"
    PROVE  /\ pos \in DOMAIN config.order /\ F \in Frameworks /\ made[F] = "none"
           /\ pc \in {"loop", "making"} /\ run \in RunIds /\ status = "building"
           /\ Fresh => Clear(run, F)
<1>1. pos \in DOMAIN config.order /\ pc \in {"loop", "making"} /\ status = "building"
  BY DEF IInv, Place, InLoop
<1>2. pos \notin Done
  BY <1>1 DEF IInv, TypeOK, Done
<1> QED
  BY <1>1, <1>2, FType DEF IInv, Rest, Future, F, TypeOK

LEMMA Stops ==
    ASSUME StopOrRefresh, status = "building"
    PROVE  (pc' = "refresh" \/ pc' = "idle") /\ status' \in {"building", "failfast"}
BY DEF StopOrRefresh, Exit

LEMMA RestCannotBuild == IInv /\ CannotBuild => Rest'
<1> SUFFICES ASSUME IInv, CannotBuild PROVE Rest'
  OBVIOUS
<1>1. TypeOK /\ TypeOK'
  BY TypeNext DEF IInv, Next
<1>2. /\ pos \in DOMAIN config.order /\ F \in Frameworks /\ made[F] = "none"
      /\ pc \in {"loop", "making"} /\ run \in RunIds /\ status = "building"
      /\ Fresh => Clear(run, F)
  BY InOrder DEF CannotBuild
<1>3. /\ UNCHANGED <<config, run, used, latest, pos, testsonly, excluded, tstFailed, skipped>>
      /\ failed' = Add(failed) /\ made' = [made EXCEPT ![F] = "cannot"] /\ F' = F
  BY DEF CannotBuild, setup, nested, F
<1>4. Frame
  BY <1>1, <1>2, <1>3 DEF Frame, Same, Add, TypeOK
<1>5. made'[F] = "cannot" /\ F \in failed'[run] /\ \A f \in Frameworks \ {F} : made'[f] = made[f]
  BY <1>1, <1>2, <1>3 DEF Add, TypeOK
<1>6. Settled(F)' /\ (Fresh => Own(F)')
  BY <1>2, <1>3, <1>5 DEF Settled, Own, Clear
<1>7. Right(F)'
  <2>1. PICK p \in config.prereqs[F] : p \in excluded[run]
    BY DEF CannotBuild, Excls
  <2>2. p \in Frameworks \ {F} /\ (Fresh => Own(p))
    BY <1>1, <1>2, <2>1, NeedsDone, Domains DEF IInv, Rest
  <2>3. Fresh => made'[p] = "excluded"
    BY <1>5, <2>1, <2>2 DEF Own
  <2> QED
    BY <1>3, <1>5, <2>1, <2>3 DEF Right, Fresh
<1>8. (pc' = "refresh" \/ pc' = "idle") /\ status' \in {"building", "failfast"}
  BY <1>2, Stops DEF CannotBuild
<1>9. "cannot" \in Made
  BY DEF Made
<1> QED
  BY <1>1, <1>2, <1>3, <1>4, <1>6, <1>7, <1>8, <1>9, Decides

\* A skip passes on a root cause that the skipped framework needs too.
LEMMA ReachesThrough ==
    ASSUME TypeOK, NEW f \in Frameworks, NEW p \in config.prereqs[f], NEW r
    PROVE  Reaches(f, p) /\ (Reaches(p, r) => Reaches(f, r))
<1>1. Reaches(f, p)
  BY DEF Reaches
<1>2. ASSUME Reaches(p, r) PROVE Reaches(f, r)
  <2> SUFFICES ASSUME NEW S \in SUBSET Frameworks, config.prereqs[f] \subseteq S,
                      \A x \in S : config.prereqs[x] \subseteq S
               PROVE  r \in S
    BY DEF Reaches
  <2>1. config.prereqs[p] \subseteq S
    OBVIOUS
  <2> QED
    BY <1>2, <2>1 DEF Reaches
<1> QED
  BY <1>1, <1>2

LEMMA RestSkip == IInv /\ Skip => Rest'
<1> SUFFICES ASSUME IInv, Skip PROVE Rest'
  OBVIOUS
<1>1. TypeOK /\ TypeOK'
  BY TypeNext DEF IInv, Next
<1>2. /\ pos \in DOMAIN config.order /\ F \in Frameworks /\ made[F] = "none"
      /\ pc \in {"loop", "making"} /\ run \in RunIds /\ status = "building"
      /\ Fresh => Clear(run, F)
  BY InOrder DEF Skip
<1>3. /\ UNCHANGED <<config, run, used, latest, pos, testsonly, excluded, tstFailed>>
      /\ failed' = Add(failed) /\ made' = [made EXCEPT ![F] = "skipped"] /\ F' = F
  BY DEF Skip, setup, nested, F
<1>4. PICK p \in Whys :
            skipped' = [skipped EXCEPT ![run][F] =
                            IF skipped[run][p] # NoRoot THEN skipped[run][p] ELSE p]
  BY DEF Skip
<1>5. p \in config.prereqs[F] /\ p \in failed[run] /\ p \notin testsonly[run]
  BY <1>4 DEF Whys
<1>6. p \in Frameworks \ {F} /\ p \in Present /\ Settled(p) /\ (Fresh => Own(p))
  BY <1>1, <1>2, <1>5, NeedsDone, Domains DEF IInv, Rest
<1>7. made[p] \in Bad
  BY <1>1, <1>5, <1>6 DEF Settled, TypeOK, Made, Bad
<1>8. /\ made'[F] = "skipped" /\ F \in failed'[run]
      /\ \A f \in Frameworks \ {F} : made'[f] = made[f]
      /\ skipped'[run][F] = IF skipped[run][p] # NoRoot THEN skipped[run][p] ELSE p
  BY <1>1, <1>2, <1>3, <1>4 DEF Add, TypeOK
<1>9. skipped'[run][F] # NoRoot
  BY <1>1, <1>6, <1>8, Domains
<1>10. Frame
  <2> SUFFICES ASSUME NEW r \in RunIds, NEW f \in Frameworks, r # run \/ f # F PROVE Same(r, f)
    BY DEF Frame
  <2>1. skipped'[r][f] = skipped[r][f]
    BY <1>1, <1>2, <1>4 DEF TypeOK
  <2> QED
    BY <1>1, <1>2, <1>3, <2>1 DEF Same, Add, TypeOK
<1>11. Settled(F)' /\ (Fresh => Own(F)')
  BY <1>2, <1>3, <1>8, <1>9 DEF Settled, Own, Clear
<1>12. ASSUME Fresh
       PROVE  made'[skipped'[run][F]] \in {"failed", "cannot"} /\ Reaches(F, skipped'[run][F])
  <2>1. CASE made[p] = "skipped"
    <3>1. skipped'[run][F] = skipped[run][p] /\ skipped[run][p] # NoRoot
      BY <1>8, <2>1, <1>6 DEF Settled
    <3>2. skipped[run][p] \in Frameworks
      BY <1>1, <1>2, <1>6, <3>1 DEF TypeOK
    <3>3. made[skipped[run][p]] \in {"failed", "cannot"} /\ Reaches(p, skipped[run][p])
      BY <1>6, <1>12, <2>1 DEF IInv, Rest, AllRight, Right
    <3>4. skipped[run][p] # F
      BY <1>2, <3>3
    <3> QED
      BY <1>1, <1>2, <1>5, <1>8, <3>1, <3>2, <3>3, <3>4, ReachesThrough
  <2>2. CASE made[p] # "skipped"
    <3>1. skipped'[run][F] = p
      BY <1>6, <1>8, <1>12, <2>2 DEF Own
    <3> QED
      BY <1>1, <1>2, <1>5, <1>6, <1>7, <1>8, <2>2, <3>1, ReachesThrough DEF Bad
  <2> QED
    BY <2>1, <2>2
<1>13. Right(F)'
  <2>1. \E q \in config.prereqs[F] : made'[q] \in Bad
    BY <1>5, <1>6, <1>7, <1>8
  <2> QED
    BY <1>3, <1>8, <1>12, <2>1 DEF Right, Fresh, Reaches
<1>14. (pc' = "refresh" \/ pc' = "idle") /\ status' \in {"building", "failfast"}
  BY <1>2, Stops DEF Skip
<1>15. "skipped" \in Made
  BY DEF Made
<1> QED
  BY <1>1, <1>2, <1>3, <1>10, <1>11, <1>13, <1>14, <1>15, Decides

LEMMA RestEnter == IInv /\ Enter => Rest'
<1> SUFFICES ASSUME IInv, Enter PROVE Rest'
  OBVIOUS
<1>1. TypeOK /\ TypeOK'
  BY TypeNext DEF IInv, Next
<1>2. /\ pos \in DOMAIN config.order /\ F \in Frameworks /\ made[F] = "none"
      /\ run \in RunIds /\ status = "building" /\ (Fresh => Clear(run, F))
  BY InOrder DEF Enter
<1>3. /\ UNCHANGED <<config, run, used, latest, pos, made, status, failed, testsonly, excluded,
                      tstFailed>>
      /\ skipped' = [skipped EXCEPT ![run][F] = NoRoot] /\ pc = "loop" /\ pc' = "making"
  BY DEF Enter, setup, nested, InLoop
<1>4. skipped'[run][F] = NoRoot
  BY <1>1, <1>2, <1>3 DEF TypeOK
<1>5. Frame
  BY <1>1, <1>2, <1>3 DEF Frame, Same, TypeOK
<1>6. /\ F \in Frameworks \cap Present /\ F' = F /\ Present' = Present
      /\ \A f \in Frameworks \ {F} :
            /\ Settled(f)' <=> Settled(f)
            /\ Own(f)' <=> Own(f)
            /\ Clear(run, f)' <=> Clear(run, f)
      /\ \A i \in DOMAIN config.order : i # pos => config.order[i] \in Frameworks \ {F}
  BY <1>1, <1>2, <1>3, <1>5, OthersKept
<1>7. Done' = Done /\ pos \notin Done
  BY <1>1, <1>3 DEF Done, TypeOK
<1>8. Past'
  <2> SUFFICES ASSUME NEW i \in Done
               PROVE  Settled(config.order[i])' /\ (Fresh => Own(config.order[i])')
    BY <1>3, <1>7 DEF Past, Fresh
  <2>1. config.order[i] \in Frameworks \ {F}
    BY <1>6, <1>7 DEF Done
  <2> QED
    BY <1>3, <1>6, <2>1 DEF IInv, Rest, Past
<1>9. Future'
  <2>1. Fresh => Clear(run, F)'
    BY <1>2, <1>3, <1>4, <1>6 DEF Clear
  <2>2. ASSUME NEW i \in DOMAIN config.order, i \notin Done
        PROVE  made[config.order[i]] = "none" /\ (Fresh => Clear(run, config.order[i])')
    <3>1. made[config.order[i]] = "none" /\ (Fresh => Clear(run, config.order[i]))
      BY <1>3, <2>2 DEF IInv, Rest, Future
    <3>2. CASE i = pos
      <4>1. config.order[i] = F'
        BY <1>6, <3>2 DEF F
      <4> QED
        BY <1>3, <2>1, <3>1, <4>1 DEF Clear
    <3>3. CASE i # pos
      BY <1>3, <1>6, <3>1, <3>3
    <3> QED
      BY <3>2, <3>3
  <2>3. \A f \in Frameworks \ Present : made[f] = "none"
    BY DEF IInv, Rest, Future
  <2> QED
    BY <1>3, <1>6, <1>7, <2>2, <2>3 DEF Future, Fresh
<1>10. Untouched'
  BY <1>2, <1>3, <1>5, UntouchedKept
<1>11. Making' /\ Latest'
  BY <1>3, <1>4, <1>6 DEF IInv, Rest, Making, Latest, Enter, Whys, Excls
<1>12. AllRight'
  <2> SUFFICES ASSUME NEW f \in Present PROVE Right(f)'
    BY <1>6 DEF AllRight
  <2>1. f \in Frameworks /\ Right(f)
    BY <1>1, Domains DEF IInv, Rest, AllRight
  <2>2. f = F => made[f] = "none"
    BY <1>2
  <2>3. f # F => skipped'[run][f] = skipped[run][f]
    BY <1>2, <1>5, <2>1 DEF Frame, Same
  <2> QED
    BY <1>3, <2>1, <2>2, <2>3 DEF Right, Fresh, Reaches
<1> QED
  BY <1>2, <1>3, <1>8, <1>9, <1>10, <1>11, <1>12 DEF Rest, ExitIsTrue, Ended

\* What was made had all it needs.
LEMMA HadItsNeeds ==
    ASSUME IInv, pc = "making", F \notin config.excludes, Fresh, NEW p \in config.prereqs[F]
    PROVE  made[p] \in {"ok", "tests"} /\ p \in Frameworks \ {F}
<1>1. pos \in DOMAIN config.order /\ F \in Frameworks /\ TypeOK
  BY InOrder DEF IInv
<1>2. p \in Frameworks \ {F} /\ Settled(p) /\ Own(p)
  BY <1>1, NeedsDone, Domains DEF IInv, Rest
<1>3. ~(p \in failed[run] \ testsonly[run]) /\ p \notin excluded[run]
  BY DEF IInv, Rest, Making, Whys, Excls
<1> QED
  BY <1>1, <1>2, <1>3 DEF Settled, Own, TypeOK, Made

LEMMA MakingIs ==
    ASSUME IInv, pc = "making"
    PROVE  /\ pos \in DOMAIN config.order /\ F \in Frameworks /\ made[F] = "none"
           /\ run \in RunIds /\ status = "building" /\ (Fresh => Clear(run, F))
           /\ skipped[run][F] = NoRoot
BY InOrder DEF IInv, Rest, Making

LEMMA RestSucceed == IInv /\ Succeed => Rest'
<1> SUFFICES ASSUME IInv, Succeed PROVE Rest'
  OBVIOUS
<1>1. TypeOK /\ TypeOK'
  BY TypeNext DEF IInv, Next
<1>2. /\ pos \in DOMAIN config.order /\ F \in Frameworks /\ made[F] = "none"
      /\ run \in RunIds /\ status = "building" /\ (Fresh => Clear(run, F))
      /\ skipped[run][F] = NoRoot
  BY MakingIs DEF Succeed
<1>3. /\ UNCHANGED <<config, run, used, latest, pos, status, testsonly, excluded, skipped>>
      /\ failed' = Remove(failed) /\ tstFailed' = Remove(tstFailed)
      /\ made' = [made EXCEPT ![F] = "ok"] /\ F' = F /\ pc = "making" /\ pc' = "refresh"
  BY DEF Succeed, setup, F
<1>4. Frame
  BY <1>1, <1>2, <1>3 DEF Frame, Same, Remove, TypeOK
<1>5. made'[F] = "ok" /\ F \notin failed'[run] /\ \A f \in Frameworks \ {F} : made'[f] = made[f]
  BY <1>1, <1>2, <1>3 DEF Remove, TypeOK
<1>6. Settled(F)' /\ (Fresh => Own(F)')
  BY <1>2, <1>3, <1>5 DEF Settled, Own, Clear
<1>7. Right(F)'
  <2>1. Fresh => \A p \in config.prereqs[F] : made'[p] \in {"ok", "tests"}
    BY <1>5, HadItsNeeds DEF Succeed
  <2> QED
    BY <1>3, <1>5, <2>1 DEF Right, Fresh
<1>8. "ok" \in Made
  BY DEF Made
<1> QED
  BY <1>1, <1>2, <1>3, <1>4, <1>6, <1>7, <1>8, Decides

LEMMA RestExclude == IInv /\ Exclude => Rest'
<1> SUFFICES ASSUME IInv, Exclude PROVE Rest'
  OBVIOUS
<1>1. TypeOK /\ TypeOK'
  BY TypeNext DEF IInv, Next
<1>2. /\ pos \in DOMAIN config.order /\ F \in Frameworks /\ made[F] = "none"
      /\ run \in RunIds /\ status = "building" /\ (Fresh => Clear(run, F))
      /\ skipped[run][F] = NoRoot
  BY MakingIs DEF Exclude
<1>3. /\ UNCHANGED <<config, run, used, latest, pos, status, testsonly, tstFailed, skipped>>
      /\ failed' = Remove(failed) /\ excluded' = Add(excluded)
      /\ made' = [made EXCEPT ![F] = "excluded"] /\ F' = F /\ pc = "making" /\ pc' = "refresh"
  BY DEF Exclude, setup, F
<1>4. Frame
  BY <1>1, <1>2, <1>3 DEF Frame, Same, Remove, Add, TypeOK
<1>5. made'[F] = "excluded" /\ F \notin failed'[run] /\ F \in excluded'[run]
  BY <1>1, <1>2, <1>3 DEF Remove, Add, TypeOK
<1>6. Settled(F)' /\ (Fresh => Own(F)')
  BY <1>2, <1>3, <1>5 DEF Settled, Own, Clear
<1>7. Right(F)'
  BY <1>3, <1>5 DEF Right
<1>8. "excluded" \in Made
  BY DEF Made
<1> QED
  BY <1>1, <1>2, <1>3, <1>4, <1>6, <1>7, <1>8, Decides

LEMMA RestFail == IInv /\ Fail => Rest'
<1> SUFFICES ASSUME IInv, Fail PROVE Rest'
  OBVIOUS
<1>1. TypeOK /\ TypeOK'
  BY TypeNext DEF IInv, Next
<1>2. /\ pos \in DOMAIN config.order /\ F \in Frameworks /\ made[F] = "none"
      /\ run \in RunIds /\ status = "building" /\ (Fresh => Clear(run, F))
      /\ skipped[run][F] = NoRoot
  BY MakingIs DEF Fail
<1>3. /\ UNCHANGED <<config, run, used, latest, pos, excluded, skipped>>
      /\ failed' = Add(failed) /\ F' = F /\ pc = "making"
  BY DEF Fail, setup, F
<1>4. PICK why \in Failures, copied \in BOOLEAN :
        LET only == F \in tstFailed'[run] /\ F \notin modFailed'[run] /\ copied
        IN /\ ModuleMarkers(why)
           /\ testsonly' = IF only THEN Add(testsonly) ELSE Remove(testsonly)
           /\ made' = [made EXCEPT ![F] = IF why = "tests" /\ only THEN "tests" ELSE "failed"]
  BY DEF Fail
<1> DEFINE only == F \in tstFailed'[run] /\ F \notin modFailed'[run] /\ copied
           how == IF why = "tests" /\ only THEN "tests" ELSE "failed"
<1>5. tstFailed' \in {Add(tstFailed), tstFailed, Remove(tstFailed)}
  BY <1>4 DEF ModuleMarkers, Failures
<1>6. Frame
  <2> SUFFICES ASSUME NEW r \in RunIds, NEW f \in Frameworks, r # run \/ f # F PROVE Same(r, f)
    BY DEF Frame
  <2>1. f \in testsonly'[r] <=> f \in testsonly[r]
    BY <1>1, <1>2, <1>4 DEF Add, Remove, TypeOK
  <2>2. f \in tstFailed'[r] <=> f \in tstFailed[r]
    BY <1>1, <1>2, <1>5 DEF Add, Remove, TypeOK
  <2>3. f \in failed'[r] <=> f \in failed[r]
    BY <1>1, <1>2, <1>3 DEF Add, TypeOK
  <2> QED
    BY <1>3, <2>1, <2>2, <2>3 DEF Same
<1>7. /\ made'[F] = how /\ how \in {"tests", "failed"} /\ F \in failed'[run]
      /\ \A f \in Frameworks \ {F} : made'[f] = made[f]
  BY <1>1, <1>2, <1>3, <1>4 DEF Add, TypeOK
<1>8. F \in testsonly'[run] <=> only
  <2>1. CASE only
    <3>1. testsonly' = Add(testsonly)
      BY <1>4, <2>1
    <3> QED
      BY <1>1, <1>2, <2>1, <3>1 DEF Add, TypeOK
  <2>2. CASE ~only
    <3>1. testsonly' = Remove(testsonly)
      BY <1>4, <2>2
    <3> QED
      BY <1>1, <1>2, <2>2, <3>1 DEF Remove, TypeOK
  <2> QED
    BY <2>1, <2>2
\* With markers of its own only, a framework seems to have failed in its tests
\* only when it has.
<1>9. Fresh /\ only => why = "tests"
  <2> SUFFICES ASSUME Fresh, only, why # "tests" PROVE FALSE
    OBVIOUS
  <2>1. F \notin tstFailed[run]
    BY <1>2 DEF Clear
  <2>2. CASE why = "modules"
    <3>1. modFailed' = Add(modFailed)
      BY <1>4, <2>2 DEF ModuleMarkers
    <3> QED
      BY <1>1, <1>2, <3>1 DEF Add, TypeOK
  <2>3. CASE why = "early"
    <3>1. tstFailed' = tstFailed
      BY <1>4, <2>3 DEF ModuleMarkers
    <3> QED
      BY <2>1, <3>1
  <2>4. CASE why = "late"
    <3>1. tstFailed' = Remove(tstFailed)
      BY <1>4, <2>4 DEF ModuleMarkers
    <3> QED
      BY <1>1, <1>2, <3>1 DEF Remove, TypeOK
  <2> QED
    BY <2>2, <2>3, <2>4 DEF Failures
<1>10. Settled(F)'
  BY <1>2, <1>3, <1>7, <1>8 DEF Settled
<1>11. Fresh => Own(F)'
  BY <1>2, <1>3, <1>7, <1>8, <1>9 DEF Own, Clear
<1>12. Right(F)'
  <2>1. Fresh => \A p \in config.prereqs[F] : made'[p] \in {"ok", "tests"}
    BY <1>7, HadItsNeeds DEF Fail
  <2> QED
    BY <1>3, <1>7, <2>1 DEF Right, Fresh
<1>13. (pc' = "refresh" \/ pc' = "idle") /\ status' \in {"building", "failfast"}
  BY <1>2, Stops DEF Fail
<1>14. how \in Made /\ made' = [made EXCEPT ![F] = how]
  BY <1>4, <1>7 DEF Made
<1> QED
  BY <1>1, <1>2, <1>3, <1>6, <1>10, <1>11, <1>12, <1>13, <1>14, Decides

LEMMA RestRefresh == IInv /\ Refresh => Rest'
<1> SUFFICES ASSUME IInv, Refresh PROVE Rest'
  OBVIOUS
<1>1. TypeOK /\ pos \in DOMAIN config.order /\ F \in Frameworks /\ pos \in Done /\ Settled(F)
  BY FType DEF IInv, Place, Rest, Past, Done, Refresh, F
<1>2. /\ UNCHANGED <<config, run, used, failed, skipped, testsonly, excluded, tstFailed, made, status>>
      /\ pc = "refresh" /\ pc' = "loop" /\ pos' = pos + 1
      /\ latest' = [latest EXCEPT ![F] =
                        [run |-> run, failed |-> F \in failed[run], root |-> skipped[run][F]]]
  BY DEF Refresh, setup, own, nested
<1>3. \A i \in DOMAIN config.order : i < pos + 1 <=> i < pos \/ i = pos
  <2>1. \A i \in DOMAIN config.order : i \in Nat
    BY <1>1, Domains
  <2>2. pos \in Nat
    BY <1>1 DEF TypeOK
  <2> QED
    BY <2>1, <2>2
<1>4. Done' = Done /\ Present' = Present
  BY <1>2, <1>3 DEF Done, Present
<1>5. \A r, f : (Clear(r, f)' <=> Clear(r, f)) /\ (Settled(f)' <=> Settled(f))
                /\ (Own(f)' <=> Own(f)) /\ (Right(f)' <=> Right(f))
  <2> SUFFICES ASSUME NEW r, NEW f
               PROVE  /\ Clear(r, f)' <=> Clear(r, f)
                      /\ Settled(f)' <=> Settled(f)
                      /\ Own(f)' <=> Own(f)
                      /\ Right(f)' <=> Right(f)
    OBVIOUS
  <2>1. (Clear(r, f)' <=> Clear(r, f)) /\ (Settled(f)' <=> Settled(f)) /\ (Own(f)' <=> Own(f))
    BY <1>2 DEF Clear, Settled, Own
  <2>2. Right(f)' <=> Right(f)
    BY <1>2 DEF Right, Fresh, Reaches
  <2> QED
    BY <2>1, <2>2
<1>6. Past' /\ AllRight'
  BY <1>2, <1>4, <1>5 DEF IInv, Rest, Past, AllRight, Fresh
<1>7. Future'
  BY <1>2, <1>4, <1>5 DEF IInv, Rest, Future, Fresh, Clear
<1>8. Untouched'
  BY <1>2, <1>5 DEF IInv, Rest, Untouched
<1>9. Latest'
  <2> SUFFICES ASSUME NEW i \in DOMAIN config.order, i < pos + 1
               PROVE  LET f == config.order[i]
                      IN latest'[f] # NoRun /\ latest'[f].run = run
                           /\ (latest'[f].failed <=> made[f] \notin {"ok", "excluded"})
    BY <1>2 DEF Latest
  <2>1. CASE i = pos
    <3>1. config.order[i] = F
      BY <2>1 DEF F
    <3>2. latest'[F] = [run |-> run, failed |-> F \in failed[run], root |-> skipped[run][F]]
      BY <1>1, <1>2 DEF TypeOK
    <3>3. latest'[F] \in Snapshot
      BY <1>1, <3>2 DEF TypeOK, Snapshot
    <3>4. latest'[F] # NoRun
      BY <3>3, WorkspaceBuildAssumption, Zenon
    <3>5. F \in failed[run] <=> made[F] \notin {"ok", "excluded"}
      BY <1>1 DEF Settled
    <3>6. latest'[F].run = run
      BY <3>2
    <3>7. latest'[F].failed <=> F \in failed[run]
      <4>1. latest'[F].failed = (F \in failed[run])
        BY <3>2
      <4> QED
        BY <4>1
    <3> QED
      BY <3>1, <3>4, <3>5, <3>6, <3>7
  <2>2. CASE i < pos
    <3>1. config.order[i] # F /\ config.order[i] \in Frameworks
      BY <1>1, <2>2, Domains DEF TypeOK, F
    <3>2. latest'[config.order[i]] = latest[config.order[i]]
      BY <1>1, <1>2, <3>1 DEF TypeOK
    <3> QED
      BY <2>2, <3>2 DEF IInv, Rest, Latest
  <2> QED
    BY <1>3, <2>1, <2>2
<1> QED
  BY <1>2, <1>6, <1>7, <1>8, <1>9 DEF Rest, Making, ExitIsTrue, Ended, IInv, Place

\* At the end of the loop every framework has been dealt with.
LEMMA AllDone ==
    ASSUME IInv, pos \notin DOMAIN config.order, NEW f \in Present
    PROVE  Settled(f) /\ \E i \in DOMAIN config.order : f = config.order[i] /\ i < pos
<1>1. TypeOK
  BY DEF IInv
<1>2. config.order \in Seq(Frameworks) /\ pos \in Nat \ {0}
  BY <1>1, WorkspaceBuildAssumption DEF TypeOK, Config
<1>3. PICK i \in DOMAIN config.order : f = config.order[i]
  BY DEF Present
<1>4. i < pos
  BY <1>2, <1>3
<1> QED
  BY <1>3, <1>4 DEF IInv, Rest, Past, Done

\* The end of the loop and a kill write no marker the loop goes by.
LEMMA RestStops ==
    ASSUME IInv, pc # "idle", pc' = "idle", status' # "none", Frame, ExitIsTrue',
           UNCHANGED <<config, run, used, failed, skipped, testsonly, excluded, pos, made>>,
           \A i \in DOMAIN config.order : i < pos => latest'[config.order[i]] = latest[config.order[i]]
    PROVE  Rest'
<1>1. Done' \subseteq Done /\ Present' = Present
  BY DEF Done, Present
<1>2. \A f : (Settled(f)' <=> Settled(f)) /\ (Own(f)' <=> Own(f)) /\ (Right(f)' <=> Right(f))
  <2> SUFFICES ASSUME NEW f
               PROVE  /\ Settled(f)' <=> Settled(f)
                      /\ Own(f)' <=> Own(f)
                      /\ Right(f)' <=> Right(f)
    OBVIOUS
  <2>1. (Settled(f)' <=> Settled(f)) /\ (Own(f)' <=> Own(f))
    BY DEF Settled, Own
  <2>2. Right(f)' <=> Right(f)
    BY DEF Right, Fresh, Reaches
  <2> QED
    BY <2>1, <2>2
<1>3. Past' /\ AllRight'
  BY <1>1, <1>2 DEF IInv, Rest, Past, AllRight, Fresh
<1>4. Future'
  BY <1>1 DEF IInv, Rest, Future
<1>5. Untouched'
  BY UntouchedKept
<1>6. Latest'
  BY DEF IInv, Rest, Latest
<1> QED
  BY <1>3, <1>4, <1>5, <1>6 DEF Rest, Making

LEMMA RestCheck == IInv /\ Check => Rest'
<1> SUFFICES ASSUME IInv, Check PROVE Rest'
  OBVIOUS
<1>1. pos \notin DOMAIN config.order /\ TypeOK
  BY DEF IInv, Place, Check
<1>2. \A f \in Present : Settled(f) /\ f \in Frameworks
  BY <1>1, AllDone, Domains
<1>3. /\ UNCHANGED <<config, run, used, failed, skipped, testsonly, excluded, tstFailed, latest,
                      pos, made>>
      /\ pc = "check" /\ pc' = "idle" /\ status' \in {"passed", "failed"} /\ Present' = Present
  BY DEF Check, Exit, setup, own, nested, Present
<1>4. ExitIsTrue'
  <2>1. \A f \in Present : (skipped[run][f] # NoRoot \/ f \in failed[run])
                              <=> made[f] \notin {"ok", "excluded"}
    BY <1>1, <1>2 DEF Settled, TypeOK, Made
  <2>2. (\E i \in DOMAIN config.order :
            skipped[run][config.order[i]] # NoRoot \/ config.order[i] \in failed[run])
          <=> ~\A f \in Present : made[f] \in {"ok", "excluded"}
    BY <2>1 DEF Present
  <2>3. status' = IF \E i \in DOMAIN config.order :
                        skipped[run][config.order[i]] # NoRoot \/ config.order[i] \in failed[run]
                  THEN "failed" ELSE "passed"
    BY DEF Check, Exit
  <2> QED
    BY <1>3, <2>2, <2>3 DEF ExitIsTrue
<1>5. Frame
  BY <1>3 DEF Frame, Same
<1> QED
  BY <1>3, <1>4, <1>5, RestStops

LEMMA RestKill == IInv /\ Kill => Rest'
<1> SUFFICES ASSUME IInv, Kill PROVE Rest'
  OBVIOUS
<1>1. /\ UNCHANGED <<config, run, used, failed, skipped, testsonly, excluded, pos, made>>
      /\ pc # "idle" /\ pc' = "idle" /\ status' = "killed" /\ TypeOK
  BY DEF IInv, Kill, Exit, setup, own
<1>2. Frame
  <2> SUFFICES ASSUME NEW r \in RunIds, NEW f \in Frameworks, r # run \/ f # F
               PROVE  f \in tstFailed'[r] <=> f \in tstFailed[r]
    BY <1>1 DEF Frame, Same
  <2>1. tstFailed' \in {tstFailed, Add(tstFailed), Remove(tstFailed)}
    BY DEF Kill
  <2> QED
    BY <1>1, <2>1 DEF Add, Remove, TypeOK
<1>3. ExitIsTrue'
  BY <1>1 DEF ExitIsTrue, Ended
<1>4. ASSUME NEW i \in DOMAIN config.order, i < pos
      PROVE  latest'[config.order[i]] = latest[config.order[i]]
  <2>1. pc = "refresh" => pos \in DOMAIN config.order
    BY DEF IInv, Place
  <2>2. i # pos
    BY <1>1, <1>4, Domains DEF TypeOK
  <2>3. pc = "refresh" => config.order[i] # F
    BY <1>1, <2>1, <2>2, Domains DEF F
  <2>4. config.order[i] \in Frameworks
    BY <1>1, <1>4, Domains
  <2> QED
    BY <1>1, <2>3, <2>4 DEF Kill, TypeOK
<1> QED
  BY <1>1, <1>2, <1>3, <1>4, RestStops

LEMMA IInvNext == IInv /\ [Next]_vars => IInv'
<1> SUFFICES ASSUME IInv, [Next]_vars PROVE IInv'
  OBVIOUS
<1>1. TypeOK' /\ Place'
  BY TypeNext DEF IInv
<1>2. Rest'
  BY RestBegin, RestQuiet, RestCannotBuild, RestSkip, RestEnter, RestSucceed, RestExclude,
     RestFail, RestRefresh, RestCheck, RestKill
     DEF Next
<1> QED
  BY <1>1, <1>2 DEF IInv

LEMMA Invariant == Spec => []IInv
<1>1. Init => IInv
  BY TypeInit, RestInit DEF IInv
<1> QED
  BY <1>1, IInvNext, PTL DEF Spec

-----------------------------------------------------------------------------
(* What follows from it *)

\* With a RUN_ID of its own, what is built has all it needs.
THEOREM PrereqsAlwaysHold == Spec => []PrereqsHold
<1>1. IInv => PrereqsHold
  BY DEF IInv, Rest, AllRight, Right, PrereqsHold, Bad
<1> QED
  BY <1>1, Invariant, PTL

\* A framework is skipped only for one it needs that went wrong in this very
\* invocation, whatever markers of the RUN_ID were left.
THEOREM SkippedAlwaysForReason == Spec => []SkippedForReason
<1>1. IInv => SkippedForReason
  BY DEF IInv, Rest, AllRight, Right, SkippedForReason
<1> QED
  BY <1>1, Invariant, PTL

\* With a RUN_ID of its own, the cause a framework is put down to is real.
THEOREM CauseAlwaysReal == Spec => []CauseIsReal
<1>1. IInv => CauseIsReal
  BY DEF IInv, Rest, AllRight, Right, CauseIsReal
<1> QED
  BY <1>1, Invariant, PTL

\* The exit status read off the markers is what this invocation deserves,
\* also when the RUN_ID was used before.
THEOREM ExitAlwaysTrue == Spec => []ExitIsTrue
<1>1. IInv => ExitIsTrue
  BY DEF IInv, Rest
<1> QED
  BY <1>1, Invariant, PTL

\* A build that reaches its end leaves every framework's runs/latest at it.
THEOREM LatestAlwaysKept == Spec => []LatestKept
<1>1. IInv => LatestKept
  <2> SUFFICES ASSUME IInv, Ended, NEW f \in Present
               PROVE  /\ latest[f] # NoRun /\ latest[f].run = run
                      /\ (latest[f].failed <=> made[f] \notin {"ok", "excluded"})
    BY DEF LatestKept
  <2>1. pos \notin DOMAIN config.order
    BY DEF IInv, Place
  <2>2. PICK i \in DOMAIN config.order : f = config.order[i] /\ i < pos
    BY <2>1, AllDone
  <2> QED
    BY <2>2 DEF IInv, Rest, Latest
<1> QED
  BY <1>1, Invariant, PTL
=============================================================================
