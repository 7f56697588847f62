------------------------ MODULE FetchedImportProofs ------------------------
(***************************************************************************)
(* Proofs about FetchedImport, for any versions, distfiles, inputs,        *)
(* headers, keys and number of builds.                                     *)
(***************************************************************************)
EXTENDS FetchedImport, TLAPS

USE FetchedImportAssumption

-----------------------------------------------------------------------------
(* The inductive invariant.                                                *)

\* What each step finds, whatever the fingerprints say, where no command
\* failed unnoticed.
Place ==
    /\ pc = "extract" => dist[Dist[want]] = "right"
    /\ pc \in {"patch", "build", "make", "stage", "library"} /\ "tree" \notin slipped =>
         tree # Nothing
    /\ pc = "patch" /\ "tree" \notin slipped => tree.of = want /\ tree.made = "copied"
    /\ pc = "make" => kind = "source-build" /\ "prefix" \in unfinished
    /\ pc = "make" /\ "prefix" \notin slipped => prefix = Nothing
    /\ pc = "library" /\ key \notin slipped =>
         Source # Nothing /\ staged[key]["headers"] = Source

\* A finished tree is whole and of what its fingerprint says; and a build
\* that is past the extraction has the one it asks for.
TreeSound ==
    /\ "tree" \notin unfinished \cup slipped /\ tree # Nothing =>
         tree.made = "whole" /\ Inputs[tree.of] = extractFp
    /\ pc \in {"build", "make", "stage", "library"} /\ ~passed =>
         /\ "tree" \notin unfinished
         /\ "tree" \notin slipped => extractFp = Inputs[want]

\* The same of a finished prefix and .build-fp.
PrefixSound ==
    /\ "prefix" \notin unfinished \cup slipped /\ ~passed /\ buildFp \in BuildFps =>
         /\ prefix # Nothing
         /\ prefix.made = "whole" /\ prefix.tree.made = "whole"
         /\ Inputs[prefix.tree.of] = buildFp.inputs
         /\ prefix.key = buildFp.key
    /\ pc \in {"stage", "library"} /\ ~passed /\ kind = "source-build" =>
         /\ "prefix" \notin unfinished
         /\ slipped \cap {"tree", "prefix"} = {} => buildFp = BuildInputs

\* The two parts of a finished staging are of one build.
StageSound ==
    /\ \A k \in Keys :
         /\ k \notin unfinished \cup slipped
         /\ staged[k]["headers"] # Nothing /\ staged[k]["library"] # Nothing
         => staged[k]["headers"] = staged[k]["library"]
    /\ status = "done" => pc = "idle"

IInv ==
    /\ TypeOK /\ Place
    /\ OnlyVerified /\ TreeSound /\ PrefixSound /\ StageSound /\ StagedTogether

-----------------------------------------------------------------------------
(* Type correctness, with the place each step is taken at.                 *)

LEMMA SourceType ==
    ASSUME TypeOK
    PROVE  Source \in Product \cup {Nothing}
BY DEF TypeOK, Source, Product, Tree

LEMMA InstalledType ==
    ASSUME TypeOK, tree # Nothing, NEW m \in {"part", "whole"}
    PROVE  Installed(m) \in Product
<1>1. (IF prefix = Nothing THEN m ELSE "part") \in {"part", "whole"}
  OBVIOUS
<1>2. tree \in Tree /\ key \in Keys \cup {Nothing}
  BY DEF TypeOK
<1> QED
  BY <1>1, <1>2 DEF Installed, Product

LEMMA NewTreeType ==
    ASSUME TypeOK, NEW m \in {"part", "copied", "whole"}
    PROVE  NewTree(m) \in Tree
BY DEF TypeOK, NewTree, Tree

\* What a removal or a copy that fails leaves is a part of what there was, or
\* of what was to be copied.
LEMMA RemainsOfTree ==
    ASSUME TypeOK, NEW x \in Remains(tree)
    PROVE  tree # Nothing /\ x \in Tree /\ x.verified = tree.verified
BY DEF TypeOK, Remains, Tree

LEMMA RemainsOfPrefix ==
    ASSUME TypeOK, NEW x \in Remains(prefix)
    PROVE  prefix # Nothing /\ x \in Product /\ x.tree = prefix.tree
BY DEF TypeOK, Remains, Product

LEMMA SpoiltIs ==
    ASSUME TypeOK, NEW part \in Parts, NEW x \in Spoilt(part)
    PROVE  /\ x \in Product \cup {Nothing}
           /\ x = Nothing \/ x = staged[key][part] \/ (Source # Nothing /\ x.tree = Source.tree)
<1>1. staged[key][part] \in Product \cup {Nothing}
  BY DEF TypeOK
<1>2. CASE x \in Remains(Source)
  <2>1. Source \in Product
    BY <1>2, SourceType DEF Remains
  <2>2. x = [Source EXCEPT !.made = "part"] /\ Source # Nothing
    BY <1>2 DEF Remains
  <2> HIDE DEF Source
  <2>3. x \in Product /\ x.tree = Source.tree
    BY <2>1, <2>2 DEF Product
  <2> QED
    BY <2>2, <2>3
<1> QED
  BY <1>1, <1>2 DEF Spoilt

LEMMA TypeInit == Init => TypeOK
<1> SUFFICES ASSUME Init PROVE TypeOK
  OBVIOUS
<1>1. staged \in [Keys -> [Parts -> Product \cup {Nothing}]]
  BY DEF Init, Unstaged
<1>2. stageFp \in [Keys -> StageFps \cup {Nothing}]
  BY DEF Init
<1>3. dist \in [{Dist[v] : v \in Versions} -> Contents \cup {Nothing}]
  BY DEF Init
<1>4. builds \in 0..MaxBuilds /\ slips \in 0..MaxSlips
  BY DEF Init
<1> QED
  BY <1>1, <1>2, <1>3, <1>4 DEF Init, TypeOK, PCs, Steps

LEMMA TypeNext == TypeOK /\ Place /\ [Next]_vars => TypeOK'
<1> SUFFICES ASSUME TypeOK, Place, [Next]_vars PROVE TypeOK'
  OBVIOUS
<1> USE DEF TypeOK, Place, PCs, Contents, Exit, Goto, Fails, asked, work, stage, history, Slips, Steps
<1>1. CASE Begin
  BY <1>1 DEF Begin
<1>2. CASE PassFetch
  BY <1>2 DEF PassFetch
<1>3. CASE Have
  BY <1>3 DEF Have
<1>4. CASE Download
  BY <1>4 DEF Download
<1>5. CASE DownloadFails
  BY <1>5 DEF DownloadFails
<1>6. CASE Verify
  BY <1>6 DEF Verify
<1>7. CASE VerifyFails
  BY <1>7 DEF VerifyFails
<1>8. CASE ExtractFails
  <2>1. tree' \in Tree \cup {Nothing}
    BY <1>8, RemainsOfTree DEF ExtractFails
  <2>2. slipped' \in SUBSET Steps
    BY <1>8 DEF ExtractFails
  <2>3. unfinished' \in SUBSET Steps
    BY <1>8 DEF ExtractFails
  <2>4. slips' \in 0..MaxSlips
    BY <1>8 DEF ExtractFails
  <2> QED
    BY <1>8, <2>1, <2>2, <2>3, <2>4 DEF ExtractFails
<1>9. CASE Extract
  BY <1>9, NewTreeType DEF Extract
<1>10. CASE PatchFails
  BY <1>10 DEF PatchFails
<1>11. CASE Patch
  BY <1>11 DEF Patch, Tree, ExtractFps
<1>12. CASE PassBuild
  BY <1>12 DEF PassBuild
<1>13. CASE Wipe
  <2>1. prefix' \in Product \cup {Nothing}
    BY <1>13, RemainsOfPrefix DEF Wipe
  <2>2. slipped' \in SUBSET Steps
    BY <1>13 DEF Wipe
  <2>3. unfinished' \in SUBSET Steps
    BY <1>13 DEF Wipe
  <2>4. slips' \in 0..MaxSlips
    BY <1>13 DEF Wipe
  <2> QED
    BY <1>13, <2>1, <2>2, <2>3, <2>4 DEF Wipe
<1>14. CASE MakeFails
  BY <1>14, InstalledType DEF MakeFails
<1>15. CASE Make
  <2>1. prefix' \in Product \cup {Nothing}
    BY <1>15, InstalledType DEF Make
  <2>2. buildFp' \in BuildFps \cup {Nothing}
    BY <1>15 DEF Make, BuildInputs, BuildFps
  <2>3. slipped' \in SUBSET Steps /\ unfinished' \in SUBSET Steps
    BY <1>15 DEF Make
  <2>4. slips' \in 0..MaxSlips
    BY <1>15 DEF Make
  <2> QED
    BY <1>15, <2>1, <2>2, <2>3, <2>4 DEF Make
<1>16. CASE PassStage
  BY <1>16 DEF PassStage
<1>17. CASE StageFails
  BY <1>17 DEF StageFails
<1>18. CASE StageHeaders
  <2>1. staged' \in [Keys -> [Parts -> Product \cup {Nothing}]]
    BY <1>18, SourceType, SpoiltIs DEF StageHeaders, Parts
  <2>2. slipped' \in SUBSET Steps /\ unfinished' \in SUBSET Steps
    BY <1>18 DEF StageHeaders
  <2>3. slips' \in 0..MaxSlips
    BY <1>18 DEF StageHeaders
  <2> QED
    BY <1>18, <2>1, <2>2, <2>3 DEF StageHeaders
<1>19. CASE LibraryFails
  BY <1>19 DEF LibraryFails
<1>20. CASE StageLibrary
  <2>1. staged' \in [Keys -> [Parts -> Product \cup {Nothing}]]
    BY <1>20, SourceType DEF StageLibrary, Parts
  <2>2. stageFp' \in [Keys -> StageFps \cup {Nothing}]
    BY <1>20 DEF StageLibrary, StageFps
  <2> QED
    BY <1>20, <2>1, <2>2 DEF StageLibrary
<1>21. CASE Kill
  BY <1>21, InstalledType DEF Kill
<1>22. ASSUME NEW k \in Keys, Clean(k) PROVE TypeOK'
  BY <1>22 DEF Clean, Parts
<1>23. ASSUME NEW k \in Keys, Lose(k) PROVE TypeOK'
  BY <1>23 DEF Lose, Parts
<1>24. CASE UNCHANGED vars
  BY <1>24 DEF vars
<1>25. CASE CleanAll
  BY <1>25 DEF CleanAll, Parts
<1>27. CASE ExtractSlips
  BY <1>27, RemainsOfTree, NewTreeType DEF ExtractSlips
<1>28. CASE LibrarySlips
  <2>1. staged' \in [Keys -> [Parts -> Product \cup {Nothing}]]
    BY <1>28, SourceType, SpoiltIs DEF LibrarySlips, Parts
  <2>2. stageFp' \in [Keys -> StageFps \cup {Nothing}]
    BY <1>28 DEF LibrarySlips, StageFps
  <2>3. slipped' = slipped \cup {key} /\ unfinished' = unfinished \ {key}
    BY <1>28 DEF LibrarySlips
  <2>4. slipped' \in SUBSET Steps /\ unfinished' \in SUBSET Steps
    BY <2>3
  <2>5. slips' \in 0..MaxSlips
    BY <1>28 DEF LibrarySlips
  <2> QED
    BY <1>28, <2>1, <2>2, <2>4, <2>5 DEF LibrarySlips
<1>26. CASE KillRemoving
  BY <1>26, RemainsOfTree, RemainsOfPrefix DEF KillRemoving
<1> QED
  BY <1>1, <1>2, <1>3, <1>4, <1>5, <1>6, <1>7, <1>8, <1>9, <1>10, <1>11, <1>12, <1>13,
     <1>14, <1>15, <1>16, <1>17, <1>18, <1>19, <1>20, <1>21, <1>22, <1>23, <1>24, <1>25, <1>26, <1>27, <1>28 DEF Next

LEMMA PlaceNext == TypeOK /\ Place /\ [Next]_vars => Place'
<1> SUFFICES ASSUME TypeOK, Place, [Next]_vars PROVE Place'
  OBVIOUS
<1> USE DEF TypeOK, Place, PCs, Exit, Goto, Fails, asked, work, stage, history, Slips, Remains, Steps, NewTree, Spoilt, Source
<1>1. CASE Begin
  BY <1>1 DEF Begin
<1>2. CASE PassFetch
  BY <1>2 DEF PassFetch, Extracted
<1>3. CASE Have
  BY <1>3 DEF Have
<1>4. CASE Download
  BY <1>4 DEF Download
<1>5. CASE DownloadFails
  BY <1>5 DEF DownloadFails
<1>6. CASE Verify
  BY <1>6 DEF Verify
<1>7. CASE VerifyFails
  BY <1>7 DEF VerifyFails
<1>8. CASE ExtractFails
  BY <1>8 DEF ExtractFails
<1>9. CASE Extract
  <2>1. tree' \in Tree
    BY <1>9 DEF Extract, Tree
  <2>2. tree'.of = want
    BY <1>9 DEF Extract
  <2> QED
    BY <1>9, <2>1, <2>2 DEF Extract
<1>10. CASE PatchFails
  BY <1>10 DEF PatchFails
<1>11. CASE Patch
  BY <1>11 DEF Patch, Tree
<1>12. CASE PassBuild
  BY <1>12 DEF PassBuild
<1>13. CASE Wipe
  BY <1>13 DEF Wipe
<1>14. CASE MakeFails
  BY <1>14 DEF MakeFails
<1>15. CASE Make
  BY <1>15 DEF Make
<1>16. CASE PassStage
  BY <1>16 DEF PassStage
<1>17. CASE StageFails
  BY <1>17 DEF StageFails
<1>18. CASE StageHeaders
  BY <1>18 DEF StageHeaders, Parts
<1>19. CASE LibraryFails
  BY <1>19 DEF LibraryFails
<1>20. CASE StageLibrary
  BY <1>20 DEF StageLibrary
<1>21. CASE Kill
  BY <1>21 DEF Kill
<1>22. ASSUME NEW k \in Keys, Clean(k) PROVE Place'
  BY <1>22 DEF Clean
<1>23. ASSUME NEW k \in Keys, Lose(k) PROVE Place'
  BY <1>23 DEF Lose
<1>24. CASE UNCHANGED vars
  BY <1>24 DEF vars
<1>25. CASE CleanAll
  BY <1>25 DEF CleanAll
<1>27. CASE ExtractSlips
  BY <1>27 DEF ExtractSlips
<1>28. CASE LibrarySlips
  BY <1>28 DEF LibrarySlips
<1>26. CASE KillRemoving
  BY <1>26 DEF KillRemoving
<1> QED
  BY <1>1, <1>2, <1>3, <1>4, <1>5, <1>6, <1>7, <1>8, <1>9, <1>10, <1>11, <1>12, <1>13,
     <1>14, <1>15, <1>16, <1>17, <1>18, <1>19, <1>20, <1>21, <1>22, <1>23, <1>24, <1>25, <1>26, <1>27, <1>28 DEF Next

-----------------------------------------------------------------------------
(* Each part of the invariant is kept by every step.                       *)

LEMMA SourceVerified ==
    ASSUME TypeOK, OnlyVerified, Source # Nothing
    PROVE  Source.tree.verified
BY DEF TypeOK, Source, OnlyVerified

LEMMA VerifiedNext ==
    TypeOK /\ Place /\ OnlyVerified /\ [Next]_vars => OnlyVerified'
<1> SUFFICES ASSUME TypeOK, Place, OnlyVerified, [Next]_vars PROVE OnlyVerified'
  OBVIOUS
<1> USE DEF TypeOK, Place, OnlyVerified, Exit, Goto, Fails, asked, work, stage, history, Slips
<1>1. CASE Begin
  BY <1>1 DEF Begin
<1>2. CASE PassFetch
  BY <1>2 DEF PassFetch
<1>3. CASE Have
  BY <1>3 DEF Have
<1>4. CASE Download
  BY <1>4 DEF Download
<1>5. CASE DownloadFails
  BY <1>5 DEF DownloadFails
<1>6. CASE Verify
  BY <1>6 DEF Verify
<1>7. CASE VerifyFails
  BY <1>7 DEF VerifyFails
<1>8. CASE ExtractFails
  BY <1>8, RemainsOfTree DEF ExtractFails
<1>9. CASE Extract
  BY <1>9 DEF Extract, NewTree
<1>10. CASE PatchFails
  BY <1>10 DEF PatchFails
<1>11. CASE Patch
  BY <1>11 DEF Patch, Tree
<1>12. CASE PassBuild
  BY <1>12 DEF PassBuild
<1>13. CASE Wipe
  BY <1>13, RemainsOfPrefix DEF Wipe
<1>14. CASE MakeFails
  BY <1>14 DEF MakeFails, Installed
<1>15. CASE Make
  BY <1>15 DEF Make, Installed
<1>16. CASE PassStage
  BY <1>16 DEF PassStage
<1>17. CASE StageFails
  BY <1>17 DEF StageFails
<1>18. CASE StageHeaders
  BY <1>18, SourceVerified, SpoiltIs DEF StageHeaders, Parts
<1>19. CASE LibraryFails
  BY <1>19 DEF LibraryFails
<1>20. CASE StageLibrary
  BY <1>20, SourceVerified DEF StageLibrary, Parts
<1>21. CASE Kill
  BY <1>21 DEF Kill, Installed
<1>22. ASSUME NEW k \in Keys, Clean(k) PROVE OnlyVerified'
  BY <1>22 DEF Clean, Parts
<1>23. ASSUME NEW k \in Keys, Lose(k) PROVE OnlyVerified'
  BY <1>23 DEF Lose, Parts
<1>24. CASE UNCHANGED vars
  BY <1>24 DEF vars
<1>25. CASE CleanAll
  BY <1>25 DEF CleanAll, Parts
<1>27. CASE ExtractSlips
  <2>1. CASE tree' \in Remains(tree)
    BY <1>27, <2>1, RemainsOfTree DEF ExtractSlips
  <2>2. CASE tree' \in {Nothing, NewTree("part")}
    <3>1. NewTree("part").verified
      BY <1>27 DEF ExtractSlips, NewTree
    <3> QED
      BY <1>27, <2>2, <3>1 DEF ExtractSlips
  <2> QED
    BY <1>27, <2>1, <2>2 DEF ExtractSlips
<1>28. CASE LibrarySlips
  BY <1>28, SourceVerified, SpoiltIs DEF LibrarySlips, Parts
<1>26. CASE KillRemoving
  BY <1>26, RemainsOfTree, RemainsOfPrefix DEF KillRemoving
<1> QED
  BY <1>1, <1>2, <1>3, <1>4, <1>5, <1>6, <1>7, <1>8, <1>9, <1>10, <1>11, <1>12, <1>13,
     <1>14, <1>15, <1>16, <1>17, <1>18, <1>19, <1>20, <1>21, <1>22, <1>23, <1>24, <1>25, <1>26, <1>27, <1>28 DEF Next

LEMMA TreeNext ==
    TypeOK /\ Place /\ TreeSound /\ [Next]_vars => TreeSound'
<1> SUFFICES ASSUME TypeOK, Place, TreeSound, [Next]_vars PROVE TreeSound'
  OBVIOUS
<1> USE DEF TypeOK, Place, PCs, TreeSound, Exit, Goto, Fails, asked, work, stage, history, Slips, Remains, Steps, NewTree, Spoilt
<1>1. CASE Begin
  BY <1>1 DEF Begin
<1>2. CASE PassFetch
  BY <1>2 DEF PassFetch, Extracted
<1>3. CASE Have
  BY <1>3 DEF Have
<1>4. CASE Download
  BY <1>4 DEF Download
<1>5. CASE DownloadFails
  BY <1>5 DEF DownloadFails
<1>6. CASE Verify
  BY <1>6 DEF Verify
<1>7. CASE VerifyFails
  BY <1>7 DEF VerifyFails
<1>8. CASE ExtractFails
  BY <1>8 DEF ExtractFails
<1>9. CASE Extract
  BY <1>9 DEF Extract
<1>10. CASE PatchFails
  BY <1>10 DEF PatchFails
<1>11. CASE Patch
  BY <1>11 DEF Patch, Tree
<1>12. CASE PassBuild
  BY <1>12 DEF PassBuild
<1>13. CASE Wipe
  BY <1>13 DEF Wipe
<1>14. CASE MakeFails
  BY <1>14 DEF MakeFails
<1>15. CASE Make
  BY <1>15 DEF Make
<1>16. CASE PassStage
  BY <1>16 DEF PassStage
<1>17. CASE StageFails
  BY <1>17 DEF StageFails
<1>18. CASE StageHeaders
  BY <1>18 DEF StageHeaders
<1>19. CASE LibraryFails
  BY <1>19 DEF LibraryFails
<1>20. CASE StageLibrary
  BY <1>20 DEF StageLibrary
<1>21. CASE Kill
  BY <1>21 DEF Kill
<1>22. ASSUME NEW k \in Keys, Clean(k) PROVE TreeSound'
  BY <1>22 DEF Clean
<1>23. ASSUME NEW k \in Keys, Lose(k) PROVE TreeSound'
  BY <1>23 DEF Lose
<1>24. CASE UNCHANGED vars
  BY <1>24 DEF vars
<1>25. CASE CleanAll
  BY <1>25 DEF CleanAll
<1>27. CASE ExtractSlips
  BY <1>27 DEF ExtractSlips
<1>28. CASE LibrarySlips
  BY <1>28 DEF LibrarySlips
<1>26. CASE KillRemoving
  BY <1>26 DEF KillRemoving
<1> QED
  BY <1>1, <1>2, <1>3, <1>4, <1>5, <1>6, <1>7, <1>8, <1>9, <1>10, <1>11, <1>12, <1>13,
     <1>14, <1>15, <1>16, <1>17, <1>18, <1>19, <1>20, <1>21, <1>22, <1>23, <1>24, <1>25, <1>26, <1>27, <1>28 DEF Next

LEMMA PrefixNext ==
    TypeOK /\ Place /\ TreeSound /\ PrefixSound /\ [Next]_vars => PrefixSound'
<1> SUFFICES ASSUME TypeOK, Place, TreeSound, PrefixSound, [Next]_vars PROVE PrefixSound'
  OBVIOUS
<1> USE DEF TypeOK, Place, PCs, TreeSound, PrefixSound, BuildInputs, Exit, Goto, Fails, asked, work, stage, history, Slips, Remains, Steps, NewTree, Spoilt
<1>1. CASE Begin
  BY <1>1 DEF Begin
<1>2. CASE PassFetch
  BY <1>2 DEF PassFetch
<1>3. CASE Have
  BY <1>3 DEF Have
<1>4. CASE Download
  BY <1>4 DEF Download
<1>5. CASE DownloadFails
  BY <1>5 DEF DownloadFails
<1>6. CASE Verify
  BY <1>6 DEF Verify
<1>7. CASE VerifyFails
  BY <1>7 DEF VerifyFails
<1>8. CASE ExtractFails
  BY <1>8 DEF ExtractFails
<1>9. CASE Extract
  BY <1>9 DEF Extract
<1>10. CASE PatchFails
  BY <1>10 DEF PatchFails
<1>11. CASE Patch
  BY <1>11 DEF Patch
<1>12. CASE PassBuild
  BY <1>12 DEF PassBuild
<1>13. CASE Wipe
  BY <1>13 DEF Wipe
<1>14. CASE MakeFails
  BY <1>14 DEF MakeFails, Installed
<1>15. CASE Make
  <2> SUFFICES ASSUME "prefix" \notin slipped', ~passed
               PROVE  /\ prefix' # Nothing
                      /\ prefix'.made = "whole" /\ prefix'.tree.made = "whole"
                      /\ Inputs[prefix'.tree.of] = buildFp'.inputs
                      /\ prefix'.key = buildFp'.key
                      /\ buildFp' = BuildInputs'
    BY <1>15 DEF Make
  <2>1. "tree" \notin slipped /\ "prefix" \notin slipped /\ buildFp' = BuildInputs
    BY <1>15 DEF Make
  <2>2. prefix = Nothing /\ tree # Nothing
    BY <1>15, <2>1 DEF Make
  <2>3. prefix' # Nothing
    BY <1>15, InstalledType DEF Make
  <2>4. prefix' = [tree |-> tree, key |-> key, made |-> "whole"]
    BY <1>15, <2>2 DEF Make, Installed
  <2>5. buildFp'.inputs = extractFp /\ buildFp'.key = key /\ buildFp' = BuildInputs'
    BY <1>15, <2>1 DEF Make
  <2>6. tree.made = "whole" /\ Inputs[tree.of] = extractFp
    BY <1>15, <2>1, <2>2 DEF Make
  <2> QED
    BY <2>3, <2>4, <2>5, <2>6
<1>16. CASE PassStage
  BY <1>16 DEF PassStage
<1>17. CASE StageFails
  BY <1>17 DEF StageFails
<1>18. CASE StageHeaders
  BY <1>18 DEF StageHeaders
<1>19. CASE LibraryFails
  BY <1>19 DEF LibraryFails
<1>20. CASE StageLibrary
  BY <1>20 DEF StageLibrary
<1>21. CASE Kill
  BY <1>21 DEF Kill, Installed
<1>22. ASSUME NEW k \in Keys, Clean(k) PROVE PrefixSound'
  BY <1>22 DEF Clean
<1>23. ASSUME NEW k \in Keys, Lose(k) PROVE PrefixSound'
  BY <1>23 DEF Lose
<1>24. CASE UNCHANGED vars
  BY <1>24 DEF vars
<1>25. CASE CleanAll
  BY <1>25 DEF CleanAll
<1>27. CASE ExtractSlips
  BY <1>27 DEF ExtractSlips
<1>28. CASE LibrarySlips
  BY <1>28 DEF LibrarySlips
<1>26. CASE KillRemoving
  BY <1>26 DEF KillRemoving
<1> QED
  BY <1>1, <1>2, <1>3, <1>4, <1>5, <1>6, <1>7, <1>8, <1>9, <1>10, <1>11, <1>12, <1>13,
     <1>14, <1>15, <1>16, <1>17, <1>18, <1>19, <1>20, <1>21, <1>22, <1>23, <1>24, <1>25, <1>26, <1>27, <1>28 DEF Next

LEMMA StageNext ==
    TypeOK /\ Place /\ StageSound /\ [Next]_vars => StageSound'
<1> SUFFICES ASSUME TypeOK, Place, StageSound, [Next]_vars PROVE StageSound'
  OBVIOUS
<1> USE DEF TypeOK, Place, PCs, StageSound, Parts, Exit, Goto, Fails, asked, work, stage, history, Slips, Remains, Steps, NewTree, Spoilt
<1>1. CASE Begin
  BY <1>1 DEF Begin
<1>2. CASE PassFetch
  BY <1>2 DEF PassFetch
<1>3. CASE Have
  BY <1>3 DEF Have
<1>4. CASE Download
  BY <1>4 DEF Download
<1>5. CASE DownloadFails
  BY <1>5 DEF DownloadFails
<1>6. CASE Verify
  BY <1>6 DEF Verify
<1>7. CASE VerifyFails
  BY <1>7 DEF VerifyFails
<1>8. CASE ExtractFails
  BY <1>8 DEF ExtractFails
<1>9. CASE Extract
  BY <1>9 DEF Extract
<1>10. CASE PatchFails
  BY <1>10 DEF PatchFails
<1>11. CASE Patch
  BY <1>11 DEF Patch
<1>12. CASE PassBuild
  BY <1>12 DEF PassBuild
<1>13. CASE Wipe
  BY <1>13 DEF Wipe
<1>14. CASE MakeFails
  BY <1>14 DEF MakeFails
<1>15. CASE Make
  BY <1>15 DEF Make
<1>16. CASE PassStage
  BY <1>16 DEF PassStage
<1>17. CASE StageFails
  BY <1>17 DEF StageFails
<1>18. CASE StageHeaders
  BY <1>18 DEF StageHeaders
<1>19. CASE LibraryFails
  BY <1>19 DEF LibraryFails
<1>20. CASE StageLibrary
  BY <1>20 DEF StageLibrary
<1>21. CASE Kill
  BY <1>21 DEF Kill
<1>22. ASSUME NEW k \in Keys, Clean(k) PROVE StageSound'
  BY <1>22 DEF Clean
<1>23. ASSUME NEW k \in Keys, Lose(k) PROVE StageSound'
  BY <1>23 DEF Lose
<1>24. CASE UNCHANGED vars
  BY <1>24 DEF vars
<1>25. CASE CleanAll
  BY <1>25 DEF CleanAll
<1>27. CASE ExtractSlips
  BY <1>27 DEF ExtractSlips
<1>28. CASE LibrarySlips
  BY <1>28 DEF LibrarySlips
<1>26. CASE KillRemoving
  BY <1>26 DEF KillRemoving
<1> QED
  BY <1>1, <1>2, <1>3, <1>4, <1>5, <1>6, <1>7, <1>8, <1>9, <1>10, <1>11, <1>12, <1>13,
     <1>14, <1>15, <1>16, <1>17, <1>18, <1>19, <1>20, <1>21, <1>22, <1>23, <1>24, <1>25, <1>26, <1>27, <1>28 DEF Next

LEMMA TogetherNext ==
    TypeOK /\ Place /\ StageSound /\ StagedTogether /\ [Next]_vars => StagedTogether'
<1> SUFFICES ASSUME TypeOK, Place, StageSound, StagedTogether, [Next]_vars
             PROVE  StagedTogether'
  OBVIOUS
<1> USE DEF TypeOK, Place, PCs, StageSound, StagedTogether, Parts, Exit, Goto, Fails, asked, work, stage, history, Slips, Remains, Steps, NewTree, Spoilt
<1>1. CASE Begin
  BY <1>1 DEF Begin
<1>2. CASE PassFetch
  BY <1>2 DEF PassFetch
<1>3. CASE Have
  BY <1>3 DEF Have
<1>4. CASE Download
  BY <1>4 DEF Download
<1>5. CASE DownloadFails
  BY <1>5 DEF DownloadFails
<1>6. CASE Verify
  BY <1>6 DEF Verify
<1>7. CASE VerifyFails
  BY <1>7 DEF VerifyFails
<1>8. CASE ExtractFails
  BY <1>8 DEF ExtractFails
<1>9. CASE Extract
  BY <1>9 DEF Extract
<1>10. CASE PatchFails
  BY <1>10 DEF PatchFails
<1>11. CASE Patch
  BY <1>11 DEF Patch
<1>12. CASE PassBuild
  BY <1>12 DEF PassBuild
<1>13. CASE Wipe
  BY <1>13 DEF Wipe
<1>14. CASE MakeFails
  BY <1>14 DEF MakeFails
<1>15. CASE Make
  BY <1>15 DEF Make
<1>16. CASE PassStage
  BY <1>16 DEF PassStage, Staged
<1>17. CASE StageFails
  BY <1>17 DEF StageFails
<1>18. CASE StageHeaders
  BY <1>18 DEF StageHeaders
<1>19. CASE LibraryFails
  BY <1>19 DEF LibraryFails
<1>20. CASE StageLibrary
  BY <1>20 DEF StageLibrary
<1>21. CASE Kill
  BY <1>21 DEF Kill
<1>22. ASSUME NEW k \in Keys, Clean(k) PROVE StagedTogether'
  BY <1>22 DEF Clean
<1>23. ASSUME NEW k \in Keys, Lose(k) PROVE StagedTogether'
  BY <1>23 DEF Lose
<1>24. CASE UNCHANGED vars
  BY <1>24 DEF vars
<1>25. CASE CleanAll
  BY <1>25 DEF CleanAll
<1>27. CASE ExtractSlips
  BY <1>27 DEF ExtractSlips
<1>28. CASE LibrarySlips
  BY <1>28 DEF LibrarySlips
<1>26. CASE KillRemoving
  BY <1>26 DEF KillRemoving
<1> QED
  BY <1>1, <1>2, <1>3, <1>4, <1>5, <1>6, <1>7, <1>8, <1>9, <1>10, <1>11, <1>12, <1>13,
     <1>14, <1>15, <1>16, <1>17, <1>18, <1>19, <1>20, <1>21, <1>22, <1>23, <1>24, <1>25, <1>26, <1>27, <1>28 DEF Next

-----------------------------------------------------------------------------
(* The theorems.                                                           *)

LEMMA IInvInit == Init => IInv
<1> SUFFICES ASSUME Init PROVE IInv
  OBVIOUS
<1>1. TypeOK
  BY TypeInit
<1> QED
  BY <1>1 DEF Init, IInv, Place, OnlyVerified, TreeSound, PrefixSound, StageSound,
    StagedTogether, Unstaged, Parts

LEMMA IInvNext == IInv /\ [Next]_vars => IInv'
BY TypeNext, PlaceNext, VerifiedNext, TreeNext, PrefixNext, StageNext, TogetherNext DEF IInv

\* In every state the fingerprints, what they vouch for and the place the
\* build has reached are tied together as IInv says (1255-1258, 1458-1461).
THEOREM IInvAlways == Spec => []IInv
BY IInvInit, IInvNext, PTL DEF Spec

\* The distfiles, the tree, the prefix, what is staged and the fingerprints
\* keep their types through any builds, failures and interruptions.
THEOREM TypeCorrect == Spec => []TypeOK
<1>1. IInv => TypeOK
  BY DEF IInv
<1> QED
  BY <1>1, IInvAlways, PTL

\* Nothing that was not verified is ever extracted, built or staged
\* (1304-1326).
THEOREM AlwaysVerified == Spec => []OnlyVerified
<1>1. IInv => OnlyVerified
  BY DEF IInv
<1> QED
  BY <1>1, IInvAlways, PTL

\* What a build stages from is whole, and is what was asked for, as long as
\* no build passed over an unfinished step and no command of the extraction or
\* of the build failed unnoticed (1255-1258, 1327-1361, 1458-1464).
THEOREM SourceAlwaysWanted == Spec => []SourceIsWanted
<1>1. IInv => SourceIsWanted
  <2> SUFFICES ASSUME IInv, pc \in {"stage", "library"}, ~passed,
                      slipped \cap {"tree", "prefix"} = {}
               PROVE  /\ Source # Nothing
                      /\ Source.made = "whole" /\ Source.tree.made = "whole"
                      /\ Inputs[Source.tree.of] = Inputs[want]
                      /\ kind = "source-build" => Source.key = key
    BY DEF SourceIsWanted
  <2>1. "tree" \notin slipped /\ "prefix" \notin slipped
    OBVIOUS
  <2>2. tree # Nothing /\ tree.made = "whole" /\ Inputs[tree.of] = Inputs[want] /\ extractFp = Inputs[want]
    BY <2>1 DEF IInv, Place, TreeSound
  <2>3. CASE kind = "source-build"
    <3>1. buildFp = BuildInputs /\ BuildInputs \in BuildFps
      BY <2>1, <2>2, <2>3 DEF IInv, TypeOK, PrefixSound, BuildInputs, BuildFps, ExtractFps
    <3>2. buildFp.inputs = extractFp /\ buildFp.key = key
      BY <3>1 DEF BuildInputs
    <3> QED
      BY <2>1, <2>2, <2>3, <3>1, <3>2 DEF IInv, PrefixSound, Source
  <2>4. CASE kind # "source-build"
    <3>1. Source = [tree |-> tree, key |-> Nothing, made |-> "whole"]
      BY <2>2, <2>4 DEF Source
    <3>2. Source # Nothing
      BY <3>1, <2>2 DEF IInv, TypeOK, Product
    <3> QED
      BY <2>2, <2>4, <3>1, <3>2
  <2> QED
    BY <2>3, <2>4
<1> QED
  BY <1>1, IInvAlways, PTL

\* A build that is done leaves a key its headers and its library, of one
\* build and under the fingerprint of the headers asked for, unless a command
\* of the staging failed unnoticed (1136-1211).
THEOREM AlwaysStagedTogether == Spec => []StagedTogether
<1>1. IInv => StagedTogether
  BY DEF IInv
<1> QED
  BY <1>1, IInvAlways, PTL
=============================================================================
