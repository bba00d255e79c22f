------------------------ MODULE SnapshotFilesProofs ------------------------
(* Proofs about what is served: SnapshotFiles, for any number of runs and   *)
(* readers; SnapshotValidation, for any codes, scans, deaths and damage;    *)
(* ScanReport, for any number of scans and any clock; QuoteViews, for any   *)
(* markets and prices; RankingViews, for any markets and rankers.           *)
EXTENDS SnapshotFiles, SnapshotValidation, ScanReport, QuoteViews,
    RankingViews, FiniteSetTheorems, WellFoundedInduction, TLAPS

(* What makes the properties inductive.                                     *)

\* A cached file holds its own snapshot, or has been damaged.
CacheNamed == \A s \in Snapshots : cache[s] \in {Nothing, s, Torn}

\* What a process was given belongs to the manifest it read, and a process
\* that has not asked was given nothing.
HeldFits ==
    \A p \in Procs : /\ held[p] \in {Nothing, loaded[p]}
                     /\ pc[p] = "idle" => held[p] = Nothing
                     /\ pc[p] \in Resolving \cup {"resolved", "named"} =>
                            loaded[p] \in Snapshots
                     /\ pc[p] \in {"resolved", "named"} =>
                            cache[loaded[p]] # Nothing

OnlyRunsCompute ==
    \A p \in Procs : pc[p] \in Computing \ {"resolved"} => p \in Runs

FilesInv == TypeOK /\ CacheNamed /\ HeldFits /\ OnlyRunsCompute

\* When runs are kept apart there is one active run, and all that it read is
\* still published.
OneActive == \A r, s \in Runs : Active(r) /\ Active(s) => r = s

ActiveIsCurrent ==
    \A r \in Runs :
        /\ pc[r] = "idle" => parent[r] = Nothing /\ base[r] = Nothing
        /\ pc[r] \in Resolving \cup {"resolved", "named"} => loaded[r] = manifest
        /\ pc[r] \in {"named", "seeded", "built", "halfway"} => parent[r] = manifest
        /\ pc[r] = "seeded" => base[r] \in {manifest, Torn}
        /\ pc[r] \in {"built", "halfway"} => base[r] = manifest
        /\ pc[r] = "promoted" => base[r] = parent[r]
        /\ pc[r] = "halfway" => gz = r

ChainInv == OneActive /\ ActiveIsCurrent /\ OnlyPromotionSplitsPair

\* The initial states.
LEMMA InitFiles == Init => FilesInv
BY FilesAssumption DEF Init, FilesInv, TypeOK, CacheNamed, HeldFits, OnlyRunsCompute,
   Procs, Snapshots, Resolving, Computing, Ended

LEMMA InitChain == Init => ChainInv
BY FilesAssumption DEF Init, ChainInv, OneActive, ActiveIsCurrent, OnlyPromotionSplitsPair,
   Procs, Snapshots, Resolving, Computing, Ended, Active

\* Every step keeps the types.
LEMMA StepTypes == FilesInv /\ [Next]_vars => TypeOK'
<1> SUFFICES ASSUME FilesInv, TypeOK, [Next]_vars PROVE TypeOK'
  BY DEF FilesInv
<1> USE FilesAssumption
<1>1. ASSUME NEW p \in Procs, Load(p) PROVE TypeOK'
  BY <1>1 DEF Load, TypeOK, Goto, Procs, Snapshots, Resolving, Computing, Ended
<1>2. ASSUME NEW p \in Procs, NoManifest(p) PROVE TypeOK'
  BY <1>2 DEF NoManifest, TypeOK, Goto, Procs, Snapshots, Resolving, Computing, Ended
<1>3. ASSUME NEW p \in Procs, CheckGzip(p) PROVE TypeOK'
  BY <1>3 DEF CheckGzip, TypeOK, Goto, Procs, Snapshots, Resolving, Computing, Ended
<1>4. ASSUME NEW p \in Procs, RefuseGzip(p) PROVE TypeOK'
  BY <1>4 DEF RefuseGzip, TypeOK, Goto, Procs, Snapshots, Resolving, Computing, Ended
<1>5. ASSUME NEW p \in Procs, UseCached(p) PROVE TypeOK'
  BY <1>5 DEF UseCached, Return, TypeOK, Goto, Procs, Snapshots, Resolving, Computing, Ended
<1>6. ASSUME NEW p \in Procs, Decompress(p) PROVE TypeOK'
  BY <1>6 DEF Decompress, TypeOK, Goto, Procs, Snapshots, Resolving, Computing, Ended
<1>7. ASSUME NEW p \in Procs, Install(p) PROVE TypeOK'
  BY <1>7 DEF Install, Return, FilesInv, HeldFits, CacheNamed, TypeOK, Goto, Procs, Snapshots, Resolving, Computing, Ended
<1>8. ASSUME NEW p \in Readers, ColdStart(p) PROVE TypeOK'
  BY <1>8 DEF ColdStart, TypeOK, Goto, Procs, Snapshots, Resolving, Computing, Ended
<1>9. ASSUME NEW r \in Runs, Bootstrap(r) PROVE TypeOK'
  BY <1>9 DEF Bootstrap, TypeOK, Goto, Procs, Snapshots, Resolving, Computing, Ended
<1>10. ASSUME NEW r \in Runs, NameParent(r) PROVE TypeOK'
  BY <1>10 DEF NameParent, TypeOK, Goto, Procs, Snapshots, Resolving, Computing, Ended
<1>11. ASSUME NEW r \in Runs, CopySeed(r) PROVE TypeOK'
  BY <1>11 DEF CopySeed, FilesInv, HeldFits, CacheNamed, TypeOK, Goto, Procs, Snapshots, Resolving, Computing, Ended
<1>12. ASSUME NEW r \in Runs, Build(r) PROVE TypeOK'
  BY <1>12 DEF Build, TypeOK, Goto, Procs, Snapshots, Resolving, Computing, Ended
<1>13. ASSUME NEW r \in Runs, Fail(r) PROVE TypeOK'
  BY <1>13 DEF Fail, TypeOK, Goto, Procs, Snapshots, Resolving, Computing, Ended
<1>14. ASSUME NEW r \in Runs, ReplaceGzip(r) PROVE TypeOK'
  BY <1>14 DEF ReplaceGzip, TypeOK, Goto, Procs, Snapshots, Resolving, Computing, Ended
<1>15. ASSUME NEW r \in Runs, ReplaceManifest(r) PROVE TypeOK'
  BY <1>15 DEF ReplaceManifest, TypeOK, Goto, Procs, Snapshots, Resolving, Computing, Ended
<1>16. ASSUME NEW r \in Runs, Crash(r) PROVE TypeOK'
  BY <1>16 DEF Crash, TypeOK, Goto, Procs, Snapshots, Resolving, Computing, Ended
<1>17. ASSUME NEW s \in Snapshots, Damage(s) PROVE TypeOK'
  BY <1>17 DEF Damage, TypeOK, Goto, Procs, Snapshots, Resolving, Computing, Ended
<1>18. CASE UNCHANGED vars
  BY <1>18 DEF vars, TypeOK, Goto, Procs, Snapshots, Resolving, Computing, Ended
<1> QED
  BY <1>1, <1>2, <1>3, <1>4, <1>5, <1>6, <1>7, <1>8, <1>9, <1>10, <1>11, <1>12, <1>13, <1>14, <1>15, <1>16, <1>17, <1>18
  DEF Next, Resolve, Compute

\* Every step keeps what is known of the cache and of the answers.
LEMMA StepFiles == FilesInv /\ TypeOK' /\ [Next]_vars => FilesInv'
<1> SUFFICES ASSUME FilesInv, TypeOK', [Next]_vars
             PROVE (CacheNamed /\ HeldFits /\ OnlyRunsCompute)'
  BY DEF FilesInv
<1> USE FilesAssumption
<1> DEFINE Rest == CacheNamed /\ HeldFits /\ OnlyRunsCompute
<1>1. ASSUME NEW p \in Procs, Load(p) PROVE Rest'
  BY <1>1 DEF Load, FilesInv, CacheNamed, HeldFits, OnlyRunsCompute, TypeOK, Goto, Procs, Snapshots, Resolving, Computing, Ended
<1>2. ASSUME NEW p \in Procs, NoManifest(p) PROVE Rest'
  BY <1>2 DEF NoManifest, FilesInv, CacheNamed, HeldFits, OnlyRunsCompute, TypeOK, Goto, Procs, Snapshots, Resolving, Computing, Ended
<1>3. ASSUME NEW p \in Procs, CheckGzip(p) PROVE Rest'
  BY <1>3 DEF CheckGzip, FilesInv, CacheNamed, HeldFits, OnlyRunsCompute, TypeOK, Goto, Procs, Snapshots, Resolving, Computing, Ended
<1>4. ASSUME NEW p \in Procs, RefuseGzip(p) PROVE Rest'
  BY <1>4 DEF RefuseGzip, FilesInv, CacheNamed, HeldFits, OnlyRunsCompute, TypeOK, Goto, Procs, Snapshots, Resolving, Computing, Ended
<1>5. ASSUME NEW p \in Procs, UseCached(p) PROVE Rest'
  BY <1>5 DEF UseCached, Return, FilesInv, CacheNamed, HeldFits, OnlyRunsCompute, TypeOK, Goto, Procs, Snapshots, Resolving, Computing, Ended
<1>6. ASSUME NEW p \in Procs, Decompress(p) PROVE Rest'
  BY <1>6 DEF Decompress, FilesInv, CacheNamed, HeldFits, OnlyRunsCompute, TypeOK, Goto, Procs, Snapshots, Resolving, Computing, Ended
<1>7. ASSUME NEW p \in Procs, Install(p) PROVE Rest'
  BY <1>7 DEF Install, Return, FilesInv, CacheNamed, HeldFits, OnlyRunsCompute, TypeOK, Goto, Procs, Snapshots, Resolving, Computing, Ended
<1>8. ASSUME NEW p \in Readers, ColdStart(p) PROVE Rest'
  BY <1>8 DEF ColdStart, FilesInv, CacheNamed, HeldFits, OnlyRunsCompute, TypeOK, Goto, Procs, Snapshots, Resolving, Computing, Ended
<1>9. ASSUME NEW r \in Runs, Bootstrap(r) PROVE Rest'
  BY <1>9 DEF Bootstrap, FilesInv, CacheNamed, HeldFits, OnlyRunsCompute, TypeOK, Goto, Procs, Snapshots, Resolving, Computing, Ended
<1>10. ASSUME NEW r \in Runs, NameParent(r) PROVE Rest'
  BY <1>10 DEF NameParent, FilesInv, CacheNamed, HeldFits, OnlyRunsCompute, TypeOK, Goto, Procs, Snapshots, Resolving, Computing, Ended
<1>11. ASSUME NEW r \in Runs, CopySeed(r) PROVE Rest'
  BY <1>11 DEF CopySeed, FilesInv, CacheNamed, HeldFits, OnlyRunsCompute, TypeOK, Goto, Procs, Snapshots, Resolving, Computing, Ended
<1>12. ASSUME NEW r \in Runs, Build(r) PROVE Rest'
  BY <1>12 DEF Build, FilesInv, CacheNamed, HeldFits, OnlyRunsCompute, TypeOK, Goto, Procs, Snapshots, Resolving, Computing, Ended
<1>13. ASSUME NEW r \in Runs, Fail(r) PROVE Rest'
  BY <1>13 DEF Fail, FilesInv, CacheNamed, HeldFits, OnlyRunsCompute, TypeOK, Goto, Procs, Snapshots, Resolving, Computing, Ended
<1>14. ASSUME NEW r \in Runs, ReplaceGzip(r) PROVE Rest'
  BY <1>14 DEF ReplaceGzip, FilesInv, CacheNamed, HeldFits, OnlyRunsCompute, TypeOK, Goto, Procs, Snapshots, Resolving, Computing, Ended
<1>15. ASSUME NEW r \in Runs, ReplaceManifest(r) PROVE Rest'
  BY <1>15 DEF ReplaceManifest, FilesInv, CacheNamed, HeldFits, OnlyRunsCompute, TypeOK, Goto, Procs, Snapshots, Resolving, Computing, Ended
<1>16. ASSUME NEW r \in Runs, Crash(r) PROVE Rest'
  BY <1>16 DEF Crash, FilesInv, CacheNamed, HeldFits, OnlyRunsCompute, TypeOK, Goto, Procs, Snapshots, Resolving, Computing, Ended
<1>17. ASSUME NEW s \in Snapshots, Damage(s) PROVE Rest'
  BY <1>17 DEF Damage, FilesInv, CacheNamed, HeldFits, OnlyRunsCompute, TypeOK, Goto, Procs, Snapshots, Resolving, Computing, Ended
<1>18. CASE UNCHANGED vars
  BY <1>18 DEF vars, FilesInv, CacheNamed, HeldFits, OnlyRunsCompute, TypeOK, Goto, Procs, Snapshots, Resolving, Computing, Ended
<1> QED
  BY <1>1, <1>2, <1>3, <1>4, <1>5, <1>6, <1>7, <1>8, <1>9, <1>10, <1>11, <1>12, <1>13, <1>14, <1>15, <1>16, <1>17, <1>18
  DEF Next, Resolve, Compute

\* Every step keeps the chain, when runs are kept apart.
LEMMA StepChain == FilesInv /\ EXCLUSIVE /\ ChainInv /\ [Next]_vars => ChainInv'
<1> SUFFICES ASSUME FilesInv, EXCLUSIVE, ChainInv, [Next]_vars
             PROVE ChainInv'
  OBVIOUS
<1> USE FilesAssumption
<1>1. ASSUME NEW p \in Procs, Load(p) PROVE ChainInv'
  BY <1>1 DEF Load, FilesInv, CacheNamed, HeldFits, OnlyRunsCompute, ChainInv, OneActive, ActiveIsCurrent, OnlyPromotionSplitsPair, Active, MayStart, TypeOK, Goto, Procs, Snapshots, Resolving, Computing, Ended
<1>2. ASSUME NEW p \in Procs, NoManifest(p) PROVE ChainInv'
  BY <1>2 DEF NoManifest, FilesInv, CacheNamed, HeldFits, OnlyRunsCompute, ChainInv, OneActive, ActiveIsCurrent, OnlyPromotionSplitsPair, Active, MayStart, TypeOK, Goto, Procs, Snapshots, Resolving, Computing, Ended
<1>3. ASSUME NEW p \in Procs, CheckGzip(p) PROVE ChainInv'
  BY <1>3 DEF CheckGzip, FilesInv, CacheNamed, HeldFits, OnlyRunsCompute, ChainInv, OneActive, ActiveIsCurrent, OnlyPromotionSplitsPair, Active, MayStart, TypeOK, Goto, Procs, Snapshots, Resolving, Computing, Ended
<1>4. ASSUME NEW p \in Procs, RefuseGzip(p) PROVE ChainInv'
  BY <1>4 DEF RefuseGzip, FilesInv, CacheNamed, HeldFits, OnlyRunsCompute, ChainInv, OneActive, ActiveIsCurrent, OnlyPromotionSplitsPair, Active, MayStart, TypeOK, Goto, Procs, Snapshots, Resolving, Computing, Ended
<1>5. ASSUME NEW p \in Procs, UseCached(p) PROVE ChainInv'
  BY <1>5 DEF UseCached, Return, FilesInv, CacheNamed, HeldFits, OnlyRunsCompute, ChainInv, OneActive, ActiveIsCurrent, OnlyPromotionSplitsPair, Active, MayStart, TypeOK, Goto, Procs, Snapshots, Resolving, Computing, Ended
<1>6. ASSUME NEW p \in Procs, Decompress(p) PROVE ChainInv'
  BY <1>6 DEF Decompress, FilesInv, CacheNamed, HeldFits, OnlyRunsCompute, ChainInv, OneActive, ActiveIsCurrent, OnlyPromotionSplitsPair, Active, MayStart, TypeOK, Goto, Procs, Snapshots, Resolving, Computing, Ended
<1>7. ASSUME NEW p \in Procs, Install(p) PROVE ChainInv'
  BY <1>7 DEF Install, Return, FilesInv, CacheNamed, HeldFits, OnlyRunsCompute, ChainInv, OneActive, ActiveIsCurrent, OnlyPromotionSplitsPair, Active, MayStart, TypeOK, Goto, Procs, Snapshots, Resolving, Computing, Ended
<1>8. ASSUME NEW p \in Readers, ColdStart(p) PROVE ChainInv'
  BY <1>8 DEF ColdStart, FilesInv, CacheNamed, HeldFits, OnlyRunsCompute, ChainInv, OneActive, ActiveIsCurrent, OnlyPromotionSplitsPair, Active, MayStart, TypeOK, Goto, Procs, Snapshots, Resolving, Computing, Ended
<1>9. ASSUME NEW r \in Runs, Bootstrap(r) PROVE ChainInv'
  BY <1>9 DEF Bootstrap, FilesInv, CacheNamed, HeldFits, OnlyRunsCompute, ChainInv, OneActive, ActiveIsCurrent, OnlyPromotionSplitsPair, Active, MayStart, TypeOK, Goto, Procs, Snapshots, Resolving, Computing, Ended
<1>10. ASSUME NEW r \in Runs, NameParent(r) PROVE ChainInv'
  BY <1>10 DEF NameParent, FilesInv, CacheNamed, HeldFits, OnlyRunsCompute, ChainInv, OneActive, ActiveIsCurrent, OnlyPromotionSplitsPair, Active, MayStart, TypeOK, Goto, Procs, Snapshots, Resolving, Computing, Ended
<1>11. ASSUME NEW r \in Runs, CopySeed(r) PROVE ChainInv'
  BY <1>11 DEF CopySeed, FilesInv, CacheNamed, HeldFits, OnlyRunsCompute, ChainInv, OneActive, ActiveIsCurrent, OnlyPromotionSplitsPair, Active, MayStart, TypeOK, Goto, Procs, Snapshots, Resolving, Computing, Ended
<1>12. ASSUME NEW r \in Runs, Build(r) PROVE ChainInv'
  BY <1>12 DEF Build, FilesInv, CacheNamed, HeldFits, OnlyRunsCompute, ChainInv, OneActive, ActiveIsCurrent, OnlyPromotionSplitsPair, Active, MayStart, TypeOK, Goto, Procs, Snapshots, Resolving, Computing, Ended
<1>13. ASSUME NEW r \in Runs, Fail(r) PROVE ChainInv'
  BY <1>13 DEF Fail, FilesInv, CacheNamed, HeldFits, OnlyRunsCompute, ChainInv, OneActive, ActiveIsCurrent, OnlyPromotionSplitsPair, Active, MayStart, TypeOK, Goto, Procs, Snapshots, Resolving, Computing, Ended
<1>14. ASSUME NEW r \in Runs, ReplaceGzip(r) PROVE ChainInv'
  BY <1>14 DEF ReplaceGzip, FilesInv, CacheNamed, HeldFits, OnlyRunsCompute, ChainInv, OneActive, ActiveIsCurrent, OnlyPromotionSplitsPair, Active, MayStart, TypeOK, Goto, Procs, Snapshots, Resolving, Computing, Ended
<1>15. ASSUME NEW r \in Runs, ReplaceManifest(r) PROVE ChainInv'
  BY <1>15 DEF ReplaceManifest, FilesInv, CacheNamed, HeldFits, OnlyRunsCompute, ChainInv, OneActive, ActiveIsCurrent, OnlyPromotionSplitsPair, Active, MayStart, TypeOK, Goto, Procs, Snapshots, Resolving, Computing, Ended
<1>16. ASSUME NEW r \in Runs, Crash(r) PROVE ChainInv'
  BY <1>16 DEF Crash, FilesInv, CacheNamed, HeldFits, OnlyRunsCompute, ChainInv, OneActive, ActiveIsCurrent, OnlyPromotionSplitsPair, Active, MayStart, TypeOK, Goto, Procs, Snapshots, Resolving, Computing, Ended
<1>17. ASSUME NEW s \in Snapshots, Damage(s) PROVE ChainInv'
  BY <1>17 DEF Damage, FilesInv, CacheNamed, HeldFits, OnlyRunsCompute, ChainInv, OneActive, ActiveIsCurrent, OnlyPromotionSplitsPair, Active, MayStart, TypeOK, Goto, Procs, Snapshots, Resolving, Computing, Ended
<1>18. CASE UNCHANGED vars
  BY <1>18 DEF vars, FilesInv, CacheNamed, HeldFits, OnlyRunsCompute, ChainInv, OneActive, ActiveIsCurrent, OnlyPromotionSplitsPair, Active, MayStart, TypeOK, Goto, Procs, Snapshots, Resolving, Computing, Ended
<1> QED
  BY <1>1, <1>2, <1>3, <1>4, <1>5, <1>6, <1>7, <1>8, <1>9, <1>10, <1>11, <1>12, <1>13, <1>14, <1>15, <1>16, <1>17, <1>18
  DEF Next, Resolve, Compute

LEMMA AlwaysFiles == Spec => []FilesInv
<1>1. FilesInv /\ [Next]_vars => FilesInv'
  BY StepTypes, StepFiles
<1> QED
  BY <1>1, InitFiles, PTL DEF Spec

LEMMA AlwaysChain == EXCLUSIVE => (Spec => []ChainInv)
<1> SUFFICES ASSUME EXCLUSIVE PROVE Spec => []ChainInv
  OBVIOUS
<1>1. FilesInv /\ ChainInv /\ [Next]_vars => ChainInv'
  BY StepChain
<1> QED
  BY <1>1, InitChain, AlwaysFiles, PTL DEF Spec

\* The types of the files and of the processes that use them.
THEOREM FilesTypeCorrect == Spec => []TypeOK
<1>1. FilesInv => TypeOK
  BY DEF FilesInv
<1> QED
  BY <1>1, AlwaysFiles, PTL

\* resolve_snapshot_path never returns a path that holds anything but the
\* snapshot of the manifest it read, whatever other processes, promotions and
\* damage to the cache do meanwhile, and however many runs there are at a time.
THEOREM ResolutionIsWhole == Spec => []ResolvedIsWhole
<1>1. FilesInv => ResolvedIsWhole
  BY DEF FilesInv, HeldFits, ResolvedIsWhole
<1> QED
  BY <1>1, AlwaysFiles, PTL

\* A run's operational database and the parent it names are one snapshot: it
\* takes EXCLUSIVE, since name and contents come from two reads.
THEOREM LineageHolds == Spec => []LineageIsHonest
<1>1. CASE EXCLUSIVE
  <2>1. FilesInv /\ ChainInv => LineageIsHonest
    BY DEF ChainInv, ActiveIsCurrent, LineageIsHonest
  <2> QED
    BY <1>1, <2>1, AlwaysFiles, AlwaysChain, PTL
<1>2. CASE ~EXCLUSIVE
  <2>1. LineageIsHonest
    BY <1>2 DEF LineageIsHonest
  <2> QED
    BY <2>1, PTL
<1> QED
  BY <1>1, <1>2

\* The published gzip and manifest disagree only around a promotion's two
\* replacements.
THEOREM SplitPairsHaveAuthors == Spec => []OnlyPromotionSplitsPair
<1>1. CASE EXCLUSIVE
  <2>1. ChainInv => OnlyPromotionSplitsPair
    BY DEF ChainInv
  <2> QED
    BY <1>1, <2>1, AlwaysChain, PTL
<1>2. CASE ~EXCLUSIVE
  <2>1. OnlyPromotionSplitsPair
    BY <1>2 DEF OnlyPromotionSplitsPair
  <2> QED
    BY <2>1, PTL
<1> QED
  BY <1>1, <1>2

---------------------------------------------------------------------------
(* The files implement the published snapshot.                              *)

\* A step that leaves the set of promoted runs alone.
LEMMA PromotedStay ==
  ASSUME TypeOK, NEW p \in Procs, NEW to, Goto(p, to), pc[p] # "promoted", to # "promoted"
  PROVE  {r \in Runs : pc'[r] = "promoted"} = {r \in Runs : pc[r] = "promoted"}
BY DEF TypeOK, Goto, Procs

LEMMA InitMaps == Init => Published!Init
BY FilesAssumption DEF Init, Published!Init, Procs, Snapshots

\* Every step of the files is a step of the published snapshot or a stutter.
LEMMA StepMaps ==
  FilesInv /\ ChainInv /\ [Next]_vars => [Published!Next]_(Published!absVars)
<1> SUFFICES ASSUME FilesInv, ChainInv, [Next]_vars
             PROVE [Published!Next]_(Published!absVars)
  OBVIOUS
<1> USE FilesAssumption DEF FilesInv
<1>1. ASSUME NEW p \in Procs, Load(p) PROVE Published!Ask(p)
  <2>1. UNCHANGED {r \in Runs : pc[r] = "promoted"}
    BY <1>1, PromotedStay DEF Load
  <2> QED
    BY <1>1, <2>1 DEF Load, Published!Ask, HeldFits, TypeOK
<1>2. ASSUME NEW p \in Procs, UseCached(p) \/ Install(p) PROVE Published!Give(p)
  <2>1. UNCHANGED {r \in Runs : pc[r] = "promoted"}
    BY <1>2, PromotedStay DEF UseCached, Install, Return
  <2>2. cache'[loaded[p]] = loaded[p]
    BY <1>2 DEF UseCached, Install, HeldFits, TypeOK, Resolving
  <2> QED
    BY <1>2, <2>1, <2>2 DEF UseCached, Install, Return, Published!Give, TypeOK
<1>3. ASSUME NEW p \in Readers, ColdStart(p) PROVE Published!Leave(p)
  <2>1. UNCHANGED {r \in Runs : pc[r] = "promoted"}
    BY <1>3, PromotedStay DEF ColdStart, Procs
  <2> QED
    BY <1>3, <2>1 DEF ColdStart, Published!Leave
<1>4. ASSUME NEW r \in Runs, ReplaceManifest(r) PROVE Published!Publish(r)
  <2>1. {s \in Runs : pc'[s] = "promoted"} = {s \in Runs : pc[s] = "promoted"} \cup {r}
    BY <1>4 DEF ReplaceManifest, Goto, TypeOK, Procs
  <2>2. r \notin {Genesis} \cup {s \in Runs : pc[s] = "promoted"}
    BY <1>4 DEF ReplaceManifest, Procs
  <2>3. parent[r] = manifest
    BY <1>4 DEF ReplaceManifest, ChainInv, ActiveIsCurrent
  <2> QED
    BY <1>4, <2>1, <2>2, <2>3 DEF ReplaceManifest, Published!Publish
<1>5. ASSUME NEW p \in Procs,
             NoManifest(p) \/ CheckGzip(p) \/ RefuseGzip(p) \/ Decompress(p)
      PROVE UNCHANGED Published!absVars
  <2>1. UNCHANGED {r \in Runs : pc[r] = "promoted"}
    BY <1>5, PromotedStay DEF NoManifest, CheckGzip, RefuseGzip, Decompress
  <2> QED
    BY <1>5, <2>1 DEF NoManifest, CheckGzip, RefuseGzip, Decompress, Published!absVars
<1>6. ASSUME NEW r \in Runs,
             \/ Bootstrap(r) \/ NameParent(r) \/ CopySeed(r) \/ Build(r)
             \/ Fail(r) \/ ReplaceGzip(r) \/ Crash(r)
      PROVE UNCHANGED Published!absVars
  <2>1. UNCHANGED {s \in Runs : pc[s] = "promoted"}
    BY <1>6, PromotedStay DEF Bootstrap, NameParent, CopySeed, Build, Fail, ReplaceGzip,
       Crash, Procs, Active, Resolving, Computing
  <2> QED
    BY <1>6, <2>1 DEF Bootstrap, NameParent, CopySeed, Build, Fail, ReplaceGzip,
       Crash, Published!absVars
<1>7. ASSUME NEW s \in Snapshots, Damage(s) PROVE UNCHANGED Published!absVars
  BY <1>7 DEF Damage, Published!absVars
<1>8. CASE UNCHANGED vars
  BY <1>8 DEF vars, Published!absVars
<1> QED
  BY <1>1, <1>2, <1>3, <1>4, <1>5, <1>6, <1>7, <1>8
  DEF Next, Resolve, Compute, Published!Next, Procs, Snapshots

\* When runs are kept apart, what readers and runs see of the files is a chain
\* of snapshots, each the child of the one it replaced, and whole answers.
THEOREM FilesImplementPublished == EXCLUSIVE => (Spec => ImplementsPublished)
<1> SUFFICES ASSUME EXCLUSIVE PROVE Spec => ImplementsPublished
  OBVIOUS
<1> QED
  BY InitMaps, StepMaps, AlwaysFiles, AlwaysChain, PTL
  DEF Spec, ImplementsPublished, Published!Spec

-----------------------------------------------------------------------------
(* The answers about the arbitrage scans.                                  *)

LEMMA LeastExists ==
    ASSUME NEW T, T \subseteq Nat, T # {} PROVE \E x \in T : \A y \in T : x <= y
<1>1. IsWellFoundedOn(OpToRel(<, Nat), Nat)
  BY NatLessThanWellFounded
<1>2. \A x, y \in Nat : <<y, x>> \in OpToRel(<, Nat) <=> y < x
  BY DEF OpToRel
<1>3. PICK less : /\ IsWellFoundedOn(less, Nat)
                  /\ \A x, y \in Nat : <<y, x>> \in less <=> y < x
  BY <1>1, <1>2, Zenon
<1>4. PICK x \in T : \A y \in T : ~(<<y, x>> \in less)
  BY <1>3, WFMin
<1>5. ASSUME NEW y \in T PROVE x <= y
  <2>1. ~(y < x)
    BY <1>3, <1>4
  <2> QED
    BY <2>1
<1> QED
  BY <1>5

\* The newest of some scans, by any bounded order.
LEMMA NewestIs ==
    ASSUME NEW S, S # {}, NEW f, NEW b \in Nat, \A s \in S : f[s] \in 0..b
    PROVE  \E n \in S : NewestBy(S, f) = Known(n) /\ \A r \in S : f[r] <= f[n]
<1> DEFINE gaps == {b - f[s] : s \in S}
<1>1. gaps \subseteq Nat /\ gaps # {}
  <2>1. \A s \in S : b - f[s] \in Nat
    OBVIOUS
  <2>2. PICK s : s \in S
    OBVIOUS
  <2>3. b - f[s] \in gaps
    BY <2>2
  <2> QED
    BY <2>1, <2>3
<1>2. PICK g \in gaps : \A y \in gaps : g <= y
  BY <1>1, LeastExists
<1>3. PICK n \in S : g = b - f[n]
  OBVIOUS
<1>4. \A r \in S : f[r] <= f[n]
  <2> TAKE r \in S
  <2>1. b - f[n] <= b - f[r]
    BY <1>2, <1>3
  <2>2. f[n] \in 0..b /\ f[r] \in 0..b
    OBVIOUS
  <2> QED
    BY <2>1, <2>2
<1> HIDE DEF gaps
<1>5. PICK m \in S : /\ m = CHOOSE s \in S : \A r \in S : f[r] <= f[s]
                     /\ \A r \in S : f[r] <= f[m]
  BY <1>4, Zenon
<1>6. NewestBy(S, f) = Known(m)
  BY <1>5, Zenon DEF NewestBy
<1> QED
  BY <1>5, <1>6

LEMMA KnownParts ==
    /\ ~Unknown.found
    /\ \A x : Known(x).found /\ Known(x).is = x
    /\ \A S, f : S = {} => NewestBy(S, f) = Unknown
  BY Zenon DEF Unknown, Known, NewestBy

-----------------------------------------------------------------------------
(* The scans. *)

Begun == {r \in Scans : began[r] # NotYet}

\* Scans begin one after the other, and what is committed or completed has begun.
ScansInOrder ==
    /\ status \in [Scans -> {"none", "running", "success", "failed", "interrupted"}]
    /\ \E k \in Nat : Claimed = 1..k
    /\ found \in [Scans -> {"pending", "nothing", "some"}]
    /\ began \in [Scans -> Nat]
    /\ \A s \in Scans : began[s] <= Cardinality(Begun)
    /\ \A r, s \in Scans : began[r] = began[s] /\ began[r] # NotYet => r = s
    /\ \A s \in Scans : found[s] # "pending" => began[s] # NotYet
    /\ \A s \in Scans : status[s] = "success" => found[s] # "pending"

Fields == {"at", "row", "visible", "run", "completed", "age", "cause"}

\* x is what NewestBy told of the members of S, which it has not outlived.
IsNewest(x, S, f) ==
    \/ S = {} /\ x = Unknown
    \/ \E n \in S : x = Known(n) /\ \A r \in S : f[r] <= f[n]

\* What an answer has read stays true of the scans it was read from.
AnswerStands ==
    /\ DOMAIN answer = Fields
    /\ answer.at \in {"rows", "run", "diagnostics", "health", "told"}
    /\ answer.at # "rows" => /\ answer.visible \subseteq HasRows
                             /\ IsNewest(answer.row, answer.visible, began)
    /\ answer.at \in {"diagnostics", "health", "told"} =>
          /\ answer.completed \subseteq Completed
          /\ IsNewest(answer.run, answer.completed, ByStart)
    /\ answer.at = "told" /\ answer.cause = "zero_opportunities" =>
          answer.age.found /\ answer.age.is <= HardStale /\ Completed # {}

ScanInv == ScansInOrder /\ AnswerStands

\* What was committed or completed stays so, in its place.
LEMMA ScansStay ==
    ASSUME AnswerStands, answer' = answer, HasRows \subseteq HasRows',
           Completed \subseteq Completed', \A s \in HasRows : began'[s] = began[s]
    PROVE  AnswerStands'
<1>1. ASSUME answer.at # "rows"
      PROVE  IsNewest(answer.row, answer.visible, began')
  BY <1>1, Zenon DEF AnswerStands, IsNewest
<1> QED
  BY <1>1, Zenon DEF AnswerStands, IsNewest, ByStart

\* Runs are claimed in order, so that a claim is never of a run that is completed.
LEMMA ClaimHolds == ASSUME ScanInv, NEW s \in Scans, ClaimScan(s) PROVE ScanInv'
<1>1. /\ s = Cardinality(Claimed) + 1 /\ UNCHANGED <<began, found, answer>>
      /\ status' = [r \in Scans |-> IF r = s THEN "running"
                                    ELSE IF status[r] = "running" THEN "interrupted"
                                    ELSE status[r]]
  BY DEF ClaimScan
<1>2. PICK k \in Nat : Claimed = 1..k
  BY DEF ScanInv, ScansInOrder
<1>3. s = k + 1
  <2>1. Cardinality(1..k) = k
    BY <1>2, FS_Interval
  <2> QED
    BY <1>1, <1>2, <2>1
<1>4. s \notin Claimed /\ status[s] = "none"
  <2>1. s \notin Claimed
    BY <1>2, <1>3
  <2> QED
    BY <2>1 DEF Claimed
<1>5. Claimed' = 1..(k + 1)
  <2>1. Claimed' = Claimed \cup {s}
    BY <1>1 DEF Claimed
  <2> QED
    BY <2>1, <1>2, <1>3
<1>6. status' \in [Scans -> {"none", "running", "success", "failed", "interrupted"}]
  BY <1>1 DEF ScanInv, ScansInOrder
<1>7. \A r \in Scans : status'[r] = "success" <=> status[r] = "success"
  BY <1>1, <1>4
<1>8. Completed' = Completed /\ HasRows' = HasRows /\ Begun' = Begun
  BY <1>1, <1>7 DEF Completed, HasRows, Begun
<1>9. AnswerStands'
  BY <1>1, <1>8, ScansStay DEF ScanInv
<1>10. ScansInOrder'
  <2>1. k + 1 \in Nat
    OBVIOUS
  <2> QED
    BY <1>1, <1>5, <1>6, <1>7, <1>8, <2>1 DEF ScanInv, ScansInOrder
<1> QED
  BY <1>9, <1>10 DEF ScanInv

\* A scan begins after all that have begun.
LEMMA BeginHolds == ASSUME ScanInv, NEW s \in Scans, BeginScan(s) PROVE ScanInv'
<1>1. /\ began[s] = NotYet /\ UNCHANGED <<status, found, answer>>
      /\ began' = [began EXCEPT ![s] = Cardinality(Begun) + 1]
  BY DEF BeginScan, Begun
<1>2. IsFiniteSet(Begun) /\ Cardinality(Begun) \in Nat
  <2>1. IsFiniteSet(Scans)
    BY FS_Interval, ReportAssumption DEF Scans
  <2>2. Begun \subseteq Scans
    BY DEF Begun
  <2> QED
    BY <2>1, <2>2, FS_Subset, FS_CardinalityType
<1>3. began \in [Scans -> Nat] /\ \A r \in Scans : began[r] <= Cardinality(Begun)
  BY DEF ScanInv, ScansInOrder
<1>4. PICK n \in Nat : n = Cardinality(Begun)
  BY <1>2
<1>5. began' \in [Scans -> Nat] /\ began'[s] = n + 1
      /\ \A r \in Scans \ {s} : began'[r] = began[r]
  BY <1>1, <1>3, <1>4
<1>6. Begun' = Begun \cup {s} /\ s \notin Begun
  BY <1>1, <1>5 DEF Begun, NotYet
<1>7. Cardinality(Begun') = n + 1
  BY <1>2, <1>4, <1>6, FS_AddElement
<1>8. \A r \in Scans : began'[r] <= n + 1
  BY <1>3, <1>4, <1>5
<1>9. \A q, r \in Scans : began'[q] = began'[r] /\ began'[q] # NotYet => q = r
  <2>1. \A q, r \in Scans : began[q] = began[r] /\ began[q] # NotYet => q = r
    BY DEF ScanInv, ScansInOrder
  <2>2. \A r \in Scans \ {s} : began'[r] <= n
    BY <1>3, <1>4, <1>5
  <2> QED
    BY <1>5, <2>1, <2>2
<1>10. \A r \in Scans : found'[r] # "pending" => began'[r] # NotYet
  BY <1>1, <1>5 DEF ScanInv, ScansInOrder, NotYet
<1>11. ScansInOrder'
  <2>1. Claimed' = Claimed
    BY <1>1 DEF Claimed
  <2> QED
    BY <1>1, <1>5, <1>7, <1>8, <1>9, <1>10, <2>1 DEF ScanInv, ScansInOrder
<1>12. \A r \in HasRows : began'[r] = began[r]
  BY <1>1, <1>5 DEF ScanInv, ScansInOrder, HasRows
<1>13. HasRows' = HasRows /\ Completed' = Completed
  BY <1>1 DEF HasRows, Completed
<1>14. AnswerStands'
  BY <1>1, <1>12, <1>13, ScansStay DEF ScanInv
<1> QED
  BY <1>11, <1>14 DEF ScanInv

LEMMA CommitHolds == ASSUME ScanInv, NEW s \in Scans, CommitScan(s) PROVE ScanInv'
<1>1. /\ began[s] # NotYet /\ found[s] = "pending" /\ UNCHANGED <<status, began, answer>>
  BY DEF CommitScan
<1>2. PICK f \in {"nothing", "some"} : found' = [found EXCEPT ![s] = f]
  BY DEF CommitScan
<1>3. found \in [Scans -> {"pending", "nothing", "some"}]
  BY DEF ScanInv, ScansInOrder
<1>4. /\ found' \in [Scans -> {"pending", "nothing", "some"}] /\ found'[s] # "pending"
      /\ \A r \in Scans \ {s} : found'[r] = found[r]
  BY <1>2, <1>3
<1>5. ScansInOrder'
  <2>1. Claimed' = Claimed /\ Begun' = Begun
    BY <1>1 DEF Claimed, Begun
  <2> QED
    BY <1>1, <1>4, <2>1 DEF ScanInv, ScansInOrder
<1>6. HasRows \subseteq HasRows' /\ Completed' = Completed
  BY <1>1, <1>4 DEF HasRows, Completed
<1>7. AnswerStands'
  BY <1>1, <1>6, ScansStay DEF ScanInv
<1> QED
  BY <1>5, <1>7 DEF ScanInv

LEMMA EndHolds == ASSUME ScanInv, NEW s \in Scans, EndScan(s) PROVE ScanInv'
<1>1. /\ s \in Alive /\ UNCHANGED <<began, found, answer>>
      /\ \/ found[s] # "pending" /\ status' = [status EXCEPT ![s] = "success"]
         \/ found[s] = "pending" /\ status' = [status EXCEPT ![s] = "failed"]
  BY DEF EndScan
<1>2. status[s] \in {"running", "interrupted"}
  BY <1>1 DEF Alive
<1>3. status \in [Scans -> {"none", "running", "success", "failed", "interrupted"}]
  BY DEF ScanInv, ScansInOrder
<1>4. /\ status' \in [Scans -> {"none", "running", "success", "failed", "interrupted"}]
      /\ status'[s] \in {"success", "failed"}
      /\ status'[s] = "success" => found[s] # "pending"
      /\ \A r \in Scans \ {s} : status'[r] = status[r]
  BY <1>1, <1>3
<1>5. Claimed' = Claimed /\ Begun' = Begun /\ HasRows' = HasRows
  BY <1>1, <1>2, <1>4 DEF Claimed, Begun, HasRows
<1>6. ScansInOrder'
  BY <1>1, <1>4, <1>5 DEF ScanInv, ScansInOrder
<1>7. Completed \subseteq Completed'
  BY <1>2, <1>4 DEF Completed
<1>8. AnswerStands'
  BY <1>1, <1>5, <1>7, ScansStay DEF ScanInv
<1> QED
  BY <1>6, <1>8 DEF ScanInv

\* The scans stand while the endpoint reads.
LEMMA OrderKept ==
    ASSUME ScansInOrder, UNCHANGED <<status, began, found>> PROVE ScansInOrder'
<1>1. Claimed' = Claimed /\ Begun' = Begun
  BY DEF Claimed, Begun
<1> QED
  BY <1>1 DEF ScansInOrder

LEMMA OtherHolds ==
    ASSUME ScanInv, UNCHANGED <<status, began, found, answer>> PROVE ScanInv'
<1>1. ScansInOrder'
  BY OrderKept DEF ScanInv
<1>2. HasRows' = HasRows /\ Completed' = Completed
  BY DEF HasRows, Completed
<1>3. AnswerStands'
  BY <1>2, ScansStay DEF ScanInv
<1> QED
  BY <1>1, <1>3 DEF ScanInv

LEMMA RowsRead == ASSUME ScanInv, ReadRows PROVE ScanInv'
<1>1. /\ answer' = [Blank EXCEPT !.at = "run", !.visible = HasRows,
                                 !.row = NewestBy(HasRows, began)]
      /\ UNCHANGED <<status, began, found>>
  BY DEF ReadRows, scanVars
<1>2. /\ DOMAIN answer' = Fields /\ answer'.at = "run" /\ answer'.visible = HasRows
      /\ answer'.row = NewestBy(HasRows, began)
  BY <1>1, Zenon DEF Blank, Fields
<1>3. IsNewest(NewestBy(HasRows, began), HasRows, began)
  <2>1. CASE HasRows = {}
    BY <2>1, Zenon DEF IsNewest, NewestBy
  <2>2. CASE HasRows # {}
    <3>1. PICK b \in Nat : b = Cardinality(Begun)
      <4>1. IsFiniteSet(Scans)
        BY FS_Interval, ReportAssumption DEF Scans
      <4>2. Begun \subseteq Scans
        BY DEF Begun
      <4> QED
        BY <4>1, <4>2, FS_Subset, FS_CardinalityType
    <3>2. \A s \in HasRows : began[s] \in 0..b
      BY <3>1 DEF ScanInv, ScansInOrder, HasRows
    <3>3. \E n \in HasRows : /\ NewestBy(HasRows, began) = Known(n)
                             /\ \A r \in HasRows : began[r] <= began[n]
      BY <2>2, <3>2, NewestIs
    <3> QED
      BY <3>3, Zenon DEF IsNewest
  <2> QED
    BY <2>1, <2>2
<1>4. HasRows' = HasRows /\ began' = began
  BY <1>1 DEF HasRows
<1>5. AnswerStands'
  BY <1>2, <1>3, <1>4 DEF AnswerStands, Fields
<1>6. ScansInOrder'
  BY <1>1, OrderKept DEF ScanInv
<1> QED
  BY <1>5, <1>6 DEF ScanInv

LEMMA RunRead == ASSUME ScanInv, ReadRun PROVE ScanInv'
<1>1. /\ answer' = [answer EXCEPT !.at = "diagnostics", !.completed = Completed,
                                  !.run = NewestBy(Completed, ByStart)]
      /\ answer.at = "run" /\ UNCHANGED <<status, began, found>>
  BY DEF ReadRun, scanVars
<1>2. DOMAIN answer = Fields
  BY DEF ScanInv, AnswerStands
<1>3. /\ DOMAIN answer' = Fields /\ answer'.at = "diagnostics"
      /\ answer'.completed = Completed /\ answer'.run = NewestBy(Completed, ByStart)
      /\ answer'.visible = answer.visible /\ answer'.row = answer.row
  BY <1>1, <1>2, Zenon DEF Fields
<1>4. IsNewest(NewestBy(Completed, ByStart), Completed, ByStart)
  <2>1. CASE Completed = {}
    BY <2>1, Zenon DEF IsNewest, NewestBy
  <2>2. CASE Completed # {}
    <3>1. MaxScans \in Nat /\ \A s \in Completed : ByStart[s] \in 0..MaxScans
      BY ReportAssumption DEF Completed, ByStart, Scans
    <3>2. \E n \in Completed : /\ NewestBy(Completed, ByStart) = Known(n)
                               /\ \A r \in Completed : ByStart[r] <= ByStart[n]
      BY <2>2, <3>1, NewestIs
    <3> QED
      BY <3>2, Zenon DEF IsNewest
  <2> QED
    BY <2>1, <2>2
<1>5. HasRows' = HasRows /\ Completed' = Completed /\ began' = began /\ ByStart' = ByStart
  BY <1>1 DEF HasRows, Completed, ByStart
<1>6. answer.visible \subseteq HasRows /\ IsNewest(answer.row, answer.visible, began)
  BY <1>1 DEF ScanInv, AnswerStands
<1>7. AnswerStands'
  BY <1>3, <1>4, <1>5, <1>6 DEF AnswerStands, Fields
<1>8. ScansInOrder'
  BY <1>1, OrderKept DEF ScanInv
<1> QED
  BY <1>7, <1>8 DEF ScanInv

LEMMA DiagnosticsRead == ASSUME ScanInv, ReadDiagnostics PROVE ScanInv'
<1>1. PICK age : answer' = [answer EXCEPT !.at = "health", !.age = age]
  BY Zenon DEF ReadDiagnostics
<1>2. answer.at = "diagnostics" /\ UNCHANGED <<status, began, found>>
  BY DEF ReadDiagnostics, scanVars
<1>3. DOMAIN answer = Fields
  BY DEF ScanInv, AnswerStands
<1>4. /\ DOMAIN answer' = Fields /\ answer'.at = "health"
      /\ answer'.completed = answer.completed /\ answer'.run = answer.run
      /\ answer'.visible = answer.visible /\ answer'.row = answer.row
  BY <1>1, <1>3, Zenon DEF Fields
<1>5. HasRows' = HasRows /\ Completed' = Completed /\ began' = began /\ ByStart' = ByStart
  BY <1>2 DEF HasRows, Completed, ByStart
<1>6. /\ answer.visible \subseteq HasRows /\ IsNewest(answer.row, answer.visible, began)
      /\ answer.completed \subseteq Completed
      /\ IsNewest(answer.run, answer.completed, ByStart)
  BY <1>2 DEF ScanInv, AnswerStands
<1>7. AnswerStands'
  BY <1>4, <1>5, <1>6 DEF AnswerStands, Fields
<1>8. ScansInOrder'
  BY <1>2, OrderKept DEF ScanInv
<1> QED
  BY <1>7, <1>8 DEF ScanInv

\* The verdict of a running pipeline rests on a young scan, and on a completed one.
LEMMA HealthRead == ASSUME ScanInv, ReadHealth PROVE ScanInv'
<1>1. PICK cause :
        /\ answer' = [answer EXCEPT !.at = "told", !.cause = cause]
        /\ cause = IF ~ RunsScheduledJobs THEN "serving_frozen_snapshot"
                   ELSE IF Stalled THEN "pipeline_did_not_run"
                   ELSE IF ~ UsableScan(answer.age) THEN "stale_or_incomplete"
                   ELSE "zero_opportunities"
  BY Zenon DEF ReadHealth
<1>2. answer.at = "health" /\ UNCHANGED <<status, began, found>>
  BY DEF ReadHealth, scanVars
<1>3. DOMAIN answer = Fields
  BY DEF ScanInv, AnswerStands
<1>4. /\ DOMAIN answer' = Fields /\ answer'.at = "told" /\ answer'.cause = cause
      /\ answer'.completed = answer.completed /\ answer'.run = answer.run
      /\ answer'.visible = answer.visible /\ answer'.row = answer.row
      /\ answer'.age = answer.age
  BY <1>1, <1>3, Zenon DEF Fields
<1>5. HasRows' = HasRows /\ Completed' = Completed /\ began' = began /\ ByStart' = ByStart
  BY <1>2 DEF HasRows, Completed, ByStart
<1>6. /\ answer.visible \subseteq HasRows /\ IsNewest(answer.row, answer.visible, began)
      /\ answer.completed \subseteq Completed
      /\ IsNewest(answer.run, answer.completed, ByStart)
  BY <1>2 DEF ScanInv, AnswerStands
<1>7. ASSUME cause = "zero_opportunities"
      PROVE  answer.age.found /\ answer.age.is <= HardStale /\ Completed # {}
  <2>1. ~Stalled /\ UsableScan(answer.age)
    BY <1>1, <1>7
  <2>2. answer.age.found /\ answer.age.is <= HardStale
    BY <2>1, Zenon DEF UsableScan
  <2>3. Completed # {}
    BY <2>1 DEF Stalled
  <2> QED
    BY <2>2, <2>3, Zenon
<1>8. answer'.cause = "zero_opportunities" =>
        answer'.age.found /\ answer'.age.is <= HardStale /\ Completed' # {}
  BY <1>4, <1>5, <1>7, Zenon
<1>9. AnswerStands'
  BY <1>4, <1>5, <1>6, <1>8 DEF AnswerStands, Fields
<1>10. ScansInOrder'
  BY <1>2, OrderKept DEF ScanInv
<1> QED
  BY <1>9, <1>10 DEF ScanInv

LEMMA ScanStart == ASSUME ReportInit PROVE ScanInv
<1>1. /\ status = [s \in Scans |-> "none"] /\ began = [s \in Scans |-> NotYet]
      /\ found = [s \in Scans |-> "pending"] /\ answer = Blank
  BY DEF ReportInit
<1>2. Claimed = {} /\ Begun = {}
  BY <1>1 DEF Claimed, Begun
<1>3. 0 \in Nat /\ Claimed = 1..0
  BY <1>2
<1>4. Cardinality(Begun) = 0
  BY <1>2, FS_EmptySet
<1>5. ScansInOrder
  BY <1>1, <1>3, <1>4 DEF ScansInOrder, NotYet
<1>6. DOMAIN answer = Fields /\ answer.at = "rows"
  BY <1>1, Zenon DEF Blank, Fields
<1>7. AnswerStands
  BY <1>6 DEF AnswerStands
<1> QED
  BY <1>5, <1>7 DEF ScanInv

LEMMA ScanStep == ASSUME ScanInv, [ReportNext]_reportVars PROVE ScanInv'
<1>1. ASSUME NEW s \in Scans, ClaimScan(s) PROVE ScanInv'
  BY <1>1, ClaimHolds
<1>2. ASSUME NEW s \in Scans, BeginScan(s) PROVE ScanInv'
  BY <1>2, BeginHolds
<1>3. ASSUME NEW s \in Scans, CommitScan(s) PROVE ScanInv'
  BY <1>3, CommitHolds
<1>4. ASSUME NEW s \in Scans, EndScan(s) PROVE ScanInv'
  BY <1>4, EndHolds
<1>5. ASSUME NEW s \in Scans, DieScan(s) PROVE ScanInv'
  BY <1>5, OtherHolds DEF DieScan
<1>6. CASE TickReport
  BY <1>6, OtherHolds DEF TickReport, scanVars
<1>7. CASE ReadRows
  BY <1>7, RowsRead
<1>8. CASE ReadRun
  BY <1>8, RunRead
<1>9. CASE ReadDiagnostics
  BY <1>9, DiagnosticsRead
<1>10. CASE ReadHealth
  BY <1>10, HealthRead
<1>11. CASE UNCHANGED reportVars
  BY <1>11, OtherHolds DEF reportVars
<1> QED
  BY <1>1, <1>2, <1>3, <1>4, <1>5, <1>6, <1>7, <1>8, <1>9, <1>10, <1>11 DEF ReportNext

\* If the list is not called empty, its scan is the newest completed one, or none is.
LEMMA ListedIsNewest == ASSUME ScanInv PROVE GoneStaysGone
<1> SUFFICES ASSUME Told, Listed(answer).found, NEW s \in answer.completed
             PROVE  s <= Listed(answer).is
  BY DEF GoneStaysGone
<1>1. ~FoundNothing(answer) /\ Listed(answer) = answer.row
  BY KnownParts, Zenon DEF Listed
<1>2. answer.completed \subseteq Completed /\ IsNewest(answer.run, answer.completed, ByStart)
  BY DEF ScanInv, AnswerStands, Told
<1>3. PICK n \in answer.completed :
        answer.run = Known(n) /\ \A r \in answer.completed : ByStart[r] <= ByStart[n]
  BY <1>2, Zenon DEF IsNewest
<1>4. answer.row = Known(n)
  BY <1>1, <1>3, KnownParts, Zenon DEF FoundNothing
<1>5. Listed(answer).is = n
  BY <1>1, <1>4, KnownParts, Zenon
<1>6. s \in Scans /\ n \in Scans /\ ByStart[s] <= ByStart[n]
  BY <1>2, <1>3 DEF Completed
<1> QED
  BY <1>5, <1>6 DEF ByStart

\* Where the newest completed scan is not the newest with rows, it found none, or
\* another began after it.
LEMMA NothingIsEarned == ASSUME ScanInv PROVE EmptyIsEarned
<1> SUFFICES ASSUME Told, FoundNothing(answer), NEW scan, scan = answer.run.is,
                    found[scan] # "nothing", scan \in answer.visible
             PROVE  /\ answer.run.found
                    /\ answer.row.found /\ Unaccounted(answer.row.is)
  <2>1. Told /\ FoundNothing(answer) => answer.run.found
    BY Zenon DEF FoundNothing
  <2> QED
    BY <2>1, Zenon DEF EmptyIsEarned
<1>1. answer.run.found /\ answer.run # answer.row
  BY Zenon DEF FoundNothing
<1>2. /\ answer.visible \subseteq HasRows /\ IsNewest(answer.row, answer.visible, began)
      /\ answer.completed \subseteq Completed
      /\ IsNewest(answer.run, answer.completed, ByStart)
  BY DEF ScanInv, AnswerStands, Told
<1>3. answer.run = Known(scan)
  <2>1. CASE answer.completed = {} /\ answer.run = Unknown
    BY <2>1, <1>1, KnownParts, Zenon
  <2>2. ASSUME NEW n, answer.run = Known(n) PROVE answer.run = Known(scan)
    BY <2>2, KnownParts, Zenon
  <2> QED
    BY <1>2, <2>1, <2>2, Zenon DEF IsNewest
<1>4. PICK n \in answer.visible :
        answer.row = Known(n) /\ \A r \in answer.visible : began[r] <= began[n]
  BY <1>2, Zenon DEF IsNewest
<1>5. n # scan /\ answer.row.found /\ answer.row.is = n
  BY <1>1, <1>3, <1>4, KnownParts, Zenon
<1>6. n \in Scans /\ scan \in Scans /\ found[scan] = "some" /\ began[scan] <= began[n]
  BY <1>2, <1>4 DEF HasRows
<1>7. began[scan] # began[n]
  BY <1>5, <1>6 DEF ScanInv, ScansInOrder
<1>8. began[n] > began[scan]
  BY <1>6, <1>7 DEF ScanInv, ScansInOrder
<1>9. Unaccounted(answer.row.is)
  BY <1>5, <1>8, Zenon DEF Unaccounted
<1> QED
  BY <1>1, <1>5, <1>9

\* Of the scan endpoint (arbitrage.py _latest_batch, health.py
\* classify_empty_result): a completed scan is never answered with the rows of an
\* older one; "found nothing" is said only of a scan that found nothing, or whose
\* rows came between the reads, or that another one overlapped; and an empty list is
\* called a finding only of a scan young enough, by however many runs that die,
\* lose their lease or commit while the endpoint reads.
THEOREM ScansAreTold == ReportSpec => []ScansAreReportedTruly
<1>1. ReportInit => ScanInv
  BY ScanStart
<1>2. ScanInv /\ [ReportNext]_reportVars => ScanInv'
  BY ScanStep
<1>3. ScanInv => ScansAreReportedTruly
  <2> SUFFICES ASSUME ScanInv PROVE ScansAreReportedTruly
    OBVIOUS
  <2>1. FindingIsFresh
    BY Zenon DEF FindingIsFresh, Told, ScanInv, AnswerStands
  <2> QED
    BY <2>1, ListedIsNewest, NothingIsEarned DEF ScansAreReportedTruly
<1> QED
  BY <1>1, <1>2, <1>3, PTL DEF ReportSpec

-----------------------------------------------------------------------------
(* The prices told of a market. *)

\* What a view has read: the newest of the books it knew, and of that what was left.
ViewStands ==
    /\ view.step \in {"row", "book"} => view.kind \in {"quote", "cost"}
    /\ view.step = "book" => view.book = Newest(view.known)
    /\ view.step = "told" /\ view.kind \in {"quote", "cost"} =>
          view.levels \subseteq Newest(view.known)
    /\ Answered("quote") => view.answer = QuoteOf(view.row, view.levels)
    /\ Answered("cost") => view.answer = CostOf(view.row, view.levels)

\* What is memoised is what would be computed, in a process that serves one file.
MemoStands == sector # {} => serving = "snapshot" /\ up /\ sector = {SectorNow}

QuoteInv == ViewStands /\ MemoStands /\ SectorIsCurrent

\* The writers change no view, and nothing that a memo was made of.
LEMMA TablesHold ==
    ASSUME QuoteInv, Writable, UNCHANGED <<serving, up, sector, view>>
    PROVE  QuoteInv'
  <1>1. sector = {} /\ sector' = {}
    BY DEF QuoteInv, MemoStands, Writable
  <1>2. ViewStands' /\ SectorIsCurrent'
    BY DEF QuoteInv, ViewStands, SectorIsCurrent, Answered, QuoteOf, CostOf, SummarySpread,
       Spread, Newest
  <1>. QED
    BY <1>1, <1>2 DEF QuoteInv, MemoStands

\* The tables decide what a sector costs.
LEMMA SectorStays == ASSUME UNCHANGED tables PROVE SectorNow' = SectorNow
  <1>1. \A m : /\ SightingsOf(m)' = SightingsOf(m) /\ Books(m)' = Books(m)
               /\ HasRow(m)' = HasRow(m) /\ Row(m)' = Row(m)
    BY DEF tables, Books, HasRow, Row, SightingsOf
  <1>2. \A m : CostNow(m)' = CostNow(m)
    BY <1>1 DEF CostNow, CostOf, Newest
  <1>3. Priced' = Priced
    BY <1>1, <1>2 DEF Priced
  <1>. QED
    BY <1>2, <1>3 DEF SectorNow

\* A view that reads leaves the memo and what it was made of.
LEMMA MemoHolds == ASSUME QuoteInv, UNCHANGED <<serving, up, sector, tables>> PROVE MemoStands'
  BY SectorStays DEF QuoteInv, MemoStands

LEMMA RowHolds ==
    ASSUME QuoteInv, NEW m, NEW kind \in {"quote", "cost"}, ReadRow(m, kind)
    PROVE  QuoteInv'
  <1>1. view'.step = "row" /\ view'.kind = kind
    BY DEF ReadRow
  <1>. QED
    BY <1>1, MemoHolds DEF ReadRow, QuoteInv, ViewStands, SectorIsCurrent, Answered

LEMMA BookHolds == ASSUME QuoteInv, ReadBook PROVE QuoteInv'
  <1>1. /\ view'.step = "book" /\ view'.book = Newest(view'.known)
        /\ view'.kind = view.kind /\ view.kind \in {"quote", "cost"}
    BY DEF ReadBook, Newest, QuoteInv, ViewStands
  <1>. QED
    BY <1>1, MemoHolds DEF ReadBook, QuoteInv, ViewStands, SectorIsCurrent, Answered, Newest

LEMMA LevelsHold ==
    ASSUME QuoteInv, ReadLevels
    PROVE  QuoteInv'
  <1>1. Levels \subseteq Newest(view.known)
    BY DEF ReadLevels, Levels, QuoteInv, ViewStands
  <1>2. /\ view'.step = "told" /\ view'.kind = view.kind /\ view'.levels = Levels
        /\ view'.row = view.row /\ view'.known = view.known
        /\ view.kind \in {"quote", "cost"}
        /\ view.kind = "quote" => view'.answer = QuoteOf(view.row, Levels)
        /\ view.kind = "cost" => view'.answer = CostOf(view.row, Levels)
    BY DEF ReadLevels, QuoteInv, ViewStands
  <1>3. /\ QuoteOf(view.row, view.levels)' = QuoteOf(view'.row, view'.levels)
        /\ CostOf(view.row, view.levels)' = CostOf(view'.row, view'.levels)
        /\ Newest(view.known)' = Newest(view'.known)
    BY DEF Newest, QuoteOf, CostOf, SummarySpread, Spread
  <1>4. ViewStands' /\ SectorIsCurrent'
    BY <1>1, <1>2, <1>3 DEF ViewStands, SectorIsCurrent, Answered
  <1>. QED
    BY <1>4, MemoHolds DEF ReadLevels, QuoteInv

LEMMA SectorHolds == ASSUME QuoteInv, TellSector PROVE QuoteInv'
  <1>1. SectorNow' = SectorNow
    BY SectorStays DEF TellSector
  <1>2. CASE Cacheable /\ sector # {}
    <2>1. (CHOOSE s \in sector : TRUE) = SectorNow
      BY <1>2 DEF QuoteInv, MemoStands
    <2>2. /\ view' = [step |-> "told", kind |-> "sector", answer |-> SectorNow, fresh |-> TRUE]
          /\ sector' = {SectorNow} /\ up /\ up' = up /\ serving' = serving
          /\ serving = "snapshot"
      BY <1>2, <2>1 DEF TellSector, Cacheable
    <2>3. MemoStands'
      BY <1>1, <2>2 DEF MemoStands
    <2>4. ViewStands' /\ SectorIsCurrent'
      BY <2>2 DEF ViewStands, SectorIsCurrent, Answered
    <2>. QED
      BY <2>3, <2>4 DEF QuoteInv
  <1>3. CASE ~(Cacheable /\ sector # {})
    <2>1. /\ view' = [step |-> "told", kind |-> "sector", answer |-> SectorNow, fresh |-> TRUE]
          /\ sector' = IF Cacheable THEN {SectorNow} ELSE sector
          /\ up /\ up' = up /\ serving' = serving
      BY <1>3 DEF TellSector
    <2>2. MemoStands'
      BY <1>1, <2>1 DEF QuoteInv, MemoStands, Cacheable
    <2>. QED
      BY <2>1, <2>2 DEF QuoteInv, ViewStands, SectorIsCurrent, Answered
  <1>. QED
    BY <1>2, <1>3

LEMMA RestartHolds == ASSUME QuoteInv, Restart PROVE QuoteInv'
  BY DEF Restart, Idle, QuoteInv, ViewStands, MemoStands, SectorIsCurrent, Answered

LEMMA StepQuote == ASSUME QuoteInv, [QuoteNext]_quoteVars PROVE QuoteInv'
  <1>1. ASSUME NEW m \in QuotedMarkets, StoreListing(m) \/ StoreBook(m) PROVE QuoteInv'
    BY <1>1, TablesHold DEF StoreListing, StoreBook, Store
  <1>2. CASE Prune
    BY <1>2, TablesHold DEF Prune
  <1>3. CASE ReadBook \/ ReadLevels \/ TellSector \/ Restart
    BY <1>3, BookHolds, LevelsHold, SectorHolds, RestartHolds
  <1>4. ASSUME NEW m \in QuotedMarkets, NEW k \in {"quote", "cost"}, ReadRow(m, k) PROVE QuoteInv'
    BY <1>4, RowHolds
  <1>5. CASE UNCHANGED quoteVars
    <2>1. UNCHANGED <<serving, up, sector, tables, view>>
      BY <1>5 DEF quoteVars, tables
    <2>. QED
      BY <2>1, MemoHolds DEF QuoteInv, ViewStands, SectorIsCurrent, Answered, QuoteOf, CostOf,
         SummarySpread, Spread, Newest
  <1>. QED
    BY <1>1, <1>2, <1>3, <1>4, <1>5 DEF QuoteNext

LEMMA QuotesToldTruly == ASSUME QuoteInv PROVE PricesAreObservations
  <1>1. ASSUME Answered("quote") PROVE QuoteIsOneSighting
    <2>1. view.answer = QuoteOf(view.row, view.levels) /\ view.levels \subseteq Newest(view.known)
      BY <1>1 DEF QuoteInv, ViewStands, Answered
    <2>2. CASE view.levels = {}
      <3>1. /\ view.answer.source # "orderbook" /\ view.answer.at = view.row.at
            /\ view.answer.ask = view.row.ask /\ view.answer.bid = view.row.bid
            /\ view.answer.spread = Spread(view.row)
        BY <2>1, <2>2 DEF QuoteOf, SummarySpread
      <3>. QED
        BY <2>2, <3>1 DEF QuoteIsOneSighting, Source
    <2>3. CASE view.levels # {}
      <3>1. PICK b \in view.levels :
              view.answer = [source |-> "orderbook", at |-> b.at, ask |-> b.ask, bid |-> b.bid,
                             spread |-> Spread(b)]
        BY <2>1, <2>3 DEF QuoteOf
      <3>2. \A c \in view.known : c.at <= view.answer.at
        BY <2>1, <3>1 DEF Newest
      <3>. QED
        BY <3>1, <3>2 DEF QuoteIsOneSighting, Source
    <2>. QED
      BY <2>2, <2>3
  <1>2. ASSUME Answered("cost"), view.answer.source # "none" PROVE CostIsDated
    <2>1. view.answer = CostOf(view.row, view.levels)
      BY <1>2 DEF QuoteInv, ViewStands
    <2>2. CASE view.levels = {}
      <3>1. view.answer.at = view.row.at /\ view.answer.ask = view.row.ask
        BY <2>1, <2>2 DEF CostOf
      <3>. QED
        BY <3>1 DEF CostIsDated, Source
    <2>3. CASE view.levels # {}
      <3>1. PICK b \in view.levels : b = CHOOSE c \in view.levels : TRUE
        BY <2>3
      <3>2. /\ view.answer.at = b.at
            /\ view.answer.ask = IF b.ask # NoPrice THEN b.ask ELSE view.row.ask
        BY <2>1, <2>3, <3>1 DEF CostOf
      <3>. QED
        BY <3>1, <3>2 DEF CostIsDated, Source
    <2>. QED
      BY <2>2, <2>3
  <1>. QED
    BY <1>1, <1>2 DEF PricesAreObservations, QuoteIsOneSighting, CostIsDated, QuoteInv

\* However sightings are stored and pruned between its reads, and wherever it is
\* served, a quote is of one sighting and none older than a book that was on file, a
\* cost is of the sighting that dates it but for the gap named, and what is memoised is
\* what would be computed (quotes.py, routers/cost.py).
THEOREM PricesAreTold == QuoteSpec => []PricesAreObservations
  <1>1. QuoteInit => QuoteInv
    BY DEF QuoteInit, Idle, QuoteInv, ViewStands, MemoStands, SectorIsCurrent, Answered
  <1>. QED
    BY <1>1, StepQuote, QuotesToldTruly, PTL DEF QuoteSpec

-----------------------------------------------------------------------------
(* What is told of the rankings. *)

\* The newest of the estimates of a market is one of them.
LEMMA LatestIsThere ==
    ASSUME NEW es, NEW m, NEW b \in Nat, \A e \in es : e.made \in 0..b, \E e \in es : e.of = m
    PROVE  /\ LatestOf(m, es) \in es /\ LatestOf(m, es).of = m
           /\ \A e \in es : e.of = m => e.made <= LatestOf(m, es).made
  <1> DEFINE gaps == {b - e.made : e \in {x \in es : x.of = m}}
  <1>1. gaps \subseteq Nat /\ gaps # {}
    OBVIOUS
  <1>2. PICK g \in gaps : \A y \in gaps : g <= y
    BY <1>1, LeastExists
  <1>3. PICK n \in es : n.of = m /\ g = b - n.made
    OBVIOUS
  <1>4. \A e \in es : e.of = m => e.made <= n.made
    <2> TAKE e \in es
    <2>1. e.of = m => b - n.made <= b - e.made
      BY <1>2, <1>3
    <2>2. e.made \in 0..b /\ n.made \in 0..b
      OBVIOUS
    <2>. QED
      BY <2>1, <2>2
  <1>. HIDE DEF gaps
  <1>. QED
    BY <1>3, <1>4, Zenon DEF LatestOf

RecFields == {"batch", "nth", "market", "horizon", "state", "cites"}

Batches == {r.batch : r \in recs}

\* The markets that a batch recommends at a horizon.
MarketsAt(b, h) == {r.market : r \in {x \in recs : x.batch = b /\ x.horizon = h}}

RankTypes ==
    /\ runs \in Nat
    /\ statusOf \in [Candidates -> {"open", "closed", "settled"}]
    /\ believed \in [Candidates -> {"unpublished", "open", "closed", "settled"}]
    /\ DOMAIN ranker = Rankers
    /\ \A e \in estimates : e.made \in 0..runs
    /\ \A r \in recs : DOMAIN r = RecFields /\ r.market \in Candidates

\* A run is one ranker's, and what a ranker has scored is of its run.
RunsDiffer ==
    /\ \A w \in Rankers : ranker[w] # Free =>
          /\ ranker[w].run \in 1..runs /\ ranker[w].run \notin Batches
          /\ \A e \in ranker[w].scored : e.of \in Candidates /\ e.made = ranker[w].run
    /\ \A v, w \in Rankers : ranker[v] # Free /\ ranker[w] # Free /\ ranker[v].run = ranker[w].run
          => v = w
    /\ Batches \subseteq 1..runs

\* A batch has one number, at most TOP_N rows at a horizon, and one of a market.
BatchesAreBatches ==
    /\ \A r, s \in recs : r.batch = s.batch /\ r.market = s.market => r = s
    /\ \A r \in recs : r.horizon = HorizonOf[r.market] /\ r.nth \in 1..BatchesWithRows
    /\ \A r, s \in recs : r.nth = s.nth => r.batch = s.batch
    /\ \A b, h : IsFiniteSet(MarketsAt(b, h)) /\ Cardinality(MarketsAt(b, h)) <= TOP_N

\* What may be listed was open when it was last looked at.
ListedWasOpen ==
    /\ \A r \in recs : believed[r.market] # "unpublished"
    /\ \A r \in recs : r.batch \in LatestBatch /\ r.state \in Actionable
          => believed[r.market] = "open"

\* A run estimates a market once, and what is on file is of runs that are over.
OneEstimateARun ==
    /\ \A e \in estimates : e.of \in Candidates
    /\ \A e, d \in estimates : e.of = d.of /\ e.made = d.made => e = d
    /\ \A w \in Rankers : ranker[w] # Free =>
          /\ \A e, d \in ranker[w].scored : e.of = d.of => e = d
          /\ \A e \in estimates : e.made # ranker[w].run

RankInv ==
    /\ RankTypes /\ RunsDiffer /\ OneEstimateARun
    /\ BatchesAreBatches /\ ListedWasOpen /\ CitesItsEstimate

LEMMA RecsStay ==
    ASSUME RankInv, UNCHANGED <<recs, believed>>
    PROVE  BatchesAreBatches' /\ ListedWasOpen' /\ CitesItsEstimate' /\ Batches' = Batches
  <1>1. Batches' = Batches /\ BatchesWithRows' = BatchesWithRows
    BY DEF Batches, BatchesWithRows
  <1>2. LatestBatch' = LatestBatch
    BY <1>1 DEF LatestBatch
  <1>3. \A b, h : MarketsAt(b, h)' = MarketsAt(b, h)
    BY DEF MarketsAt
  <1>. QED
    BY <1>1, <1>2, <1>3 DEF RankInv, BatchesAreBatches, ListedWasOpen, CitesItsEstimate

LEMMA MoveHolds == ASSUME RankInv, NEW m \in Candidates, MoveMarket(m) PROVE RankInv'
  <1>1. RankTypes'
    BY DEF MoveMarket, RankInv, RankTypes
  <1>2. RunsDiffer'
    BY RecsStay DEF MoveMarket, RankInv, RunsDiffer
  <1>3. OneEstimateARun'
    BY DEF MoveMarket, RankInv, OneEstimateARun
  <1>. QED
    BY <1>1, <1>2, <1>3, RecsStay DEF MoveMarket, RankInv

LEMMA ScoreHolds == ASSUME RankInv, NEW w \in Rankers, Score(w) PROVE RankInv'
  <1> DEFINE scoreable == {m \in Candidates : statusOf[m] = "open" /\ edge[m] # "unpriced"}
             Scored(S, T, U) == {[of |-> m, made |-> runs + 1, independent |-> m \in T,
                                  apart |-> m \in U] : m \in S}
  <1>0. PICK independent \in SUBSET scoreable : \E apart \in SUBSET independent :
          ranker' = [ranker EXCEPT ![w] = [run |-> runs + 1,
                                           scored |-> Scored(scoreable, independent, apart)]]
    BY Zenon DEF Score
  <1>1. PICK apart \in SUBSET independent :
          ranker' = [ranker EXCEPT ![w] = [run |-> runs + 1,
                                           scored |-> Scored(scoreable, independent, apart)]]
    BY <1>0
  <1> DEFINE scored == Scored(scoreable, independent, apart)
  <1>2. \A e \in scored : e.of \in Candidates /\ e.made = runs + 1
    <2> TAKE e \in scored
    <2>1. PICK m \in scoreable : e = [of |-> m, made |-> runs + 1,
                                     independent |-> m \in independent, apart |-> m \in apart]
      BY Zenon
    <2>. QED
      BY <2>1
  <1>9. \A e, d \in scored : e.of = d.of => e = d
    <2> TAKE e, d \in scored
    <2>1. PICK m \in scoreable : e = [of |-> m, made |-> runs + 1,
                                     independent |-> m \in independent, apart |-> m \in apart]
      BY Zenon
    <2>2. PICK n \in scoreable : d = [of |-> n, made |-> runs + 1,
                                     independent |-> n \in independent, apart |-> n \in apart]
      BY Zenon
    <2>. QED
      BY <2>1, <2>2
  <1>. HIDE DEF scored
  <1>3. /\ runs' = runs + 1 /\ runs \in Nat /\ DOMAIN ranker = Rankers
        /\ UNCHANGED <<statusOf, estimates, recs, believed>>
    BY DEF Score, RankInv, RankTypes
  <1>4. /\ ranker'[w] = [run |-> runs + 1, scored |-> scored]
        /\ DOMAIN ranker' = Rankers
        /\ \A v \in Rankers : v # w => ranker'[v] = ranker[v]
    <2>1. ranker' = [ranker EXCEPT ![w] = [run |-> runs + 1, scored |-> scored]]
      BY <1>1 DEF scored
    <2>. QED
      BY <1>3, <2>1
  <1>5. RankTypes'
    BY <1>3, <1>4 DEF RankInv, RankTypes
  <1>6. RunsDiffer'
    <2>1. /\ ranker'[w].run = runs + 1 /\ runs + 1 \notin 1..runs /\ 1..runs \subseteq 1..(runs + 1)
          /\ ranker'[w].scored = scored /\ runs + 1 \in 1..(runs + 1)
      BY <1>3, <1>4
    <2>2. Batches \subseteq 1..runs /\ Batches' = Batches
      BY <1>3, RecsStay DEF RankInv, RunsDiffer
    <2>3. \A v \in Rankers : v # w /\ ranker'[v] # Free => ranker'[v].run \in 1..runs
      BY <1>4 DEF RankInv, RunsDiffer
    <2>4. \A v \in Rankers : ranker'[v] # Free =>
             /\ ranker'[v].run \in 1..(runs + 1) /\ ranker'[v].run \notin Batches
             /\ \A e \in ranker'[v].scored : e.of \in Candidates /\ e.made = ranker'[v].run
      <3> TAKE v \in Rankers
      <3>1. CASE v = w
        BY <1>2, <2>1, <2>2, <3>1
      <3>2. CASE v # w
        BY <1>4, <2>1, <3>2 DEF RankInv, RunsDiffer
      <3>. QED
        BY <3>1, <3>2
    <2>5. \A u, v \in Rankers :
             ranker'[u] # Free /\ ranker'[v] # Free /\ ranker'[u].run = ranker'[v].run => u = v
      <3> TAKE u, v \in Rankers
      <3>1. CASE u = w \/ v = w
        BY <2>1, <2>3, <3>1
      <3>2. CASE u # w /\ v # w
        BY <1>4, <3>2 DEF RankInv, RunsDiffer
      <3>. QED
        BY <3>1, <3>2
    <2>. QED
      BY <1>3, <2>1, <2>2, <2>4, <2>5 DEF RunsDiffer
  <1>7. OneEstimateARun'
    <2>1. \A e \in estimates : e.made # runs + 1
      BY <1>3 DEF RankInv, RankTypes
    <2>2. ASSUME NEW v \in Rankers, ranker'[v] # Free
          PROVE  /\ \A e, d \in ranker'[v].scored : e.of = d.of => e = d
                 /\ \A e \in estimates : e.made # ranker'[v].run
      <3>1. CASE v = w
        BY <1>4, <1>9, <2>1, <3>1
      <3>2. CASE v # w
        BY <1>4, <2>2, <3>2 DEF RankInv, OneEstimateARun
      <3>. QED
        BY <3>1, <3>2
    <2>. QED
      BY <1>3, <2>2 DEF RankInv, OneEstimateARun
  <1>. QED
    BY <1>3, <1>5, <1>6, <1>7, RecsStay DEF RankInv

LEMMA AbortHolds == ASSUME RankInv, NEW w \in Rankers, AbortRanking(w) PROVE RankInv'
  <1>1. RankTypes'
    BY DEF AbortRanking, RankInv, RankTypes
  <1>2. RunsDiffer'
    <2>1. ranker'[w] = Free /\ \A v \in Rankers : v # w => ranker'[v] = ranker[v]
      BY DEF AbortRanking, RankInv, RankTypes
    <2>. QED
      BY <2>1, RecsStay DEF AbortRanking, RankInv, RunsDiffer
  <1>3. OneEstimateARun'
    <2>1. ranker'[w] = Free /\ \A v \in Rankers : v # w => ranker'[v] = ranker[v]
      BY DEF AbortRanking, RankInv, RankTypes
    <2>. QED
      BY <2>1 DEF AbortRanking, RankInv, OneEstimateARun
  <1>. QED
    BY <1>1, <1>2, <1>3, RecsStay DEF AbortRanking, RankInv

LEMMA SettleHolds == ASSUME RankInv, SettleAndRefresh PROVE RankInv'
  <1> DEFINE St(done) == [m \in Candidates |-> IF m \in done THEN "settled" ELSE statusOf[m]]
  <1>0. PICK done \in SUBSET {m \in Candidates : statusOf[m] = "closed"} :
          /\ statusOf' = St(done)
          /\ recs' = {IF r.state = "settled" THEN r
                      ELSE [r EXCEPT !.state = StateOf(r.market, St(done))] : r \in recs}
          /\ believed' = [m \in Candidates |->
               IF believed[m] = "unpublished" THEN "unpublished" ELSE St(done)[m]]
    BY Zenon DEF SettleAndRefresh
  <1>1. PICK st :
          /\ st = [m \in Candidates |-> IF m \in done THEN "settled" ELSE statusOf[m]]
          /\ statusOf' = st
          /\ recs' = {IF r.state = "settled" THEN r
                      ELSE [r EXCEPT !.state = StateOf(r.market, st)] : r \in recs}
          /\ believed' = [m \in Candidates |->
               IF believed[m] = "unpublished" THEN "unpublished" ELSE st[m]]
    BY <1>0, Zenon
  <1>2. /\ st \in [Candidates -> {"open", "closed", "settled"}]
        /\ UNCHANGED <<estimates, ranker, runs>>
    BY <1>1 DEF SettleAndRefresh, RankInv, RankTypes
  <1> DEFINE F(r) == IF r.state = "settled" THEN r
                     ELSE [r EXCEPT !.state = StateOf(r.market, st)]
  <1>3. \A r \in recs :
          /\ F(r) \in recs' /\ DOMAIN F(r) = RecFields /\ F(r).market \in Candidates
          /\ F(r).batch = r.batch /\ F(r).nth = r.nth /\ F(r).market = r.market
          /\ F(r).horizon = r.horizon /\ F(r).cites = r.cites
          /\ r.market \in Candidates
          /\ F(r).state \in Actionable => st[r.market] = "open"
    <2> TAKE r \in recs
    <2>1. F(r) \in recs' /\ DOMAIN r = RecFields /\ r.market \in Candidates
      BY <1>1 DEF RankInv, RankTypes
    <2>2. CASE r.state = "settled"
      BY <2>1, <2>2 DEF Actionable
    <2>3. CASE r.state # "settled"
      <3>1. F(r) = [r EXCEPT !.state = StateOf(r.market, st)]
        BY <2>3
      <3>2. StateOf(r.market, st) \in Actionable => st[r.market] = "open"
        BY <1>2, <2>1 DEF StateOf, Actionable
      <3>. QED
        BY <2>1, <3>1, <3>2 DEF RecFields
    <2>. QED
      BY <2>2, <2>3
  <1>4. \A q \in recs' : \E r \in recs : q = F(r)
    BY <1>1
  <1>. HIDE DEF F
  <1>5. Batches' = Batches /\ BatchesWithRows' = BatchesWithRows
    <2>1. Batches' = Batches
      BY <1>3, <1>4 DEF Batches
    <2>. QED
      BY <2>1 DEF Batches, BatchesWithRows
  <1>6. LatestBatch' = LatestBatch
    BY <1>3, <1>4, <1>5 DEF LatestBatch
  <1>7. \A b, h : MarketsAt(b, h)' = MarketsAt(b, h)
    BY <1>3, <1>4 DEF MarketsAt
  <1>8. RankTypes'
    <2>1. believed' \in [Candidates -> {"unpublished", "open", "closed", "settled"}]
      BY <1>1, <1>2
    <2>2. \A q \in recs' : DOMAIN q = RecFields /\ q.market \in Candidates
      BY <1>3, <1>4
    <2>. QED
      BY <1>1, <1>2, <2>1, <2>2 DEF RankInv, RankTypes
  <1>9. RunsDiffer'
    BY <1>2, <1>5 DEF RankInv, RunsDiffer
  <1>10. BatchesAreBatches'
    <2>1. \A q, s \in recs' : q.batch = s.batch /\ q.market = s.market => q = s
      BY <1>3, <1>4 DEF RankInv, BatchesAreBatches
    <2>2. \A q \in recs' : q.horizon = HorizonOf[q.market] /\ q.nth \in 1..BatchesWithRows
      BY <1>3, <1>4 DEF RankInv, BatchesAreBatches
    <2>3. \A q, s \in recs' : q.nth = s.nth => q.batch = s.batch
      BY <1>3, <1>4 DEF RankInv, BatchesAreBatches
    <2>4. \A b, h : IsFiniteSet(MarketsAt(b, h)) /\ Cardinality(MarketsAt(b, h)) <= TOP_N
      BY DEF RankInv, BatchesAreBatches
    <2>. QED
      BY <1>5, <1>7, <2>1, <2>2, <2>3, <2>4 DEF BatchesAreBatches
  <1>11. ListedWasOpen'
    <2>1. \A q \in recs' : /\ believed'[q.market] # "unpublished"
                           /\ q.state \in Actionable => believed'[q.market] = "open"
      <3> TAKE q \in recs'
      <3>1. PICK r \in recs : q = F(r)
        BY <1>4
      <3>2. believed[r.market] # "unpublished" /\ r.market \in Candidates
        BY <1>3 DEF RankInv, ListedWasOpen
      <3>3. believed'[r.market] = st[r.market]
        BY <1>1, <3>2
      <3>. QED
        BY <1>2, <1>3, <3>1, <3>2, <3>3
    <2>. QED
      BY <2>1 DEF ListedWasOpen
  <1>12. CitesItsEstimate'
    BY <1>3, <1>4 DEF RankInv, CitesItsEstimate
  <1>13. OneEstimateARun'
    BY <1>2 DEF RankInv, OneEstimateARun
  <1>. QED
    BY <1>8, <1>9, <1>10, <1>11, <1>12, <1>13 DEF RankInv

\* What a publication adds to the rows.
LEMMA PublishedRows ==
    ASSUME RankInv, NEW w \in Rankers, PublishBatch(w)
    PROVE  \E top \in [Horizons -> SUBSET Candidates], M \in SUBSET Candidates :
           \E rows \in SUBSET recs' :
             /\ recs' = recs \cup rows /\ M = UNION {top[h] : h \in Horizons}
             /\ \A h \in Horizons : top[h] \in Tops(ranker[w].scored, h)
             /\ \A m \in M : \E q \in rows : q.market = m
             /\ \A q \in rows :
                   /\ DOMAIN q = RecFields /\ q.batch = ranker[w].run /\ q.nth = BatchesWithRows + 1
                   /\ q.market \in M /\ q.horizon = HorizonOf[q.market]
                   /\ q.cites = LatestOf(q.market, estimates').made
             /\ \A q, s \in rows : q.market = s.market => q = s
             /\ believed' = [m \in Candidates |->
                              IF \E h \in Horizons : m \in top[h] THEN "open" ELSE believed[m]]
  <1>1. PICK top \in [Horizons -> SUBSET Candidates] :
          /\ \A h \in Horizons : top[h] \in Tops(ranker[w].scored, h)
          /\ estimates' = estimates \cup ranker[w].scored
          /\ recs' = recs \cup
              {[batch |-> ranker[w].run, nth |-> BatchesWithRows + 1, market |-> m,
                horizon |-> HorizonOf[m], state |-> "still_actionable",
                cites |-> LatestOf(m, estimates \cup ranker[w].scored).made] :
                  m \in UNION {top[h] : h \in Horizons}}
          /\ believed' = [m \in Candidates |->
               IF \E h \in Horizons : m \in top[h] THEN "open" ELSE believed[m]]
    BY Zenon DEF PublishBatch
  <1> DEFINE M == UNION {top[h] : h \in Horizons}
             Put(m) == [batch |-> ranker[w].run, nth |-> BatchesWithRows + 1, market |-> m,
                        horizon |-> HorizonOf[m], state |-> "still_actionable",
                        cites |-> LatestOf(m, estimates').made]
             rows == {Put(m) : m \in M}
  <1>2. M \in SUBSET Candidates
    OBVIOUS
  <1>3. \A q \in rows :
          /\ DOMAIN q = RecFields /\ q.batch = ranker[w].run /\ q.nth = BatchesWithRows + 1
          /\ q.market \in M /\ q.horizon = HorizonOf[q.market]
          /\ q.cites = LatestOf(q.market, estimates').made
    BY DEF RecFields
  <1>4. /\ \A m \in M : \E q \in rows : q.market = m
        /\ \A q, s \in rows : q.market = s.market => q = s
    <2>1. \A m \in M : Put(m).market = m /\ Put(m) \in rows
      OBVIOUS
    <2>2. \A q \in rows : q.market \in M /\ q = Put(q.market)
      OBVIOUS
    <2>. QED
      BY <2>1, <2>2, Zenon
  <1>5. recs' = recs \cup rows
    BY <1>1, Zenon
  <1>6. M = UNION {top[h] : h \in Horizons}
    OBVIOUS
  <1>7. rows \in SUBSET recs'
    BY <1>5
  <1>. HIDE DEF rows, M
  <1>8. WITNESS top \in [Horizons -> SUBSET Candidates], M \in SUBSET Candidates
  <1>9. WITNESS rows \in SUBSET recs'
  <1>. QED
    BY <1>1, <1>3, <1>4, <1>5, <1>6, Zenon

LEMMA PublishHolds == ASSUME RankInv, NEW w \in Rankers, PublishBatch(w) PROVE RankInv'
  <1>1. PICK top \in [Horizons -> SUBSET Candidates], M \in SUBSET Candidates,
               rows \in SUBSET recs' :
          /\ recs' = recs \cup rows /\ M = UNION {top[h] : h \in Horizons}
          /\ \A h \in Horizons : top[h] \in Tops(ranker[w].scored, h)
          /\ \A m \in M : \E q \in rows : q.market = m
          /\ \A q \in rows :
                /\ DOMAIN q = RecFields /\ q.batch = ranker[w].run /\ q.nth = BatchesWithRows + 1
                /\ q.market \in M /\ q.horizon = HorizonOf[q.market]
                /\ q.cites = LatestOf(q.market, estimates').made
          /\ \A q, s \in rows : q.market = s.market => q = s
          /\ believed' = [m \in Candidates |->
                           IF \E h \in Horizons : m \in top[h] THEN "open" ELSE believed[m]]
    BY PublishedRows
  <1> DEFINE mine == ranker[w].scored
             run == ranker[w].run
  <1>2. /\ ranker' = [ranker EXCEPT ![w] = Free] /\ estimates' = estimates \cup mine
        /\ UNCHANGED <<statusOf, runs>> /\ ranker[w] # Free
    BY Zenon DEF PublishBatch
  <1>3. /\ run \in 1..runs /\ run \notin Batches /\ runs \in Nat /\ Batches \subseteq 1..runs
        /\ \A e \in mine : e.of \in Candidates /\ e.made = run
        /\ DOMAIN ranker = Rankers
    BY <1>2 DEF RankInv, RunsDiffer, RankTypes
  <1>4. /\ ranker'[w] = Free /\ DOMAIN ranker' = Rankers
        /\ \A v \in Rankers : v # w => ranker'[v] = ranker[v]
    BY <1>2, <1>3
  <1>5. \A m \in M : \E h \in Horizons : m \in top[h]
    BY <1>1
  <1>6. \A h \in Horizons : \A m \in top[h] : HorizonOf[m] = h /\ \E e \in mine : e.of = m
    BY <1>1 DEF Tops, Eligible
  <1>7. \A r \in recs : r.batch \in Batches /\ r.batch # run
    BY <1>3 DEF Batches
  <1>. HIDE DEF mine, run
  <1>8. \A e \in estimates' : e.made \in 0..runs
    BY <1>2, <1>3 DEF RankInv, RankTypes
  <1>9. RankTypes'
    <2>1. believed' \in [Candidates -> {"unpublished", "open", "closed", "settled"}]
      BY <1>1 DEF RankInv, RankTypes
    <2>2. \A q \in recs' : DOMAIN q = RecFields /\ q.market \in Candidates
      BY <1>1 DEF RankInv, RankTypes
    <2>. QED
      BY <1>2, <1>4, <1>8, <2>1, <2>2 DEF RankInv, RankTypes
  <1>10. Batches' \subseteq Batches \cup {run} /\ (rows # {} => Batches' = Batches \cup {run})
    BY <1>1 DEF Batches, run
  <1>11. RunsDiffer'
    <2>1. \A v \in Rankers : ranker'[v] # Free => v # w /\ ranker[v].run # run
      BY <1>2, <1>4 DEF RankInv, RunsDiffer, run
    <2>. QED
      BY <1>2, <1>3, <1>4, <1>10, <2>1 DEF RankInv, RunsDiffer
  <1>15. OneEstimateARun'
    <2>1. /\ \A e, d \in mine : e.of = d.of => e = d
          /\ \A e \in estimates : e.made # run
      BY <1>2 DEF RankInv, OneEstimateARun, mine, run
    <2>2. \A e, d \in estimates' : e.of = d.of /\ e.made = d.made => e = d
      BY <1>2, <1>3, <2>1 DEF RankInv, OneEstimateARun
    <2>3. \A v \in Rankers : ranker'[v] # Free => v # w /\ ranker[v].run # run
      BY <1>2, <1>4 DEF RankInv, RunsDiffer, run
    <2>4. \A v \in Rankers : ranker'[v] # Free =>
             /\ \A e, d \in ranker'[v].scored : e.of = d.of => e = d
             /\ \A e \in estimates' : e.made # ranker'[v].run
      BY <1>2, <1>3, <1>4, <2>3 DEF RankInv, OneEstimateARun
    <2>5. \A e \in estimates' : e.of \in Candidates
      BY <1>2, <1>3 DEF RankInv, OneEstimateARun
    <2>. QED
      BY <2>2, <2>4, <2>5 DEF OneEstimateARun
  <1>12. CitesItsEstimate'
    <2>1. \A q \in rows : q.cites >= q.batch
      <3> TAKE q \in rows
      <3>1. PICK e \in mine : e.of = q.market
        BY <1>1, <1>5, <1>6
      <3>2. e \in estimates' /\ e.made = run /\ q.batch = run
        BY <1>1, <1>2, <1>3 DEF run
      <3>3. /\ LatestOf(q.market, estimates') \in estimates'
            /\ e.made <= LatestOf(q.market, estimates').made
        BY <1>3, <1>8, <3>1, <3>2, LatestIsThere
      <3>. QED
        BY <1>1, <1>3, <1>8, <3>2, <3>3
    <2>. QED
      BY <1>1, <2>1 DEF RankInv, CitesItsEstimate
  <1>13. CASE rows = {}
    <2>1. recs' = recs /\ M = {} /\ believed' = believed
      BY <1>1, <1>13 DEF RankInv, RankTypes
    <2>. QED
      BY <1>9, <1>11, <1>12, <1>15, <2>1, RecsStay DEF RankInv
  <1>14. CASE rows # {}
    <2>1. BatchesWithRows' = BatchesWithRows + 1 /\ BatchesWithRows \in Nat
      <3>1. IsFiniteSet(Batches)
        <4>1. IsFiniteSet(1..runs)
          BY <1>3, FS_Interval
        <4>. QED
          BY <1>3, <4>1, FS_Subset
      <3>2. Batches' = Batches \cup {run}
        BY <1>10, <1>14
      <3>. QED
        BY <1>3, <3>1, <3>2, FS_AddElement, FS_CardinalityType DEF BatchesWithRows, Batches
    <2>2. LatestBatch' = {run}
      <3>1. \A q \in recs' : q.nth = BatchesWithRows + 1 <=> q \in rows
        BY <1>1, <2>1 DEF RankInv, BatchesAreBatches
      <3>. QED
        BY <1>1, <1>14, <2>1, <3>1 DEF LatestBatch, run
    <2>3. \A b, h : IsFiniteSet(MarketsAt(b, h)') /\ Cardinality(MarketsAt(b, h)') <= TOP_N
      <3> TAKE b, h
      <3>1. CASE b # run
        <4>1. MarketsAt(b, h)' = MarketsAt(b, h)
          BY <1>1, <3>1 DEF MarketsAt, run
        <4>. QED
          BY <4>1 DEF RankInv, BatchesAreBatches
      <3>2. CASE b = run /\ h \in Horizons
        <4>1. MarketsAt(b, h)' \subseteq top[h]
          BY <1>1, <1>5, <1>6, <1>7, <3>2 DEF MarketsAt
        <4>2. IsFiniteSet(top[h]) /\ Cardinality(top[h]) <= TOP_N
          BY <1>1, <3>2, FS_Subset, RankingAssumption DEF Tops
        <4>. QED
          BY <4>1, <4>2, FS_Subset, FS_CardinalityType, RankingAssumption
      <3>3. CASE b = run /\ h \notin Horizons
        <4>1. MarketsAt(b, h)' = {}
          BY <1>1, <1>5, <1>6, <1>7, <3>3 DEF MarketsAt
        <4>. QED
          BY <4>1, FS_EmptySet, RankingAssumption
      <3>. QED
        BY <3>1, <3>2, <3>3
    <2>4. BatchesAreBatches'
      <3>1. \A q, s \in recs' : q.batch = s.batch /\ q.market = s.market => q = s
        BY <1>1, <1>7 DEF RankInv, BatchesAreBatches, run
      <3>2. \A q \in recs' : q.horizon = HorizonOf[q.market] /\ q.nth \in 1..(BatchesWithRows + 1)
        BY <1>1, <2>1 DEF RankInv, BatchesAreBatches
      <3>3. \A q, s \in recs' : q.nth = s.nth => q.batch = s.batch
        BY <1>1, <2>1 DEF RankInv, BatchesAreBatches
      <3>. QED
        BY <2>1, <2>3, <3>1, <3>2, <3>3 DEF BatchesAreBatches
    <2>5. ListedWasOpen'
      <3>1. \A q \in recs' : believed'[q.market] # "unpublished"
        BY <1>1, <1>9 DEF RankInv, RankTypes, ListedWasOpen
      <3>2. \A q \in rows : believed'[q.market] = "open"
        BY <1>1, <1>5
      <3>. QED
        BY <1>1, <1>7, <2>2, <3>1, <3>2 DEF ListedWasOpen
    <2>. QED
      BY <1>9, <1>11, <1>12, <1>15, <2>4, <2>5 DEF RankInv
  <1>. QED
    BY <1>13, <1>14

LEMMA RankStart == ASSUME RankingInit PROVE RankInv
  <1>1. Batches = {} /\ \A b, h : MarketsAt(b, h) = {}
    BY DEF RankingInit, Batches, MarketsAt
  <1>. QED
    BY <1>1, FS_EmptySet, RankingAssumption DEF RankingInit, RankInv, RankTypes, RunsDiffer,
       OneEstimateARun, BatchesAreBatches, ListedWasOpen, CitesItsEstimate

LEMMA RankStep == ASSUME RankInv, [RankingNext]_rankingVars PROVE RankInv'
  <1>1. CASE UNCHANGED rankingVars
    <2>1. UNCHANGED <<recs, believed>>
      BY <1>1 DEF rankingVars
    <2>. QED
      BY <1>1, <2>1, RecsStay DEF rankingVars, RankInv, RankTypes, RunsDiffer,
       OneEstimateARun
  <1>. QED
    BY <1>1, MoveHolds, ScoreHolds, PublishHolds, AbortHolds, SettleHolds DEF RankingNext

\* The rows of one batch are told apart by their markets.
LEMMA TabsAreShort == ASSUME RankInv, NEW h PROVE Cardinality(ListRows(h)) <= TOP_N
  <1>1. CASE ListRows(h) = {}
    BY <1>1, FS_EmptySet, RankingAssumption
  <1>2. CASE ListRows(h) # {}
    <2>1. PICK b : \A r \in ListRows(h) : r \in recs /\ r.batch = b /\ r.horizon = h
      <3>1. PICK r \in recs : r.nth = BatchesWithRows
        BY <1>2 DEF ListRows, LatestBatch
      <3>2. LatestBatch \subseteq {r.batch}
        BY <3>1 DEF LatestBatch, RankInv, BatchesAreBatches
      <3>. QED
        BY <3>2 DEF ListRows
    <2> DEFINE rows == {r \in recs : r.batch = b /\ r.horizon = h}
               at == [m \in MarketsAt(b, h) |-> CHOOSE r \in rows : r.market = m]
    <2>2. \A m \in MarketsAt(b, h) : at[m] \in rows /\ at[m].market = m
      BY DEF MarketsAt
    <2>3. \A r \in rows : r.market \in MarketsAt(b, h) /\ at[r.market] = r
      BY <2>2 DEF MarketsAt, RankInv, BatchesAreBatches
    <2>4. at \in Surjection(MarketsAt(b, h), rows)
      BY <2>2, <2>3 DEF Surjection
    <2>5. /\ IsFiniteSet(MarketsAt(b, h)) /\ Cardinality(MarketsAt(b, h)) <= TOP_N
          /\ IsFiniteSet(rows) /\ Cardinality(rows) <= Cardinality(MarketsAt(b, h))
      BY <2>4, FS_Surjection DEF RankInv, BatchesAreBatches
    <2>6. ListRows(h) \subseteq rows
      BY <2>1
    <2>. HIDE DEF rows
    <2>7. IsFiniteSet(ListRows(h)) /\ Cardinality(ListRows(h)) <= Cardinality(rows)
      BY <2>5, <2>6, FS_Subset
    <2>. QED
      BY <2>5, <2>7, FS_CardinalityType, RankingAssumption
  <1>. QED
    BY <1>1, <1>2

LEMMA RankingsTrue == ASSUME RankInv PROVE RankingsAreToldTruly
  <1>1. TabsMatchLists
    <2>1. \A h \in Horizons : Counts[h] = Cardinality(ListRows(h))
      <3> TAKE h \in Horizons
      <3>1. {r \in recs : r.batch \in LatestBatch /\ r.state \in Actionable /\ r.horizon = h}
              = ListRows(h)
        BY DEF ListRows
      <3>. QED
        BY <3>1 DEF Counts
    <2>2. \A h \in Horizons : \A r, s \in ListRows(h) : r.market = s.market => r = s
      <3>1. \A r, s \in recs : r.batch \in LatestBatch /\ s.batch \in LatestBatch => r.batch = s.batch
        BY DEF LatestBatch, RankInv, BatchesAreBatches
      <3>. QED
        BY <3>1 DEF ListRows, RankInv, BatchesAreBatches
    <2>. QED
      BY <2>1, <2>2, TabsAreShort DEF TabsMatchLists
  <1>2. OfferedWasOpen
    BY DEF OfferedWasOpen, ListRows, RankInv, ListedWasOpen
  <1>3. NoSupersededEstimate
    <2> SUFFICES ASSUME NEW h \in Horizons
                 PROVE  /\ \A m \in DisagreementRows(h) \cup Funnel(h)[4] :
                              CurrentOf(m) # {} /\ \A e \in CurrentOf(m) : e.independent
                        /\ DisagreementRows(h) \subseteq Funnel(h)[1]
                        /\ DisagreementRows(h) \cap Funnel(h)[2] \subseteq Funnel(h)[4]
      BY Zenon DEF NoSupersededEstimate
    <2>1. \A m \in DisagreementRows(h) \cup Funnel(h)[4] :
             m \in Estimated /\ LatestOf(m, estimates).independent
      BY DEF DisagreementRows, Funnel
    <2>2. ASSUME NEW m \in Estimated, LatestOf(m, estimates).independent
          PROVE  CurrentOf(m) # {} /\ \A e \in CurrentOf(m) : e.independent
      <3> DEFINE newest == LatestOf(m, estimates)
      <3>1. newest \in estimates /\ newest.of = m /\ \A e \in estimates : e.of = m => e.made <= newest.made
        BY LatestIsThere DEF RankInv, RankTypes, Estimated
      <3>2. newest \in CurrentOf(m)
        BY <3>1 DEF CurrentOf
      <3>3. ASSUME NEW e \in CurrentOf(m) PROVE e = newest
        <4>1. e.made <= newest.made /\ newest.made <= e.made /\ e \in estimates /\ e.of = m
          BY <3>1 DEF CurrentOf
        <4>2. e.made \in 0..runs /\ newest.made \in 0..runs
          BY <3>1, <4>1 DEF RankInv, RankTypes
        <4>3. e.made = newest.made
          BY <4>1, <4>2
        <4>. QED
          BY <3>1, <4>1, <4>3 DEF RankInv, OneEstimateARun
      <3>. QED
        BY <2>2, <3>2, <3>3
    <2>3. \A m \in DisagreementRows(h) : m \in Candidates
      BY DEF DisagreementRows, Estimated, RankInv, OneEstimateARun
    <2>4. DisagreementRows(h) \subseteq Funnel(h)[1]
      BY <2>3 DEF DisagreementRows, Funnel
    <2>5. DisagreementRows(h) \cap Funnel(h)[2] \subseteq Funnel(h)[4]
      BY DEF DisagreementRows, Funnel
    <2>. QED
      BY <2>1, <2>2, <2>4, <2>5
  <1>. QED
    BY <1>1, <1>2, <1>3 DEF RankingsAreToldTruly, RankInv

\* However rankings overlap, abort and are settled meanwhile: a tab advertises what its
\* list holds, what is offered was open when it was last looked at, no superseded
\* estimate is told, and a recommendation cites no estimate older than its own
\* (routers/opportunities.py, value/pipeline.py).
THEOREM RankingsAreTold == RankingSpec => []RankingsAreToldTruly
  BY RankStart, RankStep, RankingsTrue, PTL DEF RankingSpec


-----------------------------------------------------------------------------
(* What a snapshot was checked for. *)

\* The pairs a code was given to.
Given(h, S) == UNION {{<<c, i>> : i \in h.byCode[c]} : c \in S}

\* Counts over a finite scan are counts of finite sets, and of more codes no fewer.
LEMMA CountsGrow ==
    ASSUME NEW n \in Nat, NEW vs \in [1..n -> Verdicts], NEW S \in SUBSET Codes, NEW T \in SUBSET S
    PROVE  /\ IsFiniteSet(Given(Histogram(vs), S))
           /\ CountOf(Histogram(vs), S) = Cardinality(Given(Histogram(vs), S))
           /\ CountOf(Histogram(vs), S) \in Nat /\ CountOf(Histogram(vs), T) \in Nat
           /\ CountOf(Histogram(vs), T) <= CountOf(Histogram(vs), S)
  <1> DEFINE h == Histogram(vs)
  <1>1. IsFiniteSet(1..n)
    BY FS_Interval
  <1>2. IsFiniteSet(Codes \X (1..n))
    BY <1>1, FS_Product, ValidationAssumption
  <1>3. \A c \in Codes : h.byCode[c] \subseteq 1..n
    BY DEF Histogram
  <1>. HIDE DEF h
  <1>4. Given(h, S) \subseteq Codes \X (1..n) /\ Given(h, T) \subseteq Given(h, S)
    BY <1>3 DEF Given
  <1>5. IsFiniteSet(Given(h, S))
    BY <1>2, <1>4, FS_Subset
  <1>6. /\ IsFiniteSet(Given(h, T))
        /\ Cardinality(Given(h, T)) <= Cardinality(Given(h, S))
    BY <1>4, <1>5, FS_Subset
  <1>7. Cardinality(Given(h, S)) \in Nat /\ Cardinality(Given(h, T)) \in Nat
    BY <1>5, <1>6, FS_CardinalityType
  <1>. QED
    BY <1>5, <1>6, <1>7 DEF CountOf, Given, h

\* Codes nobody was given do not count.
LEMMA AbsentCodesCountNothing ==
    ASSUME NEW h, NEW S, NEW T \in SUBSET S, \A c \in S \ T : h.byCode[c] = {}
    PROVE  CountOf(h, T) = CountOf(h, S)
  <1>1. Given(h, T) = Given(h, S)
    BY DEF Given
  <1>. QED
    BY <1>1 DEF CountOf, Given

\* A blocked pair has a code of those that are missing.
LEMMA BlockedAreCounted ==
    ASSUME NEW n \in Nat, NEW vs \in [1..n -> Verdicts]
    PROVE  Histogram(vs).blocked <= CountOf(Histogram(vs), MissingCodes)
  <1> DEFINE h == Histogram(vs)
             B == {i \in DOMAIN vs : BlockedByParser(vs[i])}
             P == Given(h, MissingCodes)
             f == [i \in B |-> <<CHOOSE c \in MissingCodes : c \in vs[i].codes, i>>]
  <1>1. \A i \in B : \E c \in MissingCodes : c \in vs[i].codes
    BY DEF BlockedByParser
  <1>2. \A c \in Codes : h.byCode[c] = {i \in DOMAIN vs : c \in vs[i].codes}
    BY DEF Histogram
  <1>3. h.blocked = Cardinality(B)
    BY DEF Histogram
  <1>. HIDE DEF h, B
  <1>4. ASSUME NEW i \in B PROVE f[i] \in P /\ f[i][2] = i
    <2>1. PICK c : c = CHOOSE d \in MissingCodes : d \in vs[i].codes
      OBVIOUS
    <2>2. c \in MissingCodes /\ c \in vs[i].codes /\ i \in DOMAIN vs
      BY <1>1, <2>1 DEF B
    <2>3. f[i] = <<c, i>>
      BY <2>1
    <2>4. i \in h.byCode[c]
      BY <1>2, <2>2 DEF Codes
    <2>. QED
      BY <2>2, <2>3, <2>4 DEF Given
  <1>5. f \in [B -> P]
    <2>1. \A i \in B : f[i] \in P
      BY <1>4
    <2>2. f = [i \in B |-> f[i]]
      OBVIOUS
    <2>. QED
      BY <2>1, <2>2, Zenon
  <1>6. \A i, j \in B : f[i] = f[j] => i = j
    BY <1>4, Zenon
  <1>. HIDE DEF f, P
  <1>7. f \in Injection(B, P)
    BY <1>5, <1>6 DEF Injection, IsInjective
  <1>8. IsFiniteSet(P) /\ CountOf(h, MissingCodes) = Cardinality(P)
    BY CountsGrow DEF h, P, Codes
  <1>9. Cardinality(B) <= Cardinality(P)
    BY <1>7, <1>8, FS_Injection
  <1>. QED
    BY <1>3, <1>8, <1>9 DEF h

\* The codes listed are some of those present, and all of them where there is room.
LEMMA TopIsShort ==
    ASSUME NEW n \in Nat, NEW vs \in [1..n -> Verdicts], NEW top \in TopReasons(Histogram(vs))
    PROVE  /\ top \in SUBSET Codes
           /\ \A c \in top : Histogram(vs).byCode[c] # {}
           /\ Cardinality(top) < TOP_REASONS =>
                 \A c \in Codes \ top : Histogram(vs).byCode[c] = {}
           /\ top = {} => \A c \in Codes : Histogram(vs).byCode[c] = {}
  <1> DEFINE h == Histogram(vs)
             present == {c \in Codes : h.byCode[c] # {}}
  <1>. HIDE DEF h
  <1>1. /\ top \in SUBSET present
        /\ Cardinality(top) = IF Cardinality(present) < TOP_REASONS
                              THEN Cardinality(present) ELSE TOP_REASONS
    BY Zenon DEF TopReasons, h
  <1>2. present \in SUBSET Codes
    OBVIOUS
  <1>. HIDE DEF present
  <1>3. IsFiniteSet(present) /\ IsFiniteSet(Codes)
    BY <1>2, FS_Subset, ValidationAssumption
  <1>4. Cardinality(present) \in Nat /\ TOP_REASONS \in Nat /\ TOP_REASONS # 0
    BY <1>3, FS_CardinalityType, ValidationAssumption
  <1>5. Cardinality(top) < TOP_REASONS => top = present
    <2>1. Cardinality(top) < TOP_REASONS => Cardinality(top) = Cardinality(present)
      BY <1>1, <1>4
    <2>. QED
      BY <1>1, <1>3, <2>1, FS_Subset
  <1>6. top = {} => Cardinality(top) < TOP_REASONS
    BY <1>4, FS_EmptySet
  <1>. QED
    BY <1>1, <1>2, <1>5, <1>6 DEF present, h

\* Verified and blocked pairs are different pairs.
LEMMA PairsAreSplit ==
    ASSUME NEW n \in Nat, NEW vs \in [1..n -> Verdicts]
    PROVE  /\ Histogram(vs).verified + Histogram(vs).blocked <= Histogram(vs).pairs
           /\ Histogram(vs).verified \in Nat /\ Histogram(vs).blocked \in Nat
           /\ Histogram(vs).pairs = n
  <1> DEFINE V == {i \in DOMAIN vs : vs[i].identical}
             B == {i \in DOMAIN vs : BlockedByParser(vs[i])}
  <1>1. /\ Histogram(vs).verified = Cardinality(V) /\ Histogram(vs).blocked = Cardinality(B)
        /\ Histogram(vs).pairs = Cardinality(DOMAIN vs)
    BY DEF Histogram
  <1>2. V \cap B = {}
    BY DEF BlockedByParser
  <1>3. DOMAIN vs = 1..n /\ V \in SUBSET (1..n) /\ B \in SUBSET (1..n) /\ V \cup B \in SUBSET (1..n)
    OBVIOUS
  <1>. HIDE DEF V, B
  <1>4. IsFiniteSet(1..n) /\ Cardinality(1..n) = n
    BY FS_Interval
  <1>5. IsFiniteSet(V) /\ IsFiniteSet(B) /\ Cardinality(V \cup B) <= n
    BY <1>3, <1>4, FS_Subset
  <1>6. Cardinality(V \cup B) = Cardinality(V) + Cardinality(B) - Cardinality({})
    BY <1>2, <1>5, FS_Union
  <1>7. Cardinality({}) = 0 /\ Cardinality(V) \in Nat /\ Cardinality(B) \in Nat
    BY <1>5, FS_EmptySet, FS_CardinalityType
  <1>. QED
    BY <1>1, <1>3, <1>4, <1>5, <1>6, <1>7

\* The histogram of any scan passes.
LEMMA ScansPass ==
    ASSUME NEW n \in Nat, NEW vs \in [1..n -> Verdicts], NEW top \in TopReasons(Histogram(vs))
    PROVE  DiagnosticsPass(Histogram(vs), top)
  <1> DEFINE h == Histogram(vs)
             missing == CountOf(h, MissingCodes)
             against == CountOf(h, Contradictions)
             listed(S) == CountOf(h, top \cap S)
  <1>1. /\ top \in SUBSET Codes
        /\ Cardinality(top) < TOP_REASONS => \A c \in Codes \ top : h.byCode[c] = {}
        /\ \A c \in top : h.byCode[c] # {}
        /\ top = {} => \A c \in Codes : h.byCode[c] = {}
    BY TopIsShort
  <1>2. h.verified + h.blocked <= h.pairs /\ h.verified \in Nat /\ h.blocked \in Nat /\ h.pairs = n
    BY PairsAreSplit
  <1>3. MissingCodes \in SUBSET Codes /\ Contradictions \in SUBSET Codes
    BY DEF Codes
  <1>4. /\ missing \in Nat /\ against \in Nat
        /\ listed(MissingCodes) <= missing /\ listed(Contradictions) <= against
    <2>1. top \cap MissingCodes \in SUBSET MissingCodes /\ top \cap Contradictions \in SUBSET Contradictions
      OBVIOUS
    <2>. QED
      BY <1>3, <2>1, CountsGrow
  <1>5. h.blocked <= missing
    BY BlockedAreCounted
  <1>6. ASSUME NEW S \in SUBSET Codes, \A c \in S \ (top \cap S) : h.byCode[c] = {}
        PROVE  listed(S) = CountOf(h, S)
    <2>1. top \cap S \in SUBSET S
      OBVIOUS
    <2>. HIDE DEF h
    <2>. QED
      BY <1>6, <2>1, AbsentCodesCountNothing
  <1>7. Cardinality(top) < TOP_REASONS =>
          listed(MissingCodes) = missing /\ listed(Contradictions) = against
    BY <1>1, <1>3, <1>6
  <1>8. (\A c \in Codes : h.byCode[c] = {}) => missing = 0 /\ against = 0
    <2>. SUFFICES ASSUME \A c \in Codes : h.byCode[c] = {} PROVE missing = 0 /\ against = 0
      OBVIOUS
    <2>1. CountOf(h, {}) = 0
      BY FS_EmptySet DEF CountOf
    <2>2. CountOf(h, {}) = missing /\ CountOf(h, {}) = against
      <3>1. {} \in SUBSET MissingCodes /\ {} \in SUBSET Contradictions
        OBVIOUS
      <3>. HIDE DEF h
      <3>. QED
        BY <1>3, <3>1, AbsentCodesCountNothing
    <2>. QED
      BY <2>1, <2>2
  <1>9. ASSUME n = 0 PROVE h.blocked = 0 /\ h.verified = 0 /\ missing + against = 0 /\ top = {}
    <2>1. \A c \in Codes : h.byCode[c] = {}
      BY <1>9 DEF Histogram
    <2>. QED
      BY <1>1, <1>2, <1>8, <1>9, <2>1
  <1>. HIDE DEF h
  <1>10. missing + against > 0 => top # {}
    BY <1>1, <1>4, <1>8
  <1>11. n = 0 => h.verified + h.blocked + missing + against = 0 /\ top = {}
    BY <1>2, <1>4, <1>9
  <1>. HIDE DEF missing, against, listed
  <1>. QED
    BY <1>2, <1>4, <1>5, <1>7, <1>10, <1>11 DEF DiagnosticsPass, missing, against, listed, h

LEMMA HonestPass == HonestScansPass
  <1>. SUFFICES ASSUME NEW n \in 0..MaxPairs, NEW vs \in [1..n -> Verdicts],
                       NEW top \in TopReasons(Histogram(vs))
                PROVE  DiagnosticsPass(Histogram(vs), top)
    BY Zenon DEF HonestScansPass
  <1>1. n \in Nat
    BY ValidationAssumption
  <1>. QED
    BY <1>1, ScansPass

(* The candidate and what is published. *)

ManifestFields == {"validation", "release", "raw", "gz", "attributed"}
CheckerFields == {"step", "by", "profile", "failed", "hashed"}

\* There is one file of each kind, and a check has a candidate to check.
FilesFit ==
    /\ \A f, g \in raw : f = g
    /\ \A f \in raw : f.flaws \subseteq Flaws
    /\ \A m, k \in manifestFile : m = k
    /\ \A m \in manifestFile : DOMAIN m = ManifestFields
    /\ \A p, q \in published : p = q
    /\ stray \in BOOLEAN /\ damage \in Nat
    /\ checker.step # "off" => DOMAIN checker = CheckerFields /\ raw # {} /\ manifestFile # {}
    /\ checker.step = "validated" => checker.by = "run"

\* A file that is served, or one that was damaged, which the contract refuses.
ServedOrTorn(f) == "unservable" \notin f.flaws \/ "contract" \in f.flaws

\* A verdict, and a check that is going to record one, was of such a file.
VerdictsEarned ==
    /\ \A m \in manifestFile : m.validation = "passed" =>
          m.attributed /\ \A f \in m.raw : ServedOrTorn(f)
    /\ checker.step = "checked" /\ ~ checker.failed =>
          (\A m \in manifestFile : m.attributed) /\ \A f \in raw : ServedOrTorn(f)
    /\ checker.step \in {"hashed", "compressed"} =>
          (\A m \in manifestFile : m.attributed) /\ \A f \in checker.hashed : ServedOrTorn(f)

\* Where nothing was damaged, a run goes on with what production accepts.
RunsAreClean ==
    damage = 0 /\ checker.step # "off" /\ checker.by = "run"
      /\ (checker.step = "checked" => ~ checker.failed) =>
        /\ \A f \in raw : "unservable" \notin f.flaws /\ "pruned" \notin f.flaws
        /\ \A m \in manifestFile : m.attributed

\* A published pair that agrees with itself and has no flaw.
SoundPair(zip, ms) ==
    /\ zip # {} /\ \A z \in zip : z.exact /\ z.of.flaws = {}
    /\ \A y, z \in zip : y.of = z.of
    /\ \E m \in ms : /\ m.validation = "passed" /\ m.release = "published" /\ m.attributed
                     /\ m.raw = {z.of : z \in zip} /\ m.gz = zip

PublishedIsSound ==
    \A p \in published : p.by = "job" \/ damage = 0 => SoundPair(p.gz, p.manifest)

BundleInv == FilesFit /\ VerdictsEarned /\ RunsAreClean /\ PublishedIsSound

\* What is published of a bundle that holds and has no flaw is sound.
LEMMA BundlesArePublishedSound ==
    ASSUME FilesFit, NEW m \in manifestFile, BundleHolds(raw, gzip, m), m.attributed,
           \A f \in raw : "unservable" \notin f.flaws /\ "pruned" \notin f.flaws
    PROVE  SoundPair(gzip, {[m EXCEPT !.release = "published"]})
  <1> DEFINE k == [m EXCEPT !.release = "published"]
  <1>1. DOMAIN m = ManifestFields
    BY DEF FilesFit
  <1>2. /\ k.release = "published" /\ k.validation = m.validation /\ k.raw = m.raw /\ k.gz = m.gz
        /\ k.attributed = m.attributed
    BY <1>1 DEF ManifestFields
  <1>3. /\ m.validation = "passed" /\ m.raw = raw /\ m.gz = gzip /\ raw # {} /\ gzip # {}
        /\ \A f \in raw : "contract" \notin f.flaws
        /\ \A z \in gzip : z.exact /\ {z.of} = raw
    BY DEF BundleHolds
  <1>4. \A f \in raw : f.flaws = {}
    BY <1>3 DEF FilesFit, Flaws
  <1>5. \A z \in gzip : z.exact /\ z.of.flaws = {}
    BY <1>3, <1>4
  <1>6. raw = {z.of : z \in gzip} /\ \A y, z \in gzip : y.of = z.of
    BY <1>3
  <1>. HIDE DEF k
  <1>. QED
    BY <1>2, <1>3, <1>5, <1>6 DEF SoundPair, k

\* A sound pair is accepted until something lies beside it.
LEMMA SoundIsAccepted ==
    ASSUME BundleInv, NEW p \in published, SoundPair(p.gz, p.manifest)
    PROVE  CIAccepts # stray
  <1>1. PICK m \in p.manifest : 
          /\ m.validation = "passed" /\ m.release = "published" /\ m.attributed
          /\ m.raw = {z.of : z \in p.gz} /\ m.gz = p.gz
    BY DEF SoundPair
  <1> DEFINE r == {z.of : z \in p.gz}
  <1>2. r # {} /\ p.gz # {} /\ \A f \in r : f.flaws = {}
    BY DEF SoundPair
  <1>3. \A z \in p.gz : z.exact /\ {z.of} = r
    BY DEF SoundPair
  <1>4. m.raw = r
    BY <1>1
  <1>. HIDE DEF r
  <1>5. BundleHolds(r, p.gz, m)
    BY <1>1, <1>2, <1>3, <1>4 DEF BundleHolds
  <1>6. \A profile : ReadOnlyChecks(r, p.gz, m, "published", profile)
    BY <1>1, <1>2, <1>5 DEF ReadOnlyChecks, Refused
  <1>7. published # {} /\ \E q \in published : \E k \in q.manifest :
          \A profile \in {"production", "demo"} :
            ReadOnlyChecks({z.of : z \in q.gz}, q.gz, k, "published", profile)
    BY <1>6 DEF r
  <1>8. CIAccepts <=> ~ stray
    BY <1>7, Zenon DEF CIAccepts
  <1>9. stray \in BOOLEAN /\ CIAccepts \in BOOLEAN
    BY DEF BundleInv, FilesFit, CIAccepts
  <1>. QED
    BY <1>8, <1>9

LEMMA BundlesTrue == ASSUME BundleInv PROVE PublishedWithoutFlaw /\ BundlesWereChecked
  <1>1. ASSUME NEW p \in published, p.by = "job" \/ damage = 0
        PROVE  (\A z \in p.gz : z.exact /\ z.of.flaws = {}) /\ CIAccepts # stray
    <2>1. SoundPair(p.gz, p.manifest)
      BY <1>1 DEF BundleInv, PublishedIsSound
    <2>. QED
      BY <2>1, SoundIsAccepted DEF SoundPair
  <1>2. ASSUME NEW m \in manifestFile, BundleHolds(raw, gzip, m), NEW f \in raw
        PROVE  "unservable" \notin f.flaws /\ m.attributed
    BY <1>2 DEF BundleInv, VerdictsEarned, BundleHolds, ServedOrTorn
  <1>. QED
    BY <1>1, <1>2 DEF PublishedWithoutFlaw, BundlesWereChecked

LEMMA BundleStart == ASSUME ValidationInit PROVE BundleInv
  BY DEF ValidationInit, Off, BundleInv, FilesFit, VerdictsEarned, RunsAreClean, PublishedIsSound

\* A new candidate has no verdict.
LEMMA BuildHolds == ASSUME BundleInv, BuildCandidate PROVE BundleInv'
  <1>1. PICK flaws \in SUBSET Flaws, attributed \in BOOLEAN, bounded \in BOOLEAN :
          LET file == [build |-> builds + 1, flaws |-> flaws] IN
            /\ raw' = {file}
            /\ manifestFile' = IF bounded
                               THEN {[validation |-> "pending", release |-> "held",
                                      raw |-> {file}, gz |-> {}, attributed |-> attributed]}
                               ELSE {}
    BY Zenon DEF BuildCandidate
  <1>2. /\ checker = Off /\ UNCHANGED <<checker, published, stray, damage>>
    BY DEF BuildCandidate
  <1>3. \A f, g \in raw' : f = g /\ f.flaws \subseteq Flaws
    BY <1>1
  <1>4. /\ \A m, k \in manifestFile' : m = k
        /\ \A m \in manifestFile' : DOMAIN m = ManifestFields /\ m.validation = "pending"
    <2> DEFINE k == [validation |-> "pending", release |-> "held",
                     raw |-> {[build |-> builds + 1, flaws |-> flaws]}, gz |-> {},
                     attributed |-> attributed]
    <2>1. DOMAIN k = ManifestFields /\ k.validation = "pending"
      BY Zenon DEF ManifestFields
    <2>2. manifestFile' = IF bounded THEN {k} ELSE {}
      BY <1>1, Zenon
    <2>. HIDE DEF k
    <2>. QED
      BY <2>1, <2>2
  <1>5. checker.step = "off"
    BY <1>2 DEF Off
  <1>. QED
    BY <1>2, <1>3, <1>4, <1>5
    DEF BundleInv, FilesFit, VerdictsEarned, RunsAreClean, PublishedIsSound

\* A check ends without a verdict of its own: nothing is left to be earned.
LEMMA CheckerGone ==
    ASSUME BundleInv, checker' = Off, damage' \in Nat, damage' = 0 => damage = 0,
           UNCHANGED <<raw, manifestFile, published>>, stray' \in BOOLEAN
    PROVE  BundleInv'
  <1>1. checker'.step = "off"
    BY DEF Off
  <1>. QED
    BY <1>1 DEF BundleInv, FilesFit, VerdictsEarned, RunsAreClean, PublishedIsSound

LEMMA CheckHolds ==
    ASSUME BundleInv, NEW by \in {"run", "hand"}, NEW profile \in {"production", "demo"},
           CheckCandidate(by, profile)
    PROVE  BundleInv'
  <1>1. PICK file, m : file = (CHOOSE f \in raw : TRUE) /\ m = (CHOOSE x \in manifestFile : TRUE)
    OBVIOUS
  <1>2. file \in raw /\ m \in manifestFile
    BY <1>1 DEF CheckCandidate
  <1>3. checker' = [step |-> "checked", by |-> by, profile |-> profile,
                    failed |-> Refused(file, m, profile), hashed |-> {}]
    BY <1>1, Zenon DEF CheckCandidate
  <1>4. /\ checker'.step = "checked" /\ checker'.by = by /\ DOMAIN checker' = CheckerFields
        /\ checker'.failed <=> Refused(file, m, profile)
    BY <1>3, Zenon DEF CheckerFields
  <1>5. /\ UNCHANGED <<raw, manifestFile, published, stray, damage>> /\ raw # {} /\ manifestFile # {}
        /\ by = "run" => profile = "production"
    BY DEF CheckCandidate, candidate
  <1>6. /\ \A f \in raw : f = file
        /\ \A k \in manifestFile : k = m
    BY <1>2 DEF BundleInv, FilesFit
  <1>7. ~ checker'.failed => 
          /\ "unservable" \notin file.flaws /\ m.attributed
          /\ by = "run" => "pruned" \notin file.flaws
    BY <1>4, <1>5 DEF Refused
  <1>8. FilesFit'
    BY <1>4, <1>5 DEF BundleInv, FilesFit
  <1>9. VerdictsEarned'
    BY <1>4, <1>5, <1>6, <1>7 DEF BundleInv, VerdictsEarned, ServedOrTorn
  <1>10. RunsAreClean'
    BY <1>4, <1>5, <1>6, <1>7 DEF BundleInv, RunsAreClean
  <1>. QED
    BY <1>5, <1>8, <1>9, <1>10 DEF BundleInv, PublishedIsSound

\* The fields of a manifest after a verdict.
LEMMA VerdictFields ==
    ASSUME FilesFit, NEW v, NEW hashed, NEW zip, NEW k \in Verdict(manifestFile, v, hashed, zip)
    PROVE  /\ DOMAIN k = ManifestFields /\ k.validation = v /\ k.raw = hashed
           /\ \E m \in manifestFile : k.attributed = m.attributed
           /\ \A l \in Verdict(manifestFile, v, hashed, zip) : k = l
  <1>1. PICK m \in manifestFile :
          k = [m EXCEPT !.validation = v, !.release = "held", !.raw = hashed, !.gz = zip]
    BY Zenon DEF Verdict
  <1>2. DOMAIN m = ManifestFields /\ \A x \in manifestFile : x = m
    BY DEF FilesFit
  <1>3. \A l \in Verdict(manifestFile, v, hashed, zip) : k = l
    BY <1>1, <1>2, Zenon DEF Verdict
  <1>. QED
    BY <1>1, <1>2, <1>3 DEF ManifestFields

LEMMA FailureHolds == ASSUME BundleInv, RecordFailure PROVE BundleInv'
  <1>1. /\ UNCHANGED <<raw, published, stray, damage>>
        /\ checker'.step = "off"
        /\ manifestFile' = Verdict(manifestFile, "failed", raw, {})
    BY DEF RecordFailure, Off
  <1>2. /\ \A k \in manifestFile' : DOMAIN k = ManifestFields /\ k.validation = "failed"
        /\ \A k, l \in manifestFile' : k = l
    BY <1>1, VerdictFields DEF BundleInv
  <1>. QED
    BY <1>1, <1>2 DEF BundleInv, FilesFit, VerdictsEarned, RunsAreClean, PublishedIsSound

LEMMA HashHolds == ASSUME BundleInv, HashRaw PROVE BundleInv'
  <1>1. /\ checker.step = "checked" /\ ~ checker.failed
        /\ checker' = [checker EXCEPT !.step = "hashed", !.hashed = raw]
        /\ UNCHANGED <<raw, manifestFile, published, stray, damage>>
    BY DEF HashRaw, candidate
  <1>2. DOMAIN checker = CheckerFields
    BY <1>1 DEF BundleInv, FilesFit
  <1>3. /\ DOMAIN checker' = CheckerFields /\ checker'.step = "hashed" /\ checker'.hashed = raw
        /\ checker'.by = checker.by
    BY <1>1, <1>2 DEF CheckerFields
  <1>. QED
    BY <1>1, <1>3 DEF BundleInv, FilesFit, VerdictsEarned, RunsAreClean, PublishedIsSound

LEMMA CompressHolds == ASSUME BundleInv, Compress PROVE BundleInv'
  <1>1. /\ checker.step = "hashed" /\ checker' = [checker EXCEPT !.step = "compressed"]
        /\ UNCHANGED <<raw, manifestFile, published, stray, damage>>
    BY DEF Compress
  <1>2. DOMAIN checker = CheckerFields
    BY <1>1 DEF BundleInv, FilesFit
  <1>3. /\ DOMAIN checker' = CheckerFields /\ checker'.step = "compressed"
        /\ checker'.hashed = checker.hashed /\ checker'.by = checker.by
    BY <1>1, <1>2 DEF CheckerFields
  <1>. QED
    BY <1>1, <1>3 DEF BundleInv, FilesFit, VerdictsEarned, RunsAreClean, PublishedIsSound

LEMMA WriteHolds == ASSUME BundleInv, WriteVerdict PROVE BundleInv'
  <1>1. /\ checker.step = "compressed" /\ checker' = [checker EXCEPT !.step = "written"]
        /\ manifestFile' = Verdict(manifestFile, "passed", checker.hashed, gzip)
        /\ UNCHANGED <<raw, published, stray, damage>>
    BY DEF WriteVerdict
  <1>2. DOMAIN checker = CheckerFields /\ manifestFile # {}
    BY <1>1 DEF BundleInv, FilesFit
  <1>3. /\ DOMAIN checker' = CheckerFields /\ checker'.step = "written" /\ checker'.by = checker.by
    BY <1>1, <1>2 DEF CheckerFields
  <1>4. /\ \A k \in manifestFile' : /\ DOMAIN k = ManifestFields /\ k.raw = checker.hashed
                                    /\ \E m \in manifestFile : k.attributed = m.attributed
        /\ \A k, l \in manifestFile' : k = l
    BY <1>1, VerdictFields DEF BundleInv
  <1>5. manifestFile' # {}
    BY <1>1, <1>2, Zenon DEF Verdict
  <1>6. FilesFit'
    BY <1>1, <1>3, <1>4, <1>5 DEF BundleInv, FilesFit
  <1>7. VerdictsEarned'
    BY <1>1, <1>3, <1>4 DEF BundleInv, VerdictsEarned
  <1>8. RunsAreClean'
    BY <1>1, <1>3, <1>4 DEF BundleInv, RunsAreClean
  <1>. QED
    BY <1>1, <1>6, <1>7, <1>8 DEF BundleInv, PublishedIsSound

LEMMA VerifyHolds == ASSUME BundleInv, VerifyWritten PROVE BundleInv'
  <1>1. PICK m : m = CHOOSE x \in manifestFile : TRUE
    OBVIOUS
  <1>2. /\ checker.step = "written" /\ UNCHANGED <<raw, published, stray, damage>>
        /\ manifestFile' = IF BundleHolds(raw, gzip, m) THEN manifestFile
                           ELSE {[m EXCEPT !.validation = "failed"]}
        /\ checker' = IF BundleHolds(raw, gzip, m) /\ checker.by = "run"
                      THEN [checker EXCEPT !.step = "validated"] ELSE Off
    BY <1>1, Zenon DEF VerifyWritten
  <1>3. DOMAIN checker = CheckerFields /\ m \in manifestFile /\ raw # {}
    BY <1>1, <1>2 DEF BundleInv, FilesFit
  <1>4. CASE BundleHolds(raw, gzip, m) /\ checker.by = "run"
    <2>1. /\ manifestFile' = manifestFile /\ checker' = [checker EXCEPT !.step = "validated"]
      BY <1>2, <1>4
    <2>2. /\ DOMAIN checker' = CheckerFields /\ checker'.step = "validated"
          /\ checker'.by = "run"
      BY <1>3, <1>4, <2>1 DEF CheckerFields
    <2>. QED
      BY <1>2, <1>3, <1>4, <2>1, <2>2
      DEF BundleInv, FilesFit, VerdictsEarned, RunsAreClean, PublishedIsSound
  <1>5. CASE ~ (BundleHolds(raw, gzip, m) /\ checker.by = "run")
    <2>1. checker' = Off
      BY <1>2, <1>5, Zenon
    <2>2. CASE manifestFile' = manifestFile
      <3>1. damage' \in Nat /\ stray' \in BOOLEAN
        BY <1>2 DEF BundleInv, FilesFit
      <3>. QED
        BY <1>2, <2>1, <2>2, <3>1, CheckerGone
    <2>3. CASE manifestFile' = {[m EXCEPT !.validation = "failed"]}
      <3>1. \A k \in manifestFile' : DOMAIN k = ManifestFields /\ k.validation = "failed"
        BY <1>3, <2>3 DEF BundleInv, FilesFit, ManifestFields
      <3>2. checker'.step = "off" /\ \A k, l \in manifestFile' : k = l
        BY <2>1, <2>3 DEF Off
      <3>. QED
        BY <1>2, <3>1, <3>2 DEF BundleInv, FilesFit, VerdictsEarned, RunsAreClean, PublishedIsSound
    <2>. QED
      BY <1>2, <2>2, <2>3
  <1>. QED
    BY <1>4, <1>5

LEMMA PromoteHolds == ASSUME BundleInv, Promote PROVE BundleInv'
  <1>1. PICK m : m = CHOOSE x \in manifestFile : TRUE
    OBVIOUS
  <1>2. /\ checker.step = "validated" /\ checker' = Off /\ UNCHANGED damage
        /\ IF BundleHolds(raw, gzip, m)
           THEN /\ published' = {[gz |-> gzip, by |-> "run",
                                  manifest |-> {[m EXCEPT !.release = "published"]}]}
                /\ stray' = FALSE
                /\ raw' = {} /\ gzip' = {} /\ manifestFile' = {}
           ELSE UNCHANGED <<candidate, published, stray>>
    BY <1>1, Zenon DEF Promote
  <1>3. m \in manifestFile /\ checker.by = "run"
    BY <1>1, <1>2 DEF BundleInv, FilesFit
  <1>4. CASE BundleHolds(raw, gzip, m)
    <2>1. /\ published' = {[gz |-> gzip, by |-> "run",
                            manifest |-> {[m EXCEPT !.release = "published"]}]}
          /\ stray' = FALSE /\ raw' = {} /\ manifestFile' = {}
      BY <1>2, <1>4
    <2>2. PICK ms : ms = {[m EXCEPT !.release = "published"]}
      OBVIOUS
    <2>3. published' = {[gz |-> gzip, by |-> "run", manifest |-> ms]}
      BY <2>1, <2>2
    <2>4. \A p, q \in published' : p = q /\ p.gz = gzip /\ p.manifest = ms /\ p.by = "run"
      BY <2>3
    <2>5. checker'.step = "off"
      BY <1>2 DEF Off
    <2>6. damage' = 0 => \A p \in published' : SoundPair(p.gz, p.manifest)
      <3>. SUFFICES ASSUME damage' = 0
                    PROVE  \A p \in published' : SoundPair(p.gz, p.manifest)
        OBVIOUS
      <3>1. /\ m.attributed
            /\ \A f \in raw : "unservable" \notin f.flaws /\ "pruned" \notin f.flaws
        BY <1>2, <1>3 DEF BundleInv, RunsAreClean
      <3>2. SoundPair(gzip, {[m EXCEPT !.release = "published"]})
        BY <1>3, <1>4, <3>1, BundlesArePublishedSound DEF BundleInv
      <3>. QED
        BY <2>2, <2>4, <3>2
    <2>. QED
      BY <1>2, <2>1, <2>6, <2>4, <2>5
      DEF BundleInv, FilesFit, VerdictsEarned, RunsAreClean, PublishedIsSound
  <1>5. CASE ~ BundleHolds(raw, gzip, m)
    <2>1. UNCHANGED <<raw, manifestFile, published, stray>>
      BY <1>2, <1>5 DEF candidate
    <2>2. damage' \in Nat /\ stray' \in BOOLEAN
      BY <1>2, <2>1 DEF BundleInv, FilesFit
    <2>. QED
      BY <1>2, <2>1, <2>2, CheckerGone
  <1>. QED
    BY <1>4, <1>5

LEMMA PublishJobHolds == ASSUME BundleInv, PublishJob PROVE BundleInv'
  <1>1. PICK m \in manifestFile :
          /\ ReadOnlyChecks(raw, gzip, m, "held", "production")
          /\ published' = {[gz |-> gzip, by |-> "job",
                            manifest |-> {[m EXCEPT !.release = "published"]}]}
    BY Zenon DEF PublishJob
  <1>2. UNCHANGED <<raw, gzip, manifestFile, checker, damage>> /\ stray' = FALSE
    BY DEF PublishJob, candidate
  <1>3. /\ raw # {} /\ BundleHolds(raw, gzip, m)
        /\ \A f \in raw : "unservable" \notin f.flaws /\ "pruned" \notin f.flaws /\ m.attributed
    BY <1>1 DEF ReadOnlyChecks, Refused
  <1>4. SoundPair(gzip, {[m EXCEPT !.release = "published"]})
    BY <1>3, BundlesArePublishedSound DEF BundleInv
  <1>5. PICK ms : ms = {[m EXCEPT !.release = "published"]}
    OBVIOUS
  <1>6. published' = {[gz |-> gzip, by |-> "job", manifest |-> ms]}
    BY <1>1, <1>5
  <1>7. \A p, q \in published' : p = q /\ p.gz = gzip /\ p.manifest = ms
    BY <1>6
  <1>8. \A p \in published' : SoundPair(p.gz, p.manifest)
    BY <1>4, <1>7, <1>5
  <1>. QED
    BY <1>2, <1>7, <1>8 DEF BundleInv, FilesFit, VerdictsEarned, RunsAreClean, PublishedIsSound

LEMMA DamageHolds == ASSUME BundleInv, DamageFile PROVE BundleInv'
  <1>1. /\ UNCHANGED <<manifestFile, checker, published, stray>> /\ damage' = damage + 1
        /\ damage \in Nat
        /\ \/ raw # {} /\ raw' = {TornFile}
           \/ raw' = raw
    BY DEF DamageFile, BundleInv, FilesFit
  <1>2. damage' \in Nat /\ damage' # 0
    BY <1>1
  <1>3. /\ TornFile.flaws \subseteq Flaws /\ ServedOrTorn(TornFile)
    BY DEF TornFile, Flaws, ServedOrTorn
  <1>4. /\ \A f, g \in raw' : f = g
        /\ \A f \in raw' : f.flaws \subseteq Flaws /\ (ServedOrTorn(f) \/ f \in raw)
        /\ raw # {} => raw' # {}
    BY <1>1, <1>3 DEF BundleInv, FilesFit
  <1>5. FilesFit'
    BY <1>1, <1>2, <1>4 DEF BundleInv, FilesFit
  <1>6. VerdictsEarned'
    BY <1>1, <1>4 DEF BundleInv, VerdictsEarned
  <1>. QED
    BY <1>1, <1>2, <1>5, <1>6 DEF BundleInv, RunsAreClean, PublishedIsSound

LEMMA BundleStep == ASSUME BundleInv, [ValidationNext]_validationVars PROVE BundleInv'
  <1>1. CASE UNCHANGED validationVars
    BY <1>1 DEF validationVars, BundleInv, FilesFit, VerdictsEarned, RunsAreClean, PublishedIsSound
  <1>2. CASE HandOver
    <2>1. damage' \in Nat /\ stray' \in BOOLEAN
      BY <1>2 DEF HandOver, BundleInv, FilesFit
    <2>. QED
      BY <1>2, <2>1, CheckerGone DEF HandOver, candidate
  <1>3. CASE Die
    <2>1. damage' \in Nat /\ damage' # 0 /\ stray' \in BOOLEAN
      BY <1>3 DEF Die, BundleInv, FilesFit
    <2>. QED
      BY <1>3, <2>1, CheckerGone DEF Die, candidate
  <1>4. CASE CommitDemo
    BY <1>4 DEF CommitDemo, candidate, BundleInv, FilesFit, VerdictsEarned, RunsAreClean,
                PublishedIsSound
  <1>. QED
    BY <1>1, <1>2, <1>3, <1>4, BuildHolds, CheckHolds, FailureHolds, HashHolds, CompressHolds,
       WriteHolds, VerifyHolds, PromoteHolds, PublishJobHolds, DamageHolds DEF ValidationNext

\* For any candidates, deaths and damage between the steps of a validation: what the
\* publish job commits has no flaw, what a run promotes has none unless a file was
\* damaged, a bundle that agrees with itself was checked, and no honest scan is refused
\* (scripts/validate_snapshot.py, snapshot_artifact.py).
THEOREM ChecksHold == ValidationSpec => []ChecksAreEarned
  <1>1. BundleInv => ChecksAreEarned
    BY BundlesTrue, HonestPass DEF ChecksAreEarned
  <1>. QED
    BY <1>1, BundleStart, BundleStep, PTL DEF ValidationSpec

=============================================================================
