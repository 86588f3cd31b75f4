------------------------- MODULE ArtifactStoreProofs -------------------------
(***************************************************************************)
(* Theorems about ArtifactStore, for any number of processes, keys and     *)
(* staging names, any quota, and every bound on commands, deaths and       *)
(* deletes by hand; and that the store is a HeldCache to its users.        *)
(***************************************************************************)
EXTENDS ArtifactStore, SequenceTheorems, TLAPS

USE SentinelAssumption, StoreAssumption

\* The order of last use stays a sequence of keys.
LEMMA TouchedType ==
    ASSUME recency \in Seq(Keys), NEW k \in Keys
    PROVE  Touched(k) \in Seq(Keys)
<1> DEFINE at == {i \in 1 .. Len(recency) : recency[i] = k}
           i == CHOOSE i \in at : TRUE
           before == SubSeq(recency, 1, i - 1)
           after == SubSeq(recency, i + 1, Len(recency))
<1>1. CASE at = {}
  BY <1>1 DEF Touched
<1>2. CASE at # {}
  <2>1. i \in 1 .. Len(recency) /\ Len(recency) \in Nat
    BY <1>2
  <2>2. 1 \in 1 .. Len(recency) + 1 /\ i - 1 \in 0 .. Len(recency)
    BY <2>1
  <2>3. i + 1 \in 1 .. Len(recency) + 1 /\ Len(recency) \in 0 .. Len(recency)
    BY <2>1
  <2> HIDE DEF i
  <2>4. before \in Seq(Keys)
    BY <2>2, SubSeqProperties
  <2>5. after \in Seq(Keys)
    BY <2>3, SubSeqProperties
  <2> HIDE DEF before, after
  <2>6. Append(before \o after, k) \in Seq(Keys)
    BY <2>4, <2>5
  <2> QED BY <1>2, <2>6 DEF Touched, before, after, i
<1> QED BY <1>1, <1>2

\* What a survey reports and plans.
LEMMA SurveyTypes ==
    ASSUME FilesOK, NEW pinned
    PROVE  Garbage \subseteq Trash /\ Evictions(pinned) \subseteq Nat \X Keys
<1>1. Garbage \subseteq Trash
  BY DEF Garbage, Trash, FilesOK
<1>2. \A i \in 1 .. Len(recency) : i \in Nat /\ recency[i] \in Keys
  BY DEF FilesOK
<1>3. ASSUME NEW e \in Evictions(pinned) PROVE e \in Nat \X Keys
  <2>1. PICK i \in 1 .. Len(recency) : e = <<i, recency[i]>>
    BY DEF Evictions
  <2> QED BY <1>2, <2>1
<1> QED BY <1>1, <1>3

\* Where a look at the entry leads, from l: on to the read, back to the start, to
\* the fetch lock, to a repair or a fetch under it, to the sweep or the run under
\* the in-use lock, or to the stamp of its last use.
Looked(p, l) ==
    \/ l = "read" /\ UNCHANGED <<back, shared>>
    \/ /\ l = "exists" /\ back' = [back EXCEPT ![p] = "ensure"]
       /\ shared' \in {shared, [shared EXCEPT ![key[p]] = @ \ {p}]}
    \/ l = "elock" /\ UNCHANGED <<back, shared>>
    \/ /\ l \in {"repair", "stage"} /\ back[p] = "relook"
       /\ entry[key[p]] # "whole" /\ UNCHANGED <<back, shared>>
    \/ /\ l \in {"survey", "run"} /\ back[p] = "check"
       /\ entry[key[p]] \in {"part", "whole"} /\ UNCHANGED <<back, shared>>
    \/ /\ l = "touch" /\ back[p] \in {"ensure", "relook"}
       /\ entry[key[p]] \in {"part", "whole"} /\ UNCHANGED <<back, shared>>

\* A look changes nothing but the place of the process, and its in-use lock.
LEMMA LookFacts ==
    ASSUME TypeOK, NEW p \in Procs, FindExists(p) \/ FindRead(p)
    PROVE  /\ pc[p] \in {"exists", "read"}
           /\ UNCHANGED <<entry, dir, file, elock, excl, slock, key, name, victim,
                          trash, deletes>>
           /\ \E l : pc' = [pc EXCEPT ![p] = l] /\ Looked(p, l)
<1>1. back[p] \in {"first", "ensure", "relook", "check"}
  BY DEF TypeOK, ProcsOK
<1>2. /\ pc[p] \in {"exists", "read"}
      /\ UNCHANGED <<entry, dir, file, elock, excl, slock, key, name, victim, trash,
                     deletes>>
  BY DEF FindExists, FindRead, fileVars, sweepVars, boundVars
<1>3. ASSUME Missing(p), entry[key[p]] # "whole"
      PROVE  \E l : pc' = [pc EXCEPT ![p] = l] /\ Looked(p, l)
  <2>1. CASE back[p] = "first"
    BY <1>3, <2>1 DEF Missing, Goto, Looked
  <2>2. CASE back[p] = "ensure"
    BY <1>3, <2>2 DEF Missing, Goto, Looked
  <2>3. CASE back[p] = "relook"
    <3> DEFINE l == IF entry[key[p]] = "torn" THEN "repair" ELSE "stage"
    <3>1. pc' = [pc EXCEPT ![p] = l] /\ UNCHANGED <<back, shared>>
      BY <1>3, <2>3 DEF Missing, Goto
    <3>2. Looked(p, l)
      BY <1>3, <2>3, <3>1 DEF Looked
    <3> QED BY <3>1, <3>2
  <2>4. CASE back[p] = "check"
    <3>1. /\ pc' = [pc EXCEPT ![p] = "exists"]
          /\ back' = [back EXCEPT ![p] = "ensure"]
          /\ shared' = [shared EXCEPT ![key[p]] = @ \ {p}]
      BY <1>3, <2>4 DEF Missing, Goto
    <3> QED BY <3>1 DEF Looked
  <2> QED BY <1>1, <2>1, <2>2, <2>3, <2>4
<1>4. ASSUME Present(p), entry[key[p]] \in {"part", "whole"}
      PROVE  \E l : pc' = [pc EXCEPT ![p] = l] /\ Looked(p, l)
  <2>1. CASE back[p] = "first"
    BY <1>4, <2>1 DEF Present, Goto, Looked
  <2>2. CASE back[p] \in {"ensure", "relook"}
    BY <1>4, <2>2 DEF Present, Goto, Looked
  <2>3. CASE back[p] = "check"
    <3> DEFINE l == IF collect[p] THEN "survey" ELSE "run"
    <3>1. pc' = [pc EXCEPT ![p] = l] /\ UNCHANGED <<back, shared>>
      BY <1>4, <2>3 DEF Present, Goto
    <3>2. Looked(p, l)
      BY <1>4, <2>3, <3>1 DEF Looked
    <3> QED BY <3>1, <3>2
  <2> QED BY <1>1, <2>1, <2>2, <2>3
<1>5. CASE FindExists(p) /\ HasManifest(key[p])
  BY <1>2, <1>5 DEF FindExists, Goto, Looked
<1>6. CASE FindExists(p) /\ ~ HasManifest(key[p])
  BY <1>2, <1>3, <1>6 DEF FindExists, HasManifest
<1>7. CASE FindRead(p) /\ entry[key[p]] = "torn"
  BY <1>2, <1>3, <1>7 DEF FindRead
<1>8. CASE FindRead(p) /\ entry[key[p]] # "torn"
  BY <1>2, <1>4, <1>8 DEF FindRead, HasManifest
<1> QED BY <1>2, <1>5, <1>6, <1>7, <1>8

\* A move finds the entry gone, or takes it to a new name n in staging.
Moves(p) ==
    /\ pc[p] = "move"
    /\ excl' = [excl EXCEPT ![victim[p]] = NoProc]
    /\ victim' = [victim EXCEPT ![p] = NoKey]
    /\ UNCHANGED <<file, elock, shared, slock, key, back, collect, tries, trash, deletes>>
Unmoved(p) ==
    /\ Moves(p)
    /\ pc' = [pc EXCEPT ![p] = "apply"]
    /\ UNCHANGED <<entry, dir, name>>
Moved(p, n) ==
    /\ Moves(p)
    /\ slock[n] = NoProc /\ \A q \in Procs : name[q] # n
    /\ pc' = [pc EXCEPT ![p] = "delete"]
    /\ entry' = [entry EXCEPT ![victim[p]] = "absent"]
    /\ dir' = [dir EXCEPT ![n] = "doomed"]
    /\ name' = [name EXCEPT ![p] = n]

LEMMA MoveFacts ==
    ASSUME NEW p \in Procs, MoveOut(p)
    PROVE  Unmoved(p) \/ \E n \in Names : Moved(p, n)
<1>1. Moves(p)
  BY DEF MoveOut, Moves, boundVars
<1>2. CASE entry[victim[p]] = "absent"
  BY <1>1, <1>2 DEF MoveOut, Goto, Unmoved
<1>3. CASE entry[victim[p]] # "absent"
  BY <1>1, <1>3 DEF MoveOut, Goto, Fresh, Moved
<1> QED BY <1>2, <1>3

\* A crash forgets the process, and may leave the torn entry of a repair a husk.
LEMMA CrashFacts ==
    ASSUME NEW p \in Procs, Crash(p)
    PROVE  /\ pc' = [pc EXCEPT ![p] = "idle"]
           /\ key' = [key EXCEPT ![p] = NoKey]
           /\ UNCHANGED deletes
           /\ \/ entry' = entry
              \/ entry[key[p]] = "torn" /\ entry' = [entry EXCEPT ![key[p]] = "husk"]
  BY DEF Crash, Forgotten, Goto


\* Files and directories.
LEMMA FilesStep ==
    ASSUME TypeOK, Scopes, [Next]_vars
    PROVE  FilesOK'
<1>1. ASSUME UNCHANGED <<entry, recency, dir, file>> PROVE FilesOK'
  BY <1>1 DEF TypeOK, FilesOK, Contents, Staged
<1>2. ASSUME NEW p \in Procs, Crash(p) PROVE FilesOK'
  BY <1>2 DEF Crash, TypeOK, FilesOK, Contents
<1>3. ASSUME NEW p \in Procs, Touch(p) PROVE FilesOK'
  <2>1. key[p] \in Keys
    BY <1>3 DEF Touch, Scopes, Sweeping
  <2>2. Touched(key[p]) \in Seq(Keys)
    BY <2>1, TouchedType DEF TypeOK, FilesOK
  <2> QED BY <1>3, <2>2 DEF Touch, TypeOK, FilesOK, Contents, Staged
<1>4. ASSUME NEW p \in Procs, Repair(p) PROVE FilesOK'
  BY <1>4 DEF Repair, Goto, TypeOK, FilesOK, Contents, Staged
<1>5. ASSUME NEW p \in Procs, CreateLockFile(p) PROVE FilesOK'
  BY <1>5 DEF CreateLockFile, Fresh, Goto, TypeOK, FilesOK, Contents, Staged
<1>6. ASSUME NEW p \in Procs, LockStaged(p) PROVE FilesOK'
  BY <1>6 DEF LockStaged, Goto, TypeOK, FilesOK, Contents, Staged
<1>7. ASSUME NEW p \in Procs, FetchFails(p) PROVE FilesOK'
  BY <1>7 DEF FetchFails, TypeOK, FilesOK, Staged
<1>8. ASSUME NEW p \in Procs, WipeTarget(p) PROVE FilesOK'
  BY <1>8 DEF WipeTarget, Goto, TypeOK, FilesOK, Contents, Staged
<1>9. ASSUME NEW p \in Procs, WipeFails(p) PROVE FilesOK'
  BY <1>9 DEF WipeFails, TypeOK, FilesOK, Staged
<1>10. ASSUME NEW p \in Procs, Publish(p) PROVE FilesOK'
  <2>1. key[p] \in Keys
    BY <1>10 DEF Publish, Scopes, Sweeping
  <2>2. Touched(key[p]) \in Seq(Keys)
    BY <2>1, TouchedType DEF TypeOK, FilesOK
  <2> QED BY <1>10, <2>2 DEF Publish, TypeOK, FilesOK, Contents, Staged
<1>11. ASSUME NEW p \in Procs, Unstage(p) PROVE FilesOK'
  BY <1>11 DEF Unstage, Goto, TypeOK, FilesOK, Contents, Staged
<1>12. ASSUME NEW p \in Procs, MoveOut(p) PROVE FilesOK'
  BY <1>12 DEF MoveOut, Goto, Fresh, TypeOK, FilesOK, Contents, Staged
<1>13. ASSUME NEW p \in Procs, DeleteDoomed(p) PROVE FilesOK'
  BY <1>13 DEF DeleteDoomed, Goto, TypeOK, FilesOK, Contents, Staged
<1>14. ASSUME NEW p \in Procs, RemoveStagedDir(p) PROVE FilesOK'
  BY <1>14 DEF RemoveStagedDir, Goto, TypeOK, FilesOK, Contents, Staged
<1>15. ASSUME NEW p \in Procs, RemoveStagingLock(p) PROVE FilesOK'
  BY <1>15 DEF RemoveStagingLock, Goto, TypeOK, FilesOK, Contents, Staged
<1>16. ASSUME NEW k \in Keys, Delete(k) PROVE FilesOK'
  BY <1>16 DEF Delete, TypeOK, FilesOK, Contents, Staged
<1>17. ASSUME NEW p \in Procs, Resolve(p) \/ StartGc(p) \/ FindExists(p) \/
   FindRead(p) \/ FindReadFails(p) \/ LockEntry(p) \/ RepairFails(p) \/
   LockStagedFails(p) \/ FetchDone(p) \/ ClearTarget(p) \/ Hold(p) \/ FinishRun(p)
   \/ Survey(p) \/ RemoveGarbageEntry(p) \/ RemoveLive(p) \/ RemoveStaged(p) \/
   SkipStaged(p) \/ SweepRound(p) PROVE UNCHANGED <<entry, recency, dir, file>>
  BY <1>17 DEF Resolve, fileVars, StartGc, FindExists, FindRead, FindReadFails,
     Fails, LockEntry, RepairFails, LockStagedFails, FetchDone, ClearTarget, Hold,
     FinishRun, Survey, RemoveGarbageEntry, RemoveLive, RemoveStaged, SkipStaged,
     SweepRound
<1>18. CASE UNCHANGED vars
  BY <1>1, <1>18 DEF vars, fileVars
<1> QED
  BY <1>1, <1>2, <1>3, <1>4, <1>5, <1>6, <1>7, <1>8, <1>9, <1>10, <1>11, <1>12,
     <1>13, <1>14, <1>15, <1>16, <1>17, <1>18 DEF Next, Step, ResolveStep, SweepStep

\* The locks are of processes.
LEMMA LocksStep ==
    ASSUME TypeOK, [Next]_vars
    PROVE  LocksOK'
<1>1. ASSUME UNCHANGED <<elock, shared, excl, slock>> PROVE LocksOK'
  BY <1>1 DEF TypeOK, LocksOK
<1>2. ASSUME NEW p \in Procs, Crash(p) PROVE LocksOK'
  BY <1>2 DEF Crash, Forgotten, DropLocks, Goto, TypeOK, LocksOK
<1>3. ASSUME NEW p \in Procs, FindExists(p) PROVE LocksOK'
  <2>1. PICK l : pc' = [pc EXCEPT ![p] = l] /\ Looked(p, l)
    BY <1>3, LookFacts
  <2> QED BY <1>3, <2>1, LookFacts DEF Looked, TypeOK, LocksOK
<1>4. ASSUME NEW p \in Procs, FindRead(p) PROVE LocksOK'
  <2>1. PICK l : pc' = [pc EXCEPT ![p] = l] /\ Looked(p, l)
    BY <1>4, LookFacts
  <2> QED BY <1>4, <2>1, LookFacts DEF Looked, TypeOK, LocksOK
<1>5. ASSUME NEW p \in Procs, FindReadFails(p) PROVE LocksOK'
  BY <1>5 DEF FindReadFails, Fails, Ends, Forgotten, DropLocks, TypeOK, LocksOK
<1>6. ASSUME NEW p \in Procs, Touch(p) PROVE LocksOK'
  BY <1>6 DEF Touch, Goto, TypeOK, LocksOK
<1>7. ASSUME NEW p \in Procs, LockEntry(p) PROVE LocksOK'
  BY <1>7 DEF LockEntry, Goto, TypeOK, LocksOK
<1>8. ASSUME NEW p \in Procs, RepairFails(p) PROVE LocksOK'
  BY <1>8 DEF RepairFails, Fails, Ends, Forgotten, DropLocks, TypeOK, LocksOK
<1>9. ASSUME NEW p \in Procs, LockStaged(p) PROVE LocksOK'
  BY <1>9 DEF LockStaged, Goto, TypeOK, LocksOK
<1>10. ASSUME NEW p \in Procs, LockStagedFails(p) PROVE LocksOK'
  BY <1>10 DEF LockStagedFails, Fails, Ends, Forgotten, DropLocks, TypeOK, LocksOK
<1>11. ASSUME NEW p \in Procs, FetchFails(p) PROVE LocksOK'
  BY <1>11 DEF FetchFails, Ends, Forgotten, DropLocks, Goto, TypeOK, LocksOK
<1>12. ASSUME NEW p \in Procs, WipeFails(p) PROVE LocksOK'
  BY <1>12 DEF WipeFails, Ends, Forgotten, DropLocks, Goto, TypeOK, LocksOK
<1>13. ASSUME NEW p \in Procs, Unstage(p) PROVE LocksOK'
  BY <1>13 DEF Unstage, Goto, TypeOK, LocksOK
<1>14. ASSUME NEW p \in Procs, Hold(p) PROVE LocksOK'
  BY <1>14 DEF Hold, Goto, TypeOK, LocksOK
<1>15. ASSUME NEW p \in Procs, FinishRun(p) PROVE LocksOK'
  BY <1>15 DEF FinishRun, Ends, Forgotten, DropLocks, Goto, TypeOK, LocksOK
<1>16. ASSUME NEW p \in Procs, RemoveGarbageEntry(p) PROVE LocksOK'
  BY <1>16 DEF RemoveGarbageEntry, TakeInUse, Goto, TypeOK, LocksOK
<1>17. ASSUME NEW p \in Procs, RemoveLive(p) PROVE LocksOK'
  BY <1>17 DEF RemoveLive, TakeInUse, Goto, TypeOK, LocksOK
<1>18. ASSUME NEW p \in Procs, MoveOut(p) PROVE LocksOK'
  BY <1>18 DEF MoveOut, Goto, Fresh, TypeOK, LocksOK
<1>19. ASSUME NEW p \in Procs, RemoveStaged(p) PROVE LocksOK'
  BY <1>19 DEF RemoveStaged, TakeStagingLock, Lockable, Goto, TypeOK, LocksOK
<1>20. ASSUME NEW p \in Procs, RemoveStagingLock(p) PROVE LocksOK'
  BY <1>20 DEF RemoveStagingLock, Goto, TypeOK, LocksOK
<1>21. ASSUME NEW p \in Procs, SweepRound(p) PROVE LocksOK'
  BY <1>21 DEF SweepRound, Ends, Forgotten, DropLocks, lockVars, TypeOK, LocksOK
<1>22. ASSUME NEW p \in Procs, Resolve(p) \/ StartGc(p) \/ Repair(p) \/
   CreateLockFile(p) \/ FetchDone(p) \/ ClearTarget(p) \/ WipeTarget(p) \/
   Publish(p) \/ Survey(p) \/ DeleteDoomed(p) \/ SkipStaged(p) \/ RemoveStagedDir(p)
   PROVE UNCHANGED <<elock, shared, excl, slock>>
  BY <1>22 DEF Resolve, lockVars, StartGc, Repair, CreateLockFile, FetchDone,
     ClearTarget, WipeTarget, Publish, Survey, DeleteDoomed, SkipStaged,
     RemoveStagedDir
<1>23. ASSUME NEW k \in Keys, Delete(k) PROVE UNCHANGED <<elock, shared, excl,
   slock>>
  BY <1>23 DEF Delete, lockVars
<1>24. CASE UNCHANGED vars
  BY <1>1, <1>24 DEF vars, lockVars
<1> QED
  BY <1>1, <1>2, <1>3, <1>4, <1>5, <1>6, <1>7, <1>8, <1>9, <1>10, <1>11, <1>12,
     <1>13, <1>14, <1>15, <1>16, <1>17, <1>18, <1>19, <1>20, <1>21, <1>22, <1>23,
     <1>24 DEF Next, Step, ResolveStep, SweepStep

\* The processes.
LEMMA ProcsStep ==
    ASSUME TypeOK, [Next]_vars
    PROVE  ProcsOK'
<1>1. ASSUME UNCHANGED <<pc, key, back, collect, name, tries>> PROVE ProcsOK'
  BY <1>1 DEF TypeOK, ProcsOK, PC
<1>2. ASSUME NEW p \in Procs, Resolve(p) PROVE ProcsOK'
  BY <1>2 DEF Resolve, Goto, TypeOK, ProcsOK, PC
<1>3. ASSUME NEW p \in Procs, StartGc(p) PROVE ProcsOK'
  BY <1>3 DEF StartGc, Goto, TypeOK, ProcsOK, PC
<1>4. ASSUME NEW p \in Procs, Crash(p) PROVE ProcsOK'
  BY <1>4 DEF Crash, Forgotten, DropLocks, Goto, TypeOK, ProcsOK, PC
<1>5. ASSUME NEW p \in Procs, FindExists(p) PROVE ProcsOK'
  BY <1>5 DEF FindExists, HasManifest, Goto, Missing, TypeOK, ProcsOK, PC
<1>6. ASSUME NEW p \in Procs, FindRead(p) PROVE ProcsOK'
  BY <1>6 DEF FindRead, HasManifest, Missing, Goto, Present, TypeOK, ProcsOK, PC
<1>7. ASSUME NEW p \in Procs, FindReadFails(p) PROVE ProcsOK'
  BY <1>7 DEF FindReadFails, Fails, Ends, Forgotten, Goto, TypeOK, ProcsOK, PC
<1>8. ASSUME NEW p \in Procs, Touch(p) PROVE ProcsOK'
  BY <1>8 DEF Touch, Goto, TypeOK, ProcsOK, PC
<1>9. ASSUME NEW p \in Procs, LockEntry(p) PROVE ProcsOK'
  BY <1>9 DEF LockEntry, Goto, TypeOK, ProcsOK, PC
<1>10. ASSUME NEW p \in Procs, Repair(p) PROVE ProcsOK'
  BY <1>10 DEF Repair, Goto, TypeOK, ProcsOK, PC
<1>11. ASSUME NEW p \in Procs, RepairFails(p) PROVE ProcsOK'
  BY <1>11 DEF RepairFails, Fails, Ends, Forgotten, Goto, TypeOK, ProcsOK, PC
<1>12. ASSUME NEW p \in Procs, CreateLockFile(p) PROVE ProcsOK'
  BY <1>12 DEF CreateLockFile, Fresh, Goto, TypeOK, ProcsOK, PC
<1>13. ASSUME NEW p \in Procs, LockStaged(p) PROVE ProcsOK'
  BY <1>13 DEF LockStaged, Goto, TypeOK, ProcsOK, PC
<1>14. ASSUME NEW p \in Procs, LockStagedFails(p) PROVE ProcsOK'
  BY <1>14 DEF LockStagedFails, Fails, Ends, Forgotten, Goto, TypeOK, ProcsOK, PC
<1>15. ASSUME NEW p \in Procs, FetchDone(p) PROVE ProcsOK'
  BY <1>15 DEF FetchDone, Goto, TypeOK, ProcsOK, PC
<1>16. ASSUME NEW p \in Procs, FetchFails(p) PROVE ProcsOK'
  BY <1>16 DEF FetchFails, Ends, Forgotten, Goto, TypeOK, ProcsOK, PC
<1>17. ASSUME NEW p \in Procs, ClearTarget(p) PROVE ProcsOK'
  BY <1>17 DEF ClearTarget, Goto, TypeOK, ProcsOK, PC
<1>18. ASSUME NEW p \in Procs, WipeTarget(p) PROVE ProcsOK'
  BY <1>18 DEF WipeTarget, Goto, TypeOK, ProcsOK, PC
<1>19. ASSUME NEW p \in Procs, WipeFails(p) PROVE ProcsOK'
  BY <1>19 DEF WipeFails, Ends, Forgotten, Goto, TypeOK, ProcsOK, PC
<1>20. ASSUME NEW p \in Procs, Publish(p) PROVE ProcsOK'
  BY <1>20 DEF Publish, Goto, TypeOK, ProcsOK, PC
<1>21. ASSUME NEW p \in Procs, Unstage(p) PROVE ProcsOK'
  BY <1>21 DEF Unstage, Goto, TypeOK, ProcsOK, PC
<1>22. ASSUME NEW p \in Procs, Hold(p) PROVE ProcsOK'
  BY <1>22 DEF Hold, Goto, TypeOK, ProcsOK, PC
<1>23. ASSUME NEW p \in Procs, FinishRun(p) PROVE ProcsOK'
  BY <1>23 DEF FinishRun, Ends, Forgotten, Goto, TypeOK, ProcsOK, PC
<1>24. ASSUME NEW p \in Procs, Survey(p) PROVE ProcsOK'
  BY <1>24 DEF Survey, Goto, TypeOK, ProcsOK, PC
<1>25. ASSUME NEW p \in Procs, RemoveGarbageEntry(p) PROVE ProcsOK'
  BY <1>25 DEF RemoveGarbageEntry, TakeInUse, Goto, TypeOK, ProcsOK, PC
<1>26. ASSUME NEW p \in Procs, RemoveLive(p) PROVE ProcsOK'
  BY <1>26 DEF RemoveLive, TakeInUse, Goto, TypeOK, ProcsOK, PC
<1>27. ASSUME NEW p \in Procs, MoveOut(p) PROVE ProcsOK'
  <2>1. CASE Unmoved(p)
    BY <2>1 DEF Unmoved, Moves, TypeOK, ProcsOK, PC
  <2>2. ASSUME NEW n \in Names, Moved(p, n) PROVE ProcsOK'
    BY <2>2 DEF Moved, Moves, TypeOK, ProcsOK, PC
  <2> QED BY <1>27, <2>1, <2>2, MoveFacts
<1>28. ASSUME NEW p \in Procs, DeleteDoomed(p) PROVE ProcsOK'
  BY <1>28 DEF DeleteDoomed, Goto, TypeOK, ProcsOK, PC
<1>29. ASSUME NEW p \in Procs, RemoveStaged(p) PROVE ProcsOK'
  BY <1>29 DEF RemoveStaged, TakeStagingLock, Lockable, Goto, TypeOK, ProcsOK, PC
<1>30. ASSUME NEW p \in Procs, RemoveStagedDir(p) PROVE ProcsOK'
  BY <1>30 DEF RemoveStagedDir, Goto, TypeOK, ProcsOK, PC
<1>31. ASSUME NEW p \in Procs, RemoveStagingLock(p) PROVE ProcsOK'
  BY <1>31 DEF RemoveStagingLock, Goto, TypeOK, ProcsOK, PC
<1>32. ASSUME NEW p \in Procs, SweepRound(p) PROVE ProcsOK'
  <2>1. CASE again[p]
    BY <1>32, <2>1 DEF SweepRound, Goto, TypeOK, ProcsOK, PC
  <2>2. CASE ~ again[p] /\ key[p] = NoKey
    <3>1. Ends(p)
      BY <1>32, <2>2 DEF SweepRound
    <3> QED BY <3>1 DEF Ends, Forgotten, Goto, TypeOK, ProcsOK, PC
  <2>3. CASE ~ again[p] /\ key[p] # NoKey
    BY <1>32, <2>3 DEF SweepRound, Goto, TypeOK, ProcsOK, PC
  <2> QED BY <2>1, <2>2, <2>3
<1>33. ASSUME NEW p \in Procs, SkipStaged(p) PROVE UNCHANGED <<pc, key, back,
   collect, name, tries>>
  BY <1>33 DEF SkipStaged, Lockable, procVars
<1>34. ASSUME NEW k \in Keys, Delete(k) PROVE UNCHANGED <<pc, key, back, collect,
   name, tries>>
  BY <1>34 DEF Delete, procVars
<1>35. CASE UNCHANGED vars
  BY <1>1, <1>35 DEF vars, procVars
<1> QED
  BY <1>1, <1>2, <1>3, <1>4, <1>5, <1>6, <1>7, <1>8, <1>9, <1>10, <1>11, <1>12,
     <1>13, <1>14, <1>15, <1>16, <1>17, <1>18, <1>19, <1>20, <1>21, <1>22, <1>23,
     <1>24, <1>25, <1>26, <1>27, <1>28, <1>29, <1>30, <1>31, <1>32, <1>33, <1>34,
     <1>35 DEF Next, Step, ResolveStep, SweepStep

\* The sweeps.
LEMMA SweepsStep ==
    ASSUME TypeOK, [Next]_vars
    PROVE  SweepsOK'
<1>1. ASSUME UNCHANGED <<victim, pins, trash, live, again>> PROVE SweepsOK'
  BY <1>1 DEF TypeOK, SweepsOK
<1>2. ASSUME NEW p \in Procs, Crash(p) PROVE SweepsOK'
  BY <1>2 DEF Crash, Forgotten, DropLocks, Goto, TypeOK, SweepsOK
<1>3. ASSUME NEW p \in Procs, FindReadFails(p) PROVE SweepsOK'
  BY <1>3 DEF FindReadFails, Fails, Ends, Forgotten, TypeOK, SweepsOK
<1>4. ASSUME NEW p \in Procs, RepairFails(p) PROVE SweepsOK'
  BY <1>4 DEF RepairFails, Fails, Ends, Forgotten, TypeOK, SweepsOK
<1>5. ASSUME NEW p \in Procs, LockStagedFails(p) PROVE SweepsOK'
  BY <1>5 DEF LockStagedFails, Fails, Ends, Forgotten, TypeOK, SweepsOK
<1>6. ASSUME NEW p \in Procs, FetchFails(p) PROVE SweepsOK'
  BY <1>6 DEF FetchFails, Ends, Forgotten, DropLocks, Goto, TypeOK, SweepsOK
<1>7. ASSUME NEW p \in Procs, WipeFails(p) PROVE SweepsOK'
  BY <1>7 DEF WipeFails, Ends, Forgotten, DropLocks, Goto, TypeOK, SweepsOK
<1>8. ASSUME NEW p \in Procs, FinishRun(p) PROVE SweepsOK'
  BY <1>8 DEF FinishRun, Ends, Forgotten, DropLocks, Goto, TypeOK, SweepsOK
<1>9. ASSUME NEW p \in Procs, Survey(p) PROVE SweepsOK'
  <2>1. Garbage \subseteq Trash /\ \A pinned : Evictions(pinned) \subseteq Nat \X Keys
    BY SurveyTypes DEF TypeOK
  <2>2. {key[p]} \ {NoKey} \subseteq Keys
    BY DEF TypeOK, ProcsOK
  <2> QED BY <1>9, <2>1, <2>2 DEF Survey, TypeOK, SweepsOK
<1>10. ASSUME NEW p \in Procs, RemoveGarbageEntry(p) PROVE SweepsOK'
  BY <1>10 DEF RemoveGarbageEntry, TakeInUse, Goto, TypeOK, SweepsOK
<1>11. ASSUME NEW p \in Procs, RemoveLive(p) PROVE SweepsOK'
  <2>1. PICK next \in live[p] :
          live' = [live EXCEPT ![p] = @ \ {next}] /\ TakeInUse(p, next[2], FALSE)
    BY <1>11 DEF RemoveLive
  <2>2. next[2] \in Keys
    BY <2>1 DEF TypeOK, SweepsOK
  <2>3. live' \in [Procs -> SUBSET (Nat \X Keys)]
    BY <2>1 DEF TypeOK, SweepsOK
  <2>4. UNCHANGED trash
    BY <1>11 DEF RemoveLive
  <2>5. victim' \in [Procs -> Keys \cup {NoKey}] /\ pins' \in [Procs -> SUBSET Keys]
    BY <2>1, <2>2 DEF TakeInUse, TypeOK, SweepsOK
  <2>6. again' \in [Procs -> BOOLEAN]
    <3>1. \E b \in BOOLEAN : again' = [again EXCEPT ![p] = b] \/ again' = again
      BY <2>1 DEF TakeInUse
    <3> QED BY <3>1 DEF TypeOK, SweepsOK
  <2> QED BY <2>3, <2>4, <2>5, <2>6 DEF TypeOK, SweepsOK
<1>12. ASSUME NEW p \in Procs, MoveOut(p) PROVE SweepsOK'
  BY <1>12 DEF MoveOut, Goto, Fresh, TypeOK, SweepsOK
<1>13. ASSUME NEW p \in Procs, RemoveStaged(p) PROVE SweepsOK'
  BY <1>13 DEF RemoveStaged, TakeStagingLock, Lockable, Goto, TypeOK, SweepsOK
<1>14. ASSUME NEW p \in Procs, SkipStaged(p) PROVE SweepsOK'
  BY <1>14 DEF SkipStaged, Lockable, TypeOK, SweepsOK
<1>15. ASSUME NEW p \in Procs, SweepRound(p) PROVE SweepsOK'
  BY <1>15 DEF SweepRound, Goto, Ends, Forgotten, DropLocks, sweepVars, TypeOK,
     SweepsOK
<1>16. ASSUME NEW p \in Procs, Resolve(p) \/ StartGc(p) \/ FindExists(p) \/
   FindRead(p) \/ Touch(p) \/ LockEntry(p) \/ Repair(p) \/ CreateLockFile(p) \/
   LockStaged(p) \/ FetchDone(p) \/ ClearTarget(p) \/ WipeTarget(p) \/ Publish(p) \/
   Unstage(p) \/ Hold(p) \/ DeleteDoomed(p) \/ RemoveStagedDir(p) \/
   RemoveStagingLock(p) PROVE UNCHANGED <<victim, pins, trash, live, again>>
  BY <1>16 DEF Resolve, sweepVars, StartGc, FindExists, FindRead, Touch, LockEntry,
     Repair, CreateLockFile, LockStaged, FetchDone, ClearTarget, WipeTarget,
     Publish, Unstage, Hold, DeleteDoomed, RemoveStagedDir, RemoveStagingLock
<1>17. ASSUME NEW k \in Keys, Delete(k) PROVE UNCHANGED <<victim, pins, trash, live,
   again>>
  BY <1>17 DEF Delete, sweepVars
<1>18. CASE UNCHANGED vars
  BY <1>1, <1>18 DEF vars, sweepVars
<1> QED
  BY <1>1, <1>2, <1>3, <1>4, <1>5, <1>6, <1>7, <1>8, <1>9, <1>10, <1>11, <1>12,
     <1>13, <1>14, <1>15, <1>16, <1>17, <1>18 DEF Next, Step, ResolveStep, SweepStep

\* The bounds hold.
LEMMA BoundsStep ==
    ASSUME TypeOK, [Next]_vars
    PROVE  BoundsOK'
<1>1. ASSUME UNCHANGED <<starts, crashes, deletes, swept>> PROVE BoundsOK'
  BY <1>1 DEF TypeOK, BoundsOK
<1>2. ASSUME NEW p \in Procs, Resolve(p) PROVE BoundsOK'
  BY <1>2 DEF Resolve, Goto, TypeOK, BoundsOK
<1>3. ASSUME NEW p \in Procs, StartGc(p) PROVE BoundsOK'
  BY <1>3 DEF StartGc, Goto, TypeOK, BoundsOK
<1>4. ASSUME NEW p \in Procs, Crash(p) PROVE BoundsOK'
  BY <1>4 DEF Crash, Forgotten, DropLocks, Goto, TypeOK, BoundsOK
<1>5. ASSUME NEW p \in Procs, FindReadFails(p) PROVE BoundsOK'
  BY <1>5 DEF FindReadFails, Fails, Ends, boundVars, TypeOK, BoundsOK
<1>6. ASSUME NEW k \in Keys, Delete(k) PROVE BoundsOK'
  BY <1>6 DEF Delete, TypeOK, BoundsOK
<1>7. ASSUME NEW p \in Procs, FindExists(p) \/ FindRead(p) \/ Touch(p) \/
   LockEntry(p) \/ Repair(p) \/ RepairFails(p) \/ CreateLockFile(p) \/ LockStaged(p)
   \/ LockStagedFails(p) \/ FetchDone(p) \/ FetchFails(p) \/ ClearTarget(p) \/
   WipeTarget(p) \/ WipeFails(p) \/ Publish(p) \/ Unstage(p) \/ Hold(p) \/
   FinishRun(p) \/ Survey(p) \/ RemoveGarbageEntry(p) \/ RemoveLive(p) \/ MoveOut(p)
   \/ DeleteDoomed(p) \/ RemoveStaged(p) \/ SkipStaged(p) \/ RemoveStagedDir(p) \/
   RemoveStagingLock(p) \/ SweepRound(p) PROVE UNCHANGED <<starts, crashes, deletes,
   swept>>
  BY <1>7 DEF FindExists, boundVars, FindRead, Touch, LockEntry, Repair,
     RepairFails, Fails, Ends, CreateLockFile, LockStaged, LockStagedFails,
     FetchDone, FetchFails, ClearTarget, WipeTarget, WipeFails, Publish, Unstage,
     Hold, FinishRun, Survey, RemoveGarbageEntry, RemoveLive, MoveOut, DeleteDoomed,
     RemoveStaged, SkipStaged, RemoveStagedDir, RemoveStagingLock, SweepRound
<1>8. CASE UNCHANGED vars
  BY <1>1, <1>8 DEF vars, boundVars
<1> QED
  BY <1>1, <1>2, <1>3, <1>4, <1>5, <1>6, <1>7, <1>8 DEF Next, Step, ResolveStep,
     SweepStep

\* Names come and go with the places they are needed in.
LEMMA ScopesStep ==
    ASSUME TypeOK, Scopes, [Next]_vars
    PROVE  Scopes'
<1>1. ASSUME UNCHANGED <<pc, key, back, name, victim>> PROVE Scopes'
  BY <1>1 DEF TypeOK, ProcsOK, SweepsOK, Scopes, Staging, Sweeping, PC
<1>2. ASSUME NEW p \in Procs, Resolve(p) PROVE Scopes'
  BY <1>2 DEF Resolve, Goto, sweepVars, TypeOK, ProcsOK, Scopes, Staging
<1>3. ASSUME NEW p \in Procs, StartGc(p) PROVE Scopes'
  BY <1>3 DEF StartGc, Goto, sweepVars, Scopes, Staging, Sweeping
<1>4. ASSUME NEW p \in Procs, Crash(p) PROVE Scopes'
  BY <1>4 DEF Crash, Forgotten, Goto, TypeOK, ProcsOK, Scopes, Staging
<1>5. ASSUME NEW p \in Procs, FindExists(p) PROVE Scopes'
  <2>1. PICK l : pc' = [pc EXCEPT ![p] = l] /\ Looked(p, l)
    BY <1>5, LookFacts
  <2> QED BY <1>5, <2>1, LookFacts DEF Looked, TypeOK, ProcsOK, SweepsOK, Scopes,
     Staging, Sweeping, PC
<1>6. ASSUME NEW p \in Procs, FindRead(p) PROVE Scopes'
  <2>1. PICK l : pc' = [pc EXCEPT ![p] = l] /\ Looked(p, l)
    BY <1>6, LookFacts
  <2> QED BY <1>6, <2>1, LookFacts DEF Looked, TypeOK, ProcsOK, SweepsOK, Scopes,
     Staging, Sweeping, PC
<1>7. ASSUME NEW p \in Procs, FindReadFails(p) PROVE Scopes'
  BY <1>7 DEF FindReadFails, Fails, Ends, Forgotten, Goto, TypeOK, ProcsOK, Scopes,
     Staging
<1>8. ASSUME NEW p \in Procs, Touch(p) PROVE Scopes'
  BY <1>8 DEF Touch, Goto, sweepVars, Scopes, Staging, Sweeping
<1>9. ASSUME NEW p \in Procs, LockEntry(p) PROVE Scopes'
  BY <1>9 DEF LockEntry, Goto, sweepVars, Scopes, Staging, Sweeping
<1>10. ASSUME NEW p \in Procs, Repair(p) PROVE Scopes'
  BY <1>10 DEF Repair, Goto, sweepVars, Scopes, Staging, Sweeping
<1>11. ASSUME NEW p \in Procs, RepairFails(p) PROVE Scopes'
  BY <1>11 DEF RepairFails, Fails, Ends, Forgotten, Goto, TypeOK, ProcsOK, Scopes,
     Staging
<1>12. ASSUME NEW p \in Procs, CreateLockFile(p) PROVE Scopes'
  BY <1>12 DEF CreateLockFile, Goto, sweepVars, TypeOK, ProcsOK, Scopes, Sweeping
<1>13. ASSUME NEW p \in Procs, LockStaged(p) PROVE Scopes'
  BY <1>13 DEF LockStaged, Goto, sweepVars, TypeOK, ProcsOK, Scopes, Staging,
     Sweeping
<1>14. ASSUME NEW p \in Procs, LockStagedFails(p) PROVE Scopes'
  BY <1>14 DEF LockStagedFails, Fails, Ends, Forgotten, Goto, TypeOK, ProcsOK,
     Scopes, Staging
<1>15. ASSUME NEW p \in Procs, FetchDone(p) PROVE Scopes'
  BY <1>15 DEF FetchDone, Goto, sweepVars, Scopes, Staging, Sweeping
<1>16. ASSUME NEW p \in Procs, FetchFails(p) PROVE Scopes'
  BY <1>16 DEF FetchFails, Ends, Forgotten, Goto, TypeOK, ProcsOK, Scopes, Staging
<1>17. ASSUME NEW p \in Procs, ClearTarget(p) PROVE Scopes'
  BY <1>17 DEF ClearTarget, Goto, sweepVars, Scopes, Staging, Sweeping
<1>18. ASSUME NEW p \in Procs, WipeTarget(p) PROVE Scopes'
  BY <1>18 DEF WipeTarget, Goto, sweepVars, Scopes, Staging, Sweeping
<1>19. ASSUME NEW p \in Procs, WipeFails(p) PROVE Scopes'
  BY <1>19 DEF WipeFails, Ends, Forgotten, Goto, TypeOK, ProcsOK, Scopes, Staging
<1>20. ASSUME NEW p \in Procs, Publish(p) PROVE Scopes'
  BY <1>20 DEF Publish, Goto, sweepVars, Scopes, Staging, Sweeping
<1>21. ASSUME NEW p \in Procs, Unstage(p) PROVE Scopes'
  BY <1>21 DEF Unstage, Goto, sweepVars, TypeOK, ProcsOK, Scopes, Staging, Sweeping
<1>22. ASSUME NEW p \in Procs, Hold(p) PROVE Scopes'
  BY <1>22 DEF Hold, Goto, sweepVars, Scopes, Staging, Sweeping
<1>23. ASSUME NEW p \in Procs, FinishRun(p) PROVE Scopes'
  BY <1>23 DEF FinishRun, Ends, Forgotten, Goto, TypeOK, ProcsOK, Scopes, Staging
<1>24. ASSUME NEW p \in Procs, Survey(p) PROVE Scopes'
  BY <1>24 DEF Survey, Goto, Scopes, Staging, Sweeping
<1>25. ASSUME NEW p \in Procs, RemoveGarbageEntry(p) PROVE Scopes'
  BY <1>25 DEF RemoveGarbageEntry, TakeInUse, Goto, TypeOK, ProcsOK, SweepsOK,
     Scopes, Staging, Sweeping
<1>26. ASSUME NEW p \in Procs, RemoveLive(p) PROVE Scopes'
  BY <1>26 DEF RemoveLive, TakeInUse, Goto, TypeOK, ProcsOK, SweepsOK, Scopes,
     Staging, Sweeping
<1>27. ASSUME NEW p \in Procs, MoveOut(p) PROVE Scopes'
  <2>1. CASE Unmoved(p)
    BY <2>1 DEF Unmoved, Moves, TypeOK, ProcsOK, Scopes, Staging, Sweeping
  <2>2. ASSUME NEW n \in Names, Moved(p, n) PROVE Scopes'
    BY <2>2 DEF Moved, Moves, TypeOK, ProcsOK, Scopes, Sweeping
  <2> QED BY <1>27, <2>1, <2>2, MoveFacts
<1>28. ASSUME NEW p \in Procs, DeleteDoomed(p) PROVE Scopes'
  BY <1>28 DEF DeleteDoomed, Goto, sweepVars, TypeOK, ProcsOK, Scopes, Staging,
     Sweeping
<1>29. ASSUME NEW p \in Procs, RemoveStaged(p) PROVE Scopes'
  BY <1>29 DEF RemoveStaged, TakeStagingLock, Goto, TypeOK, ProcsOK, Scopes,
     Sweeping
<1>30. ASSUME NEW p \in Procs, RemoveStagedDir(p) PROVE Scopes'
  BY <1>30 DEF RemoveStagedDir, Goto, sweepVars, Scopes, Sweeping
<1>31. ASSUME NEW p \in Procs, RemoveStagingLock(p) PROVE Scopes'
  BY <1>31 DEF RemoveStagingLock, Goto, sweepVars, TypeOK, ProcsOK, Scopes, Staging,
     Sweeping
<1>32. ASSUME NEW p \in Procs, SweepRound(p) PROVE Scopes'
  BY <1>32 DEF SweepRound, Goto, Ends, Forgotten, sweepVars, TypeOK, ProcsOK,
     SweepsOK, Scopes, Staging, Sweeping
<1>33. ASSUME NEW p \in Procs, SkipStaged(p) PROVE UNCHANGED <<pc, key, back, name,
   victim>>
  BY <1>33 DEF SkipStaged, Lockable, procVars
<1>34. ASSUME NEW k \in Keys, Delete(k) PROVE UNCHANGED <<pc, key, back, name,
   victim>>
  BY <1>34 DEF Delete, procVars, sweepVars
<1>35. CASE UNCHANGED vars
  BY <1>1, <1>35 DEF vars, procVars, sweepVars
<1> QED
  BY <1>1, <1>2, <1>3, <1>4, <1>5, <1>6, <1>7, <1>8, <1>9, <1>10, <1>11, <1>12,
     <1>13, <1>14, <1>15, <1>16, <1>17, <1>18, <1>19, <1>20, <1>21, <1>22, <1>23,
     <1>24, <1>25, <1>26, <1>27, <1>28, <1>29, <1>30, <1>31, <1>32, <1>33, <1>34,
     <1>35 DEF Next, Step, ResolveStep, SweepStep

\* The fetch lock is taken by one and let go after the publish.
LEMMA FetchLockedStep ==
    ASSUME TypeOK, Scopes, FetchLocked, [Next]_vars
    PROVE  FetchLocked'
<1>1. ASSUME UNCHANGED <<elock, pc, key, back>> PROVE FetchLocked'
  BY <1>1 DEF FetchLocked, Locking
<1>2. ASSUME NEW p \in Procs, Resolve(p) PROVE FetchLocked'
  BY <1>2 DEF Resolve, Goto, lockVars, Scopes, FetchLocked, Locking, Staging
<1>3. ASSUME NEW p \in Procs, StartGc(p) PROVE FetchLocked'
  BY <1>3 DEF StartGc, Goto, lockVars, FetchLocked, Locking, Staging
<1>4. ASSUME NEW p \in Procs, Crash(p) PROVE FetchLocked'
  BY <1>4 DEF Crash, Forgotten, DropLocks, Goto, TypeOK, ProcsOK, Scopes,
     FetchLocked, Locking, Staging, Sweeping
<1>5. ASSUME NEW p \in Procs, FindExists(p) PROVE FetchLocked'
  <2>1. PICK l : pc' = [pc EXCEPT ![p] = l] /\ Looked(p, l)
    BY <1>5, LookFacts
  <2> QED BY <1>5, <2>1, LookFacts DEF Looked, TypeOK, LocksOK, ProcsOK, Scopes,
     FetchLocked, Locking, Staging, Sweeping
<1>6. ASSUME NEW p \in Procs, FindRead(p) PROVE FetchLocked'
  <2>1. PICK l : pc' = [pc EXCEPT ![p] = l] /\ Looked(p, l)
    BY <1>6, LookFacts
  <2> QED BY <1>6, <2>1, LookFacts DEF Looked, TypeOK, LocksOK, ProcsOK, Scopes,
     FetchLocked, Locking, Staging, Sweeping
<1>7. ASSUME NEW p \in Procs, FindReadFails(p) PROVE FetchLocked'
  BY <1>7 DEF FindReadFails, Fails, Ends, Forgotten, DropLocks, Goto, TypeOK,
     ProcsOK, Scopes, FetchLocked, Locking, Staging, Sweeping
<1>8. ASSUME NEW p \in Procs, Touch(p) PROVE FetchLocked'
  BY <1>8 DEF Touch, Goto, TypeOK, ProcsOK, Scopes, FetchLocked, Locking, Staging,
     Sweeping
<1>9. ASSUME NEW p \in Procs, LockEntry(p) PROVE FetchLocked'
  BY <1>9 DEF LockEntry, Goto, TypeOK, LocksOK, Scopes, FetchLocked, Locking,
     Sweeping
<1>10. ASSUME NEW p \in Procs, Repair(p) PROVE FetchLocked'
  BY <1>10 DEF Repair, Goto, lockVars, FetchLocked, Locking
<1>11. ASSUME NEW p \in Procs, RepairFails(p) PROVE FetchLocked'
  BY <1>11 DEF RepairFails, Fails, Ends, Forgotten, DropLocks, Goto, TypeOK,
     ProcsOK, Scopes, FetchLocked, Locking, Staging, Sweeping
<1>12. ASSUME NEW p \in Procs, CreateLockFile(p) PROVE FetchLocked'
  BY <1>12 DEF CreateLockFile, Goto, lockVars, FetchLocked, Locking
<1>13. ASSUME NEW p \in Procs, LockStaged(p) PROVE FetchLocked'
  BY <1>13 DEF LockStaged, Goto, TypeOK, ProcsOK, FetchLocked, Locking, Staging
<1>14. ASSUME NEW p \in Procs, LockStagedFails(p) PROVE FetchLocked'
  BY <1>14 DEF LockStagedFails, Fails, Ends, Forgotten, DropLocks, Goto, TypeOK,
     ProcsOK, Scopes, FetchLocked, Locking, Staging, Sweeping
<1>15. ASSUME NEW p \in Procs, FetchDone(p) PROVE FetchLocked'
  BY <1>15 DEF FetchDone, Goto, lockVars, FetchLocked, Locking, Staging
<1>16. ASSUME NEW p \in Procs, FetchFails(p) PROVE FetchLocked'
  BY <1>16 DEF FetchFails, Ends, Forgotten, DropLocks, Goto, TypeOK, ProcsOK,
     Scopes, FetchLocked, Locking, Staging, Sweeping
<1>17. ASSUME NEW p \in Procs, ClearTarget(p) PROVE FetchLocked'
  BY <1>17 DEF ClearTarget, Goto, lockVars, FetchLocked, Locking, Staging
<1>18. ASSUME NEW p \in Procs, WipeTarget(p) PROVE FetchLocked'
  BY <1>18 DEF WipeTarget, Goto, lockVars, FetchLocked, Locking, Staging
<1>19. ASSUME NEW p \in Procs, WipeFails(p) PROVE FetchLocked'
  BY <1>19 DEF WipeFails, Ends, Forgotten, DropLocks, Goto, TypeOK, ProcsOK, Scopes,
     FetchLocked, Locking, Staging, Sweeping
<1>20. ASSUME NEW p \in Procs, Publish(p) PROVE FetchLocked'
  BY <1>20 DEF Publish, Goto, lockVars, FetchLocked, Locking, Staging
<1>21. ASSUME NEW p \in Procs, Unstage(p) PROVE FetchLocked'
  BY <1>21 DEF Unstage, Goto, TypeOK, ProcsOK, FetchLocked, Locking, Staging
<1>22. ASSUME NEW p \in Procs, Hold(p) PROVE FetchLocked'
  BY <1>22 DEF Hold, Goto, TypeOK, ProcsOK, FetchLocked, Locking, Staging
<1>23. ASSUME NEW p \in Procs, FinishRun(p) PROVE FetchLocked'
  BY <1>23 DEF FinishRun, Ends, Forgotten, DropLocks, Goto, Scopes, FetchLocked,
     Locking, Staging, Sweeping
<1>24. ASSUME NEW p \in Procs, Survey(p) PROVE FetchLocked'
  BY <1>24 DEF Survey, Goto, lockVars, FetchLocked, Locking, Staging
<1>25. ASSUME NEW p \in Procs, RemoveGarbageEntry(p) PROVE FetchLocked'
  BY <1>25 DEF RemoveGarbageEntry, TakeInUse, Goto, TypeOK, ProcsOK, FetchLocked,
     Locking, Staging
<1>26. ASSUME NEW p \in Procs, RemoveLive(p) PROVE FetchLocked'
  BY <1>26 DEF RemoveLive, TakeInUse, Goto, TypeOK, ProcsOK, FetchLocked, Locking,
     Staging
<1>27. ASSUME NEW p \in Procs, MoveOut(p) PROVE FetchLocked'
  BY <1>27 DEF MoveOut, Goto, TypeOK, ProcsOK, FetchLocked, Locking, Staging
<1>28. ASSUME NEW p \in Procs, DeleteDoomed(p) PROVE FetchLocked'
  BY <1>28 DEF DeleteDoomed, Goto, lockVars, FetchLocked, Locking, Staging
<1>29. ASSUME NEW p \in Procs, RemoveStaged(p) PROVE FetchLocked'
  BY <1>29 DEF RemoveStaged, TakeStagingLock, Goto, FetchLocked, Locking, Staging
<1>30. ASSUME NEW p \in Procs, RemoveStagedDir(p) PROVE FetchLocked'
  BY <1>30 DEF RemoveStagedDir, Goto, lockVars, FetchLocked, Locking, Staging
<1>31. ASSUME NEW p \in Procs, RemoveStagingLock(p) PROVE FetchLocked'
  BY <1>31 DEF RemoveStagingLock, Goto, FetchLocked, Locking, Staging
<1>32. ASSUME NEW p \in Procs, SweepRound(p) PROVE FetchLocked'
  BY <1>32 DEF SweepRound, Goto, Ends, Forgotten, DropLocks, lockVars, TypeOK,
     ProcsOK, Scopes, FetchLocked, Locking, Staging, Sweeping
<1>33. ASSUME NEW p \in Procs, SkipStaged(p) PROVE UNCHANGED <<elock, pc, key,
   back>>
  BY <1>33 DEF SkipStaged, Lockable, lockVars, procVars
<1>34. ASSUME NEW k \in Keys, Delete(k) PROVE UNCHANGED <<elock, pc, key, back>>
  BY <1>34 DEF Delete, lockVars, procVars
<1>35. CASE UNCHANGED vars
  BY <1>1, <1>35 DEF vars, lockVars, procVars
<1> QED
  BY <1>1, <1>2, <1>3, <1>4, <1>5, <1>6, <1>7, <1>8, <1>9, <1>10, <1>11, <1>12,
     <1>13, <1>14, <1>15, <1>16, <1>17, <1>18, <1>19, <1>20, <1>21, <1>22, <1>23,
     <1>24, <1>25, <1>26, <1>27, <1>28, <1>29, <1>30, <1>31, <1>32, <1>33, <1>34,
     <1>35 DEF Next, Step, ResolveStep, SweepStep

\* What a fetch has staged stays.
LEMMA StagingKeptStep ==
    ASSUME TypeOK, Scopes, StagingKept, StagingApart, [Next]_vars
    PROVE  StagingKept'
<1>1. ASSUME UNCHANGED <<dir, file, slock, pc, name>> PROVE StagingKept'
  BY <1>1 DEF StagingKept, Fetching
<1>2. ASSUME NEW p \in Procs, Resolve(p) PROVE StagingKept'
  BY <1>2 DEF Resolve, Goto, fileVars, lockVars, StagingKept, Staging, Fetching
<1>3. ASSUME NEW p \in Procs, StartGc(p) PROVE StagingKept'
  BY <1>3 DEF StartGc, Goto, fileVars, lockVars, StagingKept, Staging, Fetching
<1>4. ASSUME NEW p \in Procs, Crash(p) PROVE StagingKept'
  BY <1>4 DEF Crash, Forgotten, DropLocks, Goto, TypeOK, FilesOK, ProcsOK,
     StagingKept, Staging, Fetching
<1>5. ASSUME NEW p \in Procs, FindExists(p) PROVE StagingKept'
  <2>1. PICK l : pc' = [pc EXCEPT ![p] = l] /\ Looked(p, l)
    BY <1>5, LookFacts
  <2> QED BY <1>5, <2>1, LookFacts DEF Looked, TypeOK, FilesOK, LocksOK, ProcsOK,
     Scopes, StagingKept, StagingApart, Staging, Fetching
<1>6. ASSUME NEW p \in Procs, FindRead(p) PROVE StagingKept'
  <2>1. PICK l : pc' = [pc EXCEPT ![p] = l] /\ Looked(p, l)
    BY <1>6, LookFacts
  <2> QED BY <1>6, <2>1, LookFacts DEF Looked, TypeOK, FilesOK, LocksOK, ProcsOK,
     Scopes, StagingKept, StagingApart, Staging, Fetching
<1>7. ASSUME NEW p \in Procs, FindReadFails(p) PROVE StagingKept'
  BY <1>7 DEF FindReadFails, Fails, Ends, Forgotten, DropLocks, Goto, fileVars,
     TypeOK, FilesOK, StagingKept, Staging, Fetching
<1>8. ASSUME NEW p \in Procs, Touch(p) PROVE StagingKept'
  BY <1>8 DEF Touch, Goto, StagingKept, Staging, Fetching
<1>9. ASSUME NEW p \in Procs, LockEntry(p) PROVE StagingKept'
  BY <1>9 DEF LockEntry, Goto, fileVars, StagingKept, Staging, Fetching
<1>10. ASSUME NEW p \in Procs, Repair(p) PROVE StagingKept'
  BY <1>10 DEF Repair, Goto, lockVars, StagingKept, Staging, Fetching
<1>11. ASSUME NEW p \in Procs, RepairFails(p) PROVE StagingKept'
  BY <1>11 DEF RepairFails, Fails, Ends, Forgotten, DropLocks, Goto, fileVars,
     TypeOK, FilesOK, StagingKept, Staging, Fetching
<1>12. ASSUME NEW p \in Procs, CreateLockFile(p) PROVE StagingKept'
  BY <1>12 DEF CreateLockFile, Fresh, Goto, lockVars, TypeOK, ProcsOK, StagingKept,
     Fetching
<1>13. ASSUME NEW p \in Procs, LockStaged(p) PROVE StagingKept'
  <2>1. pc[p] = "slock" /\ name[p] \in Names
    BY <1>13 DEF LockStaged, Scopes, Staging
  <2>2. \A q \in Procs \ {p} : pc[q] \in Staging => name[q] \in Names \ {name[p]}
    BY <2>1 DEF Scopes, StagingApart, Staging
  <2>3. CASE name[p] \in file
    <3>1. /\ pc' = [pc EXCEPT ![p] = "fetch"] /\ UNCHANGED <<name, file>>
          /\ slock' = [slock EXCEPT ![name[p]] = p]
          /\ dir' = [dir EXCEPT ![name[p]] = "open"]
      BY <1>13, <2>3 DEF LockStaged, Goto
    <3>2. slock'[name[p]] = p /\ dir'[name[p]] = "open"
      BY <2>1, <3>1 DEF TypeOK, FilesOK, LocksOK
    <3>3. \A n \in Names \ {name[p]} : slock'[n] = slock[n] /\ dir'[n] = dir[n]
      BY <3>1 DEF TypeOK, FilesOK, LocksOK
    <3> QED BY <2>2, <2>3, <3>1, <3>2, <3>3 DEF TypeOK, ProcsOK, StagingKept, Staging, Fetching
  <2>4. CASE name[p] \notin file
    <3>1. /\ pc' = [pc EXCEPT ![p] = "stage"] /\ name' = [name EXCEPT ![p] = NoName]
          /\ UNCHANGED <<slock, dir, file>>
      BY <1>13, <2>4 DEF LockStaged, Goto
    <3> QED BY <3>1 DEF TypeOK, ProcsOK, StagingKept, Staging, Fetching
  <2> QED BY <2>3, <2>4
<1>14. ASSUME NEW p \in Procs, LockStagedFails(p) PROVE StagingKept'
  BY <1>14 DEF LockStagedFails, Fails, Ends, Forgotten, DropLocks, Goto, fileVars,
     TypeOK, FilesOK, ProcsOK, StagingKept, Staging, Fetching
<1>15. ASSUME NEW p \in Procs, FetchDone(p) PROVE StagingKept'
  BY <1>15 DEF FetchDone, Goto, fileVars, lockVars, StagingKept, Staging, Fetching
<1>16. ASSUME NEW p \in Procs, FetchFails(p) PROVE StagingKept'
  BY <1>16 DEF FetchFails, Ends, Forgotten, DropLocks, Goto, TypeOK, FilesOK,
     ProcsOK, StagingKept, Staging, Fetching
<1>17. ASSUME NEW p \in Procs, ClearTarget(p) PROVE StagingKept'
  BY <1>17 DEF ClearTarget, Goto, fileVars, lockVars, StagingKept, Staging, Fetching
<1>18. ASSUME NEW p \in Procs, WipeTarget(p) PROVE StagingKept'
  BY <1>18 DEF WipeTarget, Goto, lockVars, StagingKept, Staging, Fetching
<1>19. ASSUME NEW p \in Procs, WipeFails(p) PROVE StagingKept'
  BY <1>19 DEF WipeFails, Ends, Forgotten, DropLocks, Goto, TypeOK, FilesOK,
     ProcsOK, StagingKept, Staging, Fetching
<1>20. ASSUME NEW p \in Procs, Publish(p) PROVE StagingKept'
  BY <1>20 DEF Publish, Goto, lockVars, TypeOK, ProcsOK, StagingKept, Staging,
     Fetching
<1>21. ASSUME NEW p \in Procs, Unstage(p) PROVE StagingKept'
  BY <1>21 DEF Unstage, Goto, TypeOK, ProcsOK, StagingKept, Staging, Fetching
<1>22. ASSUME NEW p \in Procs, Hold(p) PROVE StagingKept'
  BY <1>22 DEF Hold, Goto, fileVars, StagingKept, Staging, Fetching
<1>23. ASSUME NEW p \in Procs, FinishRun(p) PROVE StagingKept'
  BY <1>23 DEF FinishRun, Ends, Forgotten, DropLocks, Goto, fileVars, TypeOK,
     FilesOK, StagingKept, Staging, Fetching
<1>24. ASSUME NEW p \in Procs, Survey(p) PROVE StagingKept'
  BY <1>24 DEF Survey, Goto, fileVars, lockVars, StagingKept, Staging, Fetching
<1>25. ASSUME NEW p \in Procs, RemoveGarbageEntry(p) PROVE StagingKept'
  BY <1>25 DEF RemoveGarbageEntry, TakeInUse, Goto, fileVars, TypeOK, ProcsOK,
     StagingKept, Staging, Fetching
<1>26. ASSUME NEW p \in Procs, RemoveLive(p) PROVE StagingKept'
  BY <1>26 DEF RemoveLive, TakeInUse, Goto, fileVars, TypeOK, ProcsOK, StagingKept,
     Staging, Fetching
<1>27. ASSUME NEW p \in Procs, MoveOut(p) PROVE StagingKept'
  <2>1. CASE Unmoved(p)
    BY <2>1 DEF Unmoved, Moves, StagingKept, Staging, Fetching
  <2>2. ASSUME NEW n \in Names, Moved(p, n) PROVE StagingKept'
    BY <2>2 DEF Moved, Moves, StagingKept, Staging, Fetching
  <2> QED BY <1>27, <2>1, <2>2, MoveFacts
<1>28. ASSUME NEW p \in Procs, DeleteDoomed(p) PROVE StagingKept'
  <2>1. \A q \in Procs \ {p} : pc[q] \in Staging => name[q] # name[p]
    BY <1>28 DEF DeleteDoomed, StagingApart
  <2>2. UNCHANGED <<slock, file>>
    BY <1>28 DEF DeleteDoomed, lockVars
  <2>3. \A q \in Procs \ {p} : pc'[q] = pc[q] /\ name'[q] = name[q]
    BY <1>28 DEF DeleteDoomed, Goto, TypeOK, ProcsOK
  <2>4. pc'[p] \in {"apply", "rmlock"}
    BY <1>28 DEF DeleteDoomed, Goto, TypeOK, ProcsOK
  <2>5. \A n \in Names \ {name[p]} : dir'[n] = dir[n]
    BY <1>28 DEF DeleteDoomed, TypeOK, FilesOK
  <2> QED BY <2>1, <2>2, <2>3, <2>4, <2>5 DEF Scopes, StagingKept, Staging, Fetching
<1>29. ASSUME NEW p \in Procs, RemoveStaged(p) PROVE StagingKept'
  BY <1>29 DEF RemoveStaged, TakeStagingLock, Lockable, Goto, fileVars, StagingKept,
     Staging, Fetching
<1>30. ASSUME NEW p \in Procs, RemoveStagedDir(p) PROVE StagingKept'
  <2>1. \A q \in Procs \ {p} : pc[q] \in Staging => name[q] # name[p]
    BY <1>30 DEF RemoveStagedDir, StagingApart
  <2>2. UNCHANGED <<slock, file>>
    BY <1>30 DEF RemoveStagedDir, lockVars
  <2>3. \A q \in Procs \ {p} : pc'[q] = pc[q] /\ name'[q] = name[q]
    BY <1>30 DEF RemoveStagedDir, Goto, TypeOK, ProcsOK
  <2>4. pc'[p] \in {"apply", "rmlock"}
    BY <1>30 DEF RemoveStagedDir, Goto, TypeOK, ProcsOK
  <2>5. \A n \in Names \ {name[p]} : dir'[n] = dir[n]
    BY <1>30 DEF RemoveStagedDir, TypeOK, FilesOK
  <2> QED BY <2>1, <2>2, <2>3, <2>4, <2>5 DEF Scopes, StagingKept, Staging, Fetching
<1>31. ASSUME NEW p \in Procs, RemoveStagingLock(p) PROVE StagingKept'
  <2>1. \A q \in Procs \ {p} : pc[q] \in Staging /\ name[q] = name[p] => pc[q] = "slock"
    BY <1>31 DEF RemoveStagingLock, StagingApart
  <2> QED BY <1>31, <2>1 DEF RemoveStagingLock, Goto, TypeOK, FilesOK, LocksOK, ProcsOK, Scopes, StagingKept, Staging, Fetching
<1>32. ASSUME NEW p \in Procs, SweepRound(p) PROVE StagingKept'
  BY <1>32 DEF SweepRound, Goto, Ends, Forgotten, DropLocks, fileVars, lockVars,
     TypeOK, FilesOK, ProcsOK, StagingKept, Staging, Fetching
<1>33. ASSUME NEW p \in Procs, SkipStaged(p) PROVE UNCHANGED <<dir, file, slock, pc,
   name>>
  BY <1>33 DEF SkipStaged, Lockable, fileVars, lockVars, procVars
<1>34. ASSUME NEW k \in Keys, Delete(k) PROVE UNCHANGED <<dir, file, slock, pc,
   name>>
  BY <1>34 DEF Delete, lockVars, procVars
<1>35. CASE UNCHANGED vars
  BY <1>1, <1>35 DEF vars, fileVars, lockVars, procVars
<1> QED
  BY <1>1, <1>2, <1>3, <1>4, <1>5, <1>6, <1>7, <1>8, <1>9, <1>10, <1>11, <1>12,
     <1>13, <1>14, <1>15, <1>16, <1>17, <1>18, <1>19, <1>20, <1>21, <1>22, <1>23,
     <1>24, <1>25, <1>26, <1>27, <1>28, <1>29, <1>30, <1>31, <1>32, <1>33, <1>34,
     <1>35 DEF Next, Step, ResolveStep, SweepStep

\* A staging name is used by one fetch, and its directory is no garbage.
LEMMA StagingApartStep ==
    ASSUME TypeOK, Scopes, StagingKept, StagingApart, RemoverLocked, [Next]_vars
    PROVE  StagingApart'
<1>1. ASSUME UNCHANGED <<pc, name, trash>> PROVE StagingApart'
  BY <1>1 DEF StagingApart
<1>2. ASSUME NEW p \in Procs, Resolve(p) PROVE StagingApart'
  BY <1>2 DEF Resolve, Goto, sweepVars, StagingApart, Staging
<1>3. ASSUME NEW p \in Procs, StartGc(p) PROVE StagingApart'
  BY <1>3 DEF StartGc, Goto, sweepVars, StagingApart, Staging
<1>4. ASSUME NEW p \in Procs, Crash(p) PROVE StagingApart'
  BY <1>4 DEF Crash, Forgotten, Goto, TypeOK, ProcsOK, Scopes, StagingApart, Staging
<1>5. ASSUME NEW p \in Procs, FindExists(p) PROVE StagingApart'
  <2>1. PICK l : pc' = [pc EXCEPT ![p] = l] /\ Looked(p, l)
    BY <1>5, LookFacts
  <2>2. l \notin Staging
    BY <2>1 DEF Looked, Staging
  <2>3. pc[p] # "rmlock" /\ UNCHANGED <<name, trash>>
    BY <1>5, LookFacts
  <2> QED BY <2>1, <2>2, <2>3 DEF TypeOK, ProcsOK, StagingApart
<1>6. ASSUME NEW p \in Procs, FindRead(p) PROVE StagingApart'
  <2>1. PICK l : pc' = [pc EXCEPT ![p] = l] /\ Looked(p, l)
    BY <1>6, LookFacts
  <2>2. l \notin Staging
    BY <2>1 DEF Looked, Staging
  <2>3. pc[p] # "rmlock" /\ UNCHANGED <<name, trash>>
    BY <1>6, LookFacts
  <2> QED BY <2>1, <2>2, <2>3 DEF TypeOK, ProcsOK, StagingApart
<1>7. ASSUME NEW p \in Procs, FindReadFails(p) PROVE StagingApart'
  BY <1>7 DEF FindReadFails, Fails, Ends, Forgotten, Goto, TypeOK, ProcsOK, Scopes,
     StagingApart, Staging
<1>8. ASSUME NEW p \in Procs, Touch(p) PROVE StagingApart'
  BY <1>8 DEF Touch, Goto, sweepVars, StagingApart, Staging
<1>9. ASSUME NEW p \in Procs, LockEntry(p) PROVE StagingApart'
  BY <1>9 DEF LockEntry, Goto, sweepVars, StagingApart, Staging
<1>10. ASSUME NEW p \in Procs, Repair(p) PROVE StagingApart'
  BY <1>10 DEF Repair, Goto, sweepVars, StagingApart, Staging
<1>11. ASSUME NEW p \in Procs, RepairFails(p) PROVE StagingApart'
  BY <1>11 DEF RepairFails, Fails, Ends, Forgotten, Goto, TypeOK, ProcsOK, Scopes,
     StagingApart, Staging
<1>12. ASSUME NEW p \in Procs, CreateLockFile(p) PROVE StagingApart'
  <2>1. PICK n \in Names : Fresh(n) /\ name' = [name EXCEPT ![p] = n]
    BY <1>12 DEF CreateLockFile
  <2>2. \A q \in Procs : name[q] # n /\ <<"dir", n>> \notin trash[q]
    BY <2>1 DEF Fresh
  <2>3. pc' = [pc EXCEPT ![p] = "slock"] /\ trash' = trash
    BY <1>12 DEF CreateLockFile, Goto, sweepVars
  <2> QED BY <2>1, <2>2, <2>3 DEF TypeOK, ProcsOK, SweepsOK, StagingApart, Staging
<1>13. ASSUME NEW p \in Procs, LockStaged(p) PROVE StagingApart'
  <2>1. pc[p] = "slock" /\ name[p] \in Names /\ trash' = trash
    BY <1>13 DEF LockStaged, Scopes, Staging, sweepVars
  <2>2. CASE name[p] \in file
    <3>1. pc' = [pc EXCEPT ![p] = "fetch"] /\ name' = name
      BY <1>13, <2>2 DEF LockStaged, Goto
    <3>2. \A q \in Procs \ {p} : pc[q] = "rmlock" => name[q] # name[p]
      BY <1>13, <2>2 DEF LockStaged, RemoverLocked
    <3>3. \A q \in Procs \ {p} : name[q] # name[p]
      BY <2>1, <3>2 DEF StagingApart, Staging
    <3> QED BY <2>1, <3>1, <3>3 DEF TypeOK, ProcsOK, StagingApart, Staging
  <2>3. CASE name[p] \notin file
    <3>1. pc' = [pc EXCEPT ![p] = "stage"] /\ name' = [name EXCEPT ![p] = NoName]
      BY <1>13, <2>3 DEF LockStaged, Goto
    <3> QED BY <2>1, <3>1 DEF TypeOK, ProcsOK, Scopes, StagingApart, Staging
  <2> QED BY <2>2, <2>3
<1>14. ASSUME NEW p \in Procs, LockStagedFails(p) PROVE StagingApart'
  BY <1>14 DEF LockStagedFails, Fails, Ends, Forgotten, Goto, TypeOK, ProcsOK,
     Scopes, StagingApart, Staging
<1>15. ASSUME NEW p \in Procs, FetchDone(p) PROVE StagingApart'
  BY <1>15 DEF FetchDone, Goto, sweepVars, StagingApart, Staging
<1>16. ASSUME NEW p \in Procs, FetchFails(p) PROVE StagingApart'
  BY <1>16 DEF FetchFails, Ends, Forgotten, Goto, TypeOK, ProcsOK, Scopes,
     StagingApart, Staging
<1>17. ASSUME NEW p \in Procs, ClearTarget(p) PROVE StagingApart'
  BY <1>17 DEF ClearTarget, Goto, sweepVars, StagingApart, Staging
<1>18. ASSUME NEW p \in Procs, WipeTarget(p) PROVE StagingApart'
  BY <1>18 DEF WipeTarget, Goto, sweepVars, StagingApart, Staging
<1>19. ASSUME NEW p \in Procs, WipeFails(p) PROVE StagingApart'
  BY <1>19 DEF WipeFails, Ends, Forgotten, Goto, TypeOK, ProcsOK, Scopes,
     StagingApart, Staging
<1>20. ASSUME NEW p \in Procs, Publish(p) PROVE StagingApart'
  BY <1>20 DEF Publish, Goto, sweepVars, StagingApart, Staging
<1>21. ASSUME NEW p \in Procs, Unstage(p) PROVE StagingApart'
  BY <1>21 DEF Unstage, Goto, sweepVars, TypeOK, ProcsOK, Scopes, StagingApart,
     Staging
<1>22. ASSUME NEW p \in Procs, Hold(p) PROVE StagingApart'
  BY <1>22 DEF Hold, Goto, sweepVars, StagingApart, Staging
<1>23. ASSUME NEW p \in Procs, FinishRun(p) PROVE StagingApart'
  BY <1>23 DEF FinishRun, Ends, Forgotten, Goto, TypeOK, ProcsOK, Scopes,
     StagingApart, Staging
<1>24. ASSUME NEW p \in Procs, Survey(p) PROVE StagingApart'
  <2>1. \A q \in Procs : pc[q] \in Staging => <<"dir", name[q]>> \notin Garbage
    BY DEF Garbage, Lockable, TypeOK, LocksOK, Scopes, StagingKept, Staging
  <2>2. /\ pc' = [pc EXCEPT ![p] = "apply"] /\ pc[p] = "survey" /\ name' = name
        /\ trash' = [trash EXCEPT ![p] = Garbage]
    BY <1>24 DEF Survey, Goto
  <2> QED BY <2>1, <2>2 DEF TypeOK, ProcsOK, SweepsOK, StagingApart, Staging
<1>25. ASSUME NEW p \in Procs, RemoveGarbageEntry(p) PROVE StagingApart'
  BY <1>25 DEF RemoveGarbageEntry, TakeInUse, Goto, TypeOK, ProcsOK, StagingApart,
     Staging
<1>26. ASSUME NEW p \in Procs, RemoveLive(p) PROVE StagingApart'
  BY <1>26 DEF RemoveLive, TakeInUse, Goto, TypeOK, FilesOK, LocksOK, ProcsOK,
     SweepsOK, StagingApart, Staging
<1>27. ASSUME NEW p \in Procs, MoveOut(p) PROVE StagingApart'
  <2>1. CASE Unmoved(p)
    BY <2>1 DEF Unmoved, Moves, ProcsOK, StagingApart, Staging
  <2>2. ASSUME NEW n \in Names, Moved(p, n) PROVE StagingApart'
    BY <2>2 DEF Moved, Moves, ProcsOK, StagingApart, Staging
  <2> QED BY <1>27, <2>1, <2>2, MoveFacts
<1>28. ASSUME NEW p \in Procs, DeleteDoomed(p) PROVE StagingApart'
  BY <1>28 DEF DeleteDoomed, Goto, sweepVars, Scopes, StagingApart, Staging
<1>29. ASSUME NEW p \in Procs, RemoveStaged(p) PROVE StagingApart'
  <2>1. PICK n \in Names, what \in {"dir", "lock"} :
          /\ <<what, n>> \in trash[p] /\ TakeStagingLock(p, n, what)
          /\ trash' = [trash EXCEPT ![p] = @ \ {<<what, n>>}]
          /\ name' = [name EXCEPT ![p] = n]
    BY <1>29 DEF RemoveStaged
  <2>2. pc[p] = "apply"
    BY <1>29 DEF RemoveStaged
  <2>3. pc' = [pc EXCEPT ![p] = IF what = "dir" THEN "rmdir" ELSE "rmlock"]
    BY <2>1 DEF TakeStagingLock, Goto
  <2>4. ASSUME NEW q \in Procs \ {p}, pc[q] \in Staging, name[q] = n
        PROVE  pc[q] = "slock" /\ what = "lock"
    BY <2>1, <2>4 DEF TakeStagingLock, Lockable, StagingKept, StagingApart, Staging
  <2> QED BY <2>1, <2>2, <2>3, <2>4 DEF TypeOK, ProcsOK, SweepsOK, StagingApart, Staging
<1>30. ASSUME NEW p \in Procs, SkipStaged(p) PROVE StagingApart'
  BY <1>30 DEF SkipStaged, procVars, StagingApart
<1>31. ASSUME NEW p \in Procs, RemoveStagedDir(p) PROVE StagingApart'
  BY <1>31 DEF RemoveStagedDir, Goto, sweepVars, StagingApart, Staging
<1>32. ASSUME NEW p \in Procs, RemoveStagingLock(p) PROVE StagingApart'
  BY <1>32 DEF RemoveStagingLock, Goto, sweepVars, TypeOK, ProcsOK, Scopes,
     StagingApart, Staging
<1>33. ASSUME NEW p \in Procs, SweepRound(p) PROVE StagingApart'
  BY <1>33 DEF SweepRound, Goto, Ends, Forgotten, sweepVars, TypeOK, ProcsOK,
     SweepsOK, Scopes, StagingKept, StagingApart, Staging
<1>34. ASSUME NEW k \in Keys, Delete(k) PROVE UNCHANGED <<pc, name, trash>>
  BY <1>34 DEF Delete, procVars, sweepVars
<1>35. CASE UNCHANGED vars
  BY <1>1, <1>35 DEF vars, procVars, sweepVars
<1> QED
  BY <1>1, <1>2, <1>3, <1>4, <1>5, <1>6, <1>7, <1>8, <1>9, <1>10, <1>11, <1>12,
     <1>13, <1>14, <1>15, <1>16, <1>17, <1>18, <1>19, <1>20, <1>21, <1>22, <1>23,
     <1>24, <1>25, <1>26, <1>27, <1>28, <1>29, <1>30, <1>31, <1>32, <1>33, <1>34,
     <1>35 DEF Next, Step, ResolveStep, SweepStep

\* A lock file that is gone does not come back under a name in use.
LEMMA RemoverStep ==
    ASSUME TypeOK, Scopes, StagingKept, StagingApart, RemoverLocked, [Next]_vars
    PROVE  RemoverLocked'
<1>1. ASSUME UNCHANGED <<file, slock, pc, name>> PROVE RemoverLocked'
  BY <1>1 DEF TypeOK, FilesOK, LocksOK, ProcsOK, Scopes, RemoverLocked
<1>2. ASSUME NEW p \in Procs, Resolve(p) PROVE RemoverLocked'
  BY <1>2 DEF Resolve, Goto, fileVars, lockVars, RemoverLocked
<1>3. ASSUME NEW p \in Procs, StartGc(p) PROVE RemoverLocked'
  BY <1>3 DEF StartGc, Goto, fileVars, lockVars, RemoverLocked
<1>4. ASSUME NEW p \in Procs, Crash(p) PROVE RemoverLocked'
  BY <1>4 DEF Crash, Forgotten, DropLocks, Goto, TypeOK, FilesOK, ProcsOK,
     RemoverLocked
<1>5. ASSUME NEW p \in Procs, FindExists(p) PROVE RemoverLocked'
  <2>1. PICK l : pc' = [pc EXCEPT ![p] = l] /\ Looked(p, l)
    BY <1>5, LookFacts
  <2> QED BY <1>5, <2>1, LookFacts DEF Looked, TypeOK, FilesOK, LocksOK, ProcsOK,
     Scopes, RemoverLocked
<1>6. ASSUME NEW p \in Procs, FindRead(p) PROVE RemoverLocked'
  <2>1. PICK l : pc' = [pc EXCEPT ![p] = l] /\ Looked(p, l)
    BY <1>6, LookFacts
  <2> QED BY <1>6, <2>1, LookFacts DEF Looked, TypeOK, FilesOK, LocksOK, ProcsOK,
     Scopes, RemoverLocked
<1>7. ASSUME NEW p \in Procs, FindReadFails(p) PROVE RemoverLocked'
  BY <1>7 DEF FindReadFails, Fails, Ends, Forgotten, DropLocks, Goto, fileVars,
     TypeOK, FilesOK, RemoverLocked
<1>8. ASSUME NEW p \in Procs, Touch(p) PROVE RemoverLocked'
  BY <1>8 DEF Touch, Goto, RemoverLocked
<1>9. ASSUME NEW p \in Procs, LockEntry(p) PROVE RemoverLocked'
  BY <1>9 DEF LockEntry, Goto, fileVars, RemoverLocked
<1>10. ASSUME NEW p \in Procs, Repair(p) PROVE RemoverLocked'
  BY <1>10 DEF Repair, Goto, lockVars, RemoverLocked
<1>11. ASSUME NEW p \in Procs, RepairFails(p) PROVE RemoverLocked'
  BY <1>11 DEF RepairFails, Fails, Ends, Forgotten, DropLocks, Goto, fileVars,
     TypeOK, FilesOK, RemoverLocked
<1>12. ASSUME NEW p \in Procs, CreateLockFile(p) PROVE RemoverLocked'
  BY <1>12 DEF CreateLockFile, Fresh, Goto, lockVars, RemoverLocked
<1>13. ASSUME NEW p \in Procs, LockStaged(p) PROVE RemoverLocked'
  BY <1>13 DEF LockStaged, Goto, TypeOK, LocksOK, ProcsOK, Scopes, RemoverLocked
<1>14. ASSUME NEW p \in Procs, LockStagedFails(p) PROVE RemoverLocked'
  BY <1>14 DEF LockStagedFails, Fails, Ends, Forgotten, DropLocks, Goto, fileVars,
     TypeOK, FilesOK, RemoverLocked
<1>15. ASSUME NEW p \in Procs, FetchDone(p) PROVE RemoverLocked'
  BY <1>15 DEF FetchDone, Goto, fileVars, lockVars, RemoverLocked
<1>16. ASSUME NEW p \in Procs, FetchFails(p) PROVE RemoverLocked'
  BY <1>16 DEF FetchFails, Ends, Forgotten, DropLocks, Goto, TypeOK, FilesOK,
     RemoverLocked
<1>17. ASSUME NEW p \in Procs, ClearTarget(p) PROVE RemoverLocked'
  BY <1>17 DEF ClearTarget, Goto, fileVars, lockVars, RemoverLocked
<1>18. ASSUME NEW p \in Procs, WipeTarget(p) PROVE RemoverLocked'
  BY <1>18 DEF WipeTarget, Goto, lockVars, RemoverLocked
<1>19. ASSUME NEW p \in Procs, WipeFails(p) PROVE RemoverLocked'
  BY <1>19 DEF WipeFails, Ends, Forgotten, DropLocks, Goto, TypeOK, FilesOK,
     RemoverLocked
<1>20. ASSUME NEW p \in Procs, Publish(p) PROVE RemoverLocked'
  BY <1>20 DEF Publish, Goto, lockVars, RemoverLocked
<1>21. ASSUME NEW p \in Procs, Unstage(p) PROVE RemoverLocked'
  BY <1>21 DEF Unstage, Goto, RemoverLocked
<1>22. ASSUME NEW p \in Procs, Hold(p) PROVE RemoverLocked'
  BY <1>22 DEF Hold, Goto, fileVars, RemoverLocked
<1>23. ASSUME NEW p \in Procs, FinishRun(p) PROVE RemoverLocked'
  BY <1>23 DEF FinishRun, Ends, Forgotten, DropLocks, Goto, fileVars, TypeOK,
     FilesOK, RemoverLocked
<1>24. ASSUME NEW p \in Procs, Survey(p) PROVE RemoverLocked'
  BY <1>24 DEF Survey, Goto, fileVars, lockVars, RemoverLocked
<1>25. ASSUME NEW p \in Procs, RemoveGarbageEntry(p) PROVE RemoverLocked'
  BY <1>25 DEF RemoveGarbageEntry, TakeInUse, Goto, fileVars, TypeOK, ProcsOK,
     RemoverLocked
<1>26. ASSUME NEW p \in Procs, RemoveLive(p) PROVE RemoverLocked'
  BY <1>26 DEF RemoveLive, TakeInUse, Goto, fileVars, TypeOK, ProcsOK, RemoverLocked
<1>27. ASSUME NEW p \in Procs, MoveOut(p) PROVE RemoverLocked'
  <2>1. CASE Unmoved(p)
    BY <2>1 DEF Unmoved, Moves, RemoverLocked
  <2>2. ASSUME NEW n \in Names, Moved(p, n) PROVE RemoverLocked'
    BY <2>2 DEF Moved, Moves, RemoverLocked
  <2> QED BY <1>27, <2>1, <2>2, MoveFacts
<1>28. ASSUME NEW p \in Procs, DeleteDoomed(p) PROVE RemoverLocked'
  BY <1>28 DEF DeleteDoomed, Goto, lockVars, RemoverLocked
<1>29. ASSUME NEW p \in Procs, RemoveStaged(p) PROVE RemoverLocked'
  BY <1>29 DEF RemoveStaged, TakeStagingLock, Lockable, Goto, fileVars, TypeOK,
     LocksOK, ProcsOK, RemoverLocked
<1>30. ASSUME NEW p \in Procs, RemoveStagedDir(p) PROVE RemoverLocked'
  BY <1>30 DEF RemoveStagedDir, Goto, lockVars, RemoverLocked
<1>31. ASSUME NEW p \in Procs, RemoveStagingLock(p) PROVE RemoverLocked'
  BY <1>31 DEF RemoveStagingLock, Goto, TypeOK, FilesOK, RemoverLocked
<1>32. ASSUME NEW p \in Procs, SweepRound(p) PROVE RemoverLocked'
  BY <1>32 DEF SweepRound, Goto, Ends, Forgotten, DropLocks, fileVars, lockVars,
     TypeOK, ProcsOK, Scopes, RemoverLocked
<1>33. ASSUME NEW p \in Procs, SkipStaged(p) PROVE UNCHANGED <<file, slock, pc,
   name>>
  BY <1>33 DEF SkipStaged, Lockable, fileVars, lockVars, procVars
<1>34. ASSUME NEW k \in Keys, Delete(k) PROVE UNCHANGED <<file, slock, pc, name>>
  BY <1>34 DEF Delete, lockVars, procVars
<1>35. CASE UNCHANGED vars
  BY <1>1, <1>35 DEF vars, fileVars, lockVars, procVars
<1> QED
  BY <1>1, <1>2, <1>3, <1>4, <1>5, <1>6, <1>7, <1>8, <1>9, <1>10, <1>11, <1>12,
     <1>13, <1>14, <1>15, <1>16, <1>17, <1>18, <1>19, <1>20, <1>21, <1>22, <1>23,
     <1>24, <1>25, <1>26, <1>27, <1>28, <1>29, <1>30, <1>31, <1>32, <1>33, <1>34,
     <1>35 DEF Next, Step, ResolveStep, SweepStep

\* A name is let go after its lock.
LEMMA LockNamedStep ==
    ASSUME TypeOK, Scopes, LockNamed, [Next]_vars
    PROVE  LockNamed'
<1>1. ASSUME UNCHANGED <<slock, pc, name>> PROVE LockNamed'
  BY <1>1 DEF TypeOK, LocksOK, ProcsOK, Scopes, LockNamed, Staging
<1>2. ASSUME NEW p \in Procs, Resolve(p) PROVE LockNamed'
  BY <1>2 DEF Resolve, Goto, lockVars, LockNamed, Staging
<1>3. ASSUME NEW p \in Procs, StartGc(p) PROVE LockNamed'
  BY <1>3 DEF StartGc, Goto, lockVars, LockNamed, Staging
<1>4. ASSUME NEW p \in Procs, Crash(p) PROVE LockNamed'
  BY <1>4 DEF Crash, Forgotten, DropLocks, Goto, LockNamed
<1>5. ASSUME NEW p \in Procs, FindExists(p) PROVE LockNamed'
  <2>1. PICK l : pc' = [pc EXCEPT ![p] = l] /\ Looked(p, l)
    BY <1>5, LookFacts
  <2> QED BY <1>5, <2>1, LookFacts DEF Looked, TypeOK, LocksOK, ProcsOK, Scopes,
     LockNamed, Staging
<1>6. ASSUME NEW p \in Procs, FindRead(p) PROVE LockNamed'
  <2>1. PICK l : pc' = [pc EXCEPT ![p] = l] /\ Looked(p, l)
    BY <1>6, LookFacts
  <2> QED BY <1>6, <2>1, LookFacts DEF Looked, TypeOK, LocksOK, ProcsOK, Scopes,
     LockNamed, Staging
<1>7. ASSUME NEW p \in Procs, FindReadFails(p) PROVE LockNamed'
  BY <1>7 DEF FindReadFails, Fails, Ends, Forgotten, DropLocks, Goto, LockNamed
<1>8. ASSUME NEW p \in Procs, Touch(p) PROVE LockNamed'
  BY <1>8 DEF Touch, Goto, LockNamed, Staging
<1>9. ASSUME NEW p \in Procs, LockEntry(p) PROVE LockNamed'
  BY <1>9 DEF LockEntry, Goto, LockNamed, Staging
<1>10. ASSUME NEW p \in Procs, Repair(p) PROVE LockNamed'
  BY <1>10 DEF Repair, Goto, lockVars, LockNamed, Staging
<1>11. ASSUME NEW p \in Procs, RepairFails(p) PROVE LockNamed'
  BY <1>11 DEF RepairFails, Fails, Ends, Forgotten, DropLocks, Goto, LockNamed
<1>12. ASSUME NEW p \in Procs, CreateLockFile(p) PROVE LockNamed'
  BY <1>12 DEF CreateLockFile, Goto, lockVars, LockNamed, Staging
<1>13. ASSUME NEW p \in Procs, LockStaged(p) PROVE LockNamed'
  BY <1>13 DEF LockStaged, Goto, TypeOK, LocksOK, ProcsOK, LockNamed, Staging
<1>14. ASSUME NEW p \in Procs, LockStagedFails(p) PROVE LockNamed'
  BY <1>14 DEF LockStagedFails, Fails, Ends, Forgotten, DropLocks, Goto, LockNamed
<1>15. ASSUME NEW p \in Procs, FetchDone(p) PROVE LockNamed'
  BY <1>15 DEF FetchDone, Goto, lockVars, LockNamed, Staging
<1>16. ASSUME NEW p \in Procs, FetchFails(p) PROVE LockNamed'
  BY <1>16 DEF FetchFails, Ends, Forgotten, DropLocks, Goto, LockNamed
<1>17. ASSUME NEW p \in Procs, ClearTarget(p) PROVE LockNamed'
  BY <1>17 DEF ClearTarget, Goto, lockVars, LockNamed, Staging
<1>18. ASSUME NEW p \in Procs, WipeTarget(p) PROVE LockNamed'
  BY <1>18 DEF WipeTarget, Goto, lockVars, LockNamed, Staging
<1>19. ASSUME NEW p \in Procs, WipeFails(p) PROVE LockNamed'
  BY <1>19 DEF WipeFails, Ends, Forgotten, DropLocks, Goto, LockNamed
<1>20. ASSUME NEW p \in Procs, Publish(p) PROVE LockNamed'
  BY <1>20 DEF Publish, Goto, lockVars, LockNamed, Staging
<1>21. ASSUME NEW p \in Procs, Unstage(p) PROVE LockNamed'
  BY <1>21 DEF Unstage, Goto, TypeOK, LocksOK, LockNamed
<1>22. ASSUME NEW p \in Procs, Hold(p) PROVE LockNamed'
  BY <1>22 DEF Hold, Goto, LockNamed, Staging
<1>23. ASSUME NEW p \in Procs, FinishRun(p) PROVE LockNamed'
  BY <1>23 DEF FinishRun, Ends, Forgotten, DropLocks, Goto, LockNamed
<1>24. ASSUME NEW p \in Procs, Survey(p) PROVE LockNamed'
  BY <1>24 DEF Survey, Goto, lockVars, LockNamed, Staging
<1>25. ASSUME NEW p \in Procs, RemoveGarbageEntry(p) PROVE LockNamed'
  BY <1>25 DEF RemoveGarbageEntry, TakeInUse, Goto, TypeOK, ProcsOK, LockNamed,
     Staging
<1>26. ASSUME NEW p \in Procs, RemoveLive(p) PROVE LockNamed'
  BY <1>26 DEF RemoveLive, TakeInUse, Goto, TypeOK, ProcsOK, LockNamed, Staging
<1>27. ASSUME NEW p \in Procs, MoveOut(p) PROVE LockNamed'
  <2>1. CASE Unmoved(p)
    BY <2>1 DEF Unmoved, Moves, LockNamed, Staging
  <2>2. ASSUME NEW n \in Names, Moved(p, n) PROVE LockNamed'
    BY <2>2 DEF Moved, Moves, LockNamed, Staging
  <2> QED BY <1>27, <2>1, <2>2, MoveFacts
<1>28. ASSUME NEW p \in Procs, DeleteDoomed(p) PROVE LockNamed'
  BY <1>28 DEF DeleteDoomed, Goto, lockVars, LockNamed, Staging
<1>29. ASSUME NEW p \in Procs, RemoveStaged(p) PROVE LockNamed'
  BY <1>29 DEF RemoveStaged, TakeStagingLock, Goto, TypeOK, ProcsOK, LockNamed,
     Staging
<1>30. ASSUME NEW p \in Procs, RemoveStagedDir(p) PROVE LockNamed'
  BY <1>30 DEF RemoveStagedDir, Goto, lockVars, LockNamed
<1>31. ASSUME NEW p \in Procs, RemoveStagingLock(p) PROVE LockNamed'
  BY <1>31 DEF RemoveStagingLock, Goto, TypeOK, LocksOK, LockNamed
<1>32. ASSUME NEW p \in Procs, SweepRound(p) PROVE LockNamed'
  BY <1>32 DEF SweepRound, Goto, Ends, Forgotten, DropLocks, lockVars, TypeOK,
     ProcsOK, LockNamed, Staging
<1>33. ASSUME NEW p \in Procs, SkipStaged(p) PROVE UNCHANGED <<slock, pc, name>>
  BY <1>33 DEF SkipStaged, Lockable, lockVars, procVars
<1>34. ASSUME NEW k \in Keys, Delete(k) PROVE UNCHANGED <<slock, pc, name>>
  BY <1>34 DEF Delete, lockVars, procVars
<1>35. CASE UNCHANGED vars
  BY <1>1, <1>35 DEF vars, lockVars, procVars
<1> QED
  BY <1>1, <1>2, <1>3, <1>4, <1>5, <1>6, <1>7, <1>8, <1>9, <1>10, <1>11, <1>12,
     <1>13, <1>14, <1>15, <1>16, <1>17, <1>18, <1>19, <1>20, <1>21, <1>22, <1>23,
     <1>24, <1>25, <1>26, <1>27, <1>28, <1>29, <1>30, <1>31, <1>32, <1>33, <1>34,
     <1>35 DEF Next, Step, ResolveStep, SweepStep

\* The shared lock is held until the run ends.
LEMMA UseStep ==
    ASSUME TypeOK, Scopes, UseLocked, [Next]_vars
    PROVE  UseLocked'
<1>1. ASSUME UNCHANGED <<shared, pc, key, back>> PROVE UseLocked'
  BY <1>1 DEF TypeOK, LocksOK, ProcsOK, Scopes, UseLocked, InUse, Sweeping
<1>2. ASSUME NEW p \in Procs, Resolve(p) PROVE UseLocked'
  BY <1>2 DEF Resolve, Goto, lockVars, Scopes, UseLocked, InUse, Sweeping
<1>3. ASSUME NEW p \in Procs, StartGc(p) PROVE UseLocked'
  BY <1>3 DEF StartGc, Goto, lockVars, Scopes, UseLocked, InUse
<1>4. ASSUME NEW p \in Procs, Crash(p) PROVE UseLocked'
  BY <1>4 DEF Crash, Forgotten, DropLocks, Goto, TypeOK, ProcsOK, Scopes, UseLocked,
     InUse, Sweeping
<1>5. ASSUME NEW p \in Procs, FindExists(p) PROVE UseLocked'
  <2>1. PICK l : pc' = [pc EXCEPT ![p] = l] /\ Looked(p, l)
    BY <1>5, LookFacts
  <2> QED BY <1>5, <2>1, LookFacts DEF Looked, TypeOK, LocksOK, ProcsOK, Scopes,
     UseLocked, InUse, Sweeping
<1>6. ASSUME NEW p \in Procs, FindRead(p) PROVE UseLocked'
  <2>1. PICK l : pc' = [pc EXCEPT ![p] = l] /\ Looked(p, l)
    BY <1>6, LookFacts
  <2> QED BY <1>6, <2>1, LookFacts DEF Looked, TypeOK, LocksOK, ProcsOK, Scopes,
     UseLocked, InUse, Sweeping
<1>7. ASSUME NEW p \in Procs, FindReadFails(p) PROVE UseLocked'
  BY <1>7 DEF FindReadFails, Fails, Ends, Forgotten, DropLocks, Goto, TypeOK,
     ProcsOK, Scopes, UseLocked, InUse, Sweeping
<1>8. ASSUME NEW p \in Procs, Touch(p) PROVE UseLocked'
  BY <1>8 DEF Touch, Goto, UseLocked, InUse, Sweeping
<1>9. ASSUME NEW p \in Procs, LockEntry(p) PROVE UseLocked'
  BY <1>9 DEF LockEntry, Goto, TypeOK, ProcsOK, UseLocked, InUse, Sweeping
<1>10. ASSUME NEW p \in Procs, Repair(p) PROVE UseLocked'
  BY <1>10 DEF Repair, Goto, lockVars, UseLocked, InUse, Sweeping
<1>11. ASSUME NEW p \in Procs, RepairFails(p) PROVE UseLocked'
  BY <1>11 DEF RepairFails, Fails, Ends, Forgotten, DropLocks, Goto, TypeOK,
     ProcsOK, Scopes, UseLocked, InUse, Sweeping
<1>12. ASSUME NEW p \in Procs, CreateLockFile(p) PROVE UseLocked'
  BY <1>12 DEF CreateLockFile, Goto, lockVars, UseLocked, InUse, Sweeping
<1>13. ASSUME NEW p \in Procs, LockStaged(p) PROVE UseLocked'
  BY <1>13 DEF LockStaged, Goto, TypeOK, ProcsOK, UseLocked, InUse, Sweeping
<1>14. ASSUME NEW p \in Procs, LockStagedFails(p) PROVE UseLocked'
  BY <1>14 DEF LockStagedFails, Fails, Ends, Forgotten, DropLocks, Goto, TypeOK,
     ProcsOK, Scopes, UseLocked, InUse, Sweeping
<1>15. ASSUME NEW p \in Procs, FetchDone(p) PROVE UseLocked'
  BY <1>15 DEF FetchDone, Goto, lockVars, UseLocked, InUse, Sweeping
<1>16. ASSUME NEW p \in Procs, FetchFails(p) PROVE UseLocked'
  BY <1>16 DEF FetchFails, Ends, Forgotten, DropLocks, Goto, TypeOK, ProcsOK,
     Scopes, UseLocked, InUse, Sweeping
<1>17. ASSUME NEW p \in Procs, ClearTarget(p) PROVE UseLocked'
  BY <1>17 DEF ClearTarget, Goto, lockVars, UseLocked, InUse, Sweeping
<1>18. ASSUME NEW p \in Procs, WipeTarget(p) PROVE UseLocked'
  BY <1>18 DEF WipeTarget, Goto, lockVars, UseLocked, InUse, Sweeping
<1>19. ASSUME NEW p \in Procs, WipeFails(p) PROVE UseLocked'
  BY <1>19 DEF WipeFails, Ends, Forgotten, DropLocks, Goto, TypeOK, ProcsOK, Scopes,
     UseLocked, InUse, Sweeping
<1>20. ASSUME NEW p \in Procs, Publish(p) PROVE UseLocked'
  BY <1>20 DEF Publish, Goto, lockVars, UseLocked, InUse, Sweeping
<1>21. ASSUME NEW p \in Procs, Unstage(p) PROVE UseLocked'
  BY <1>21 DEF Unstage, Goto, UseLocked, InUse, Sweeping
<1>22. ASSUME NEW p \in Procs, Hold(p) PROVE UseLocked'
  BY <1>22 DEF Hold, Goto, TypeOK, LocksOK, Scopes, UseLocked, InUse, Sweeping
<1>23. ASSUME NEW p \in Procs, FinishRun(p) PROVE UseLocked'
  BY <1>23 DEF FinishRun, Ends, Forgotten, DropLocks, Goto, TypeOK, ProcsOK, Scopes,
     UseLocked, InUse, Sweeping
<1>24. ASSUME NEW p \in Procs, Survey(p) PROVE UseLocked'
  BY <1>24 DEF Survey, Goto, lockVars, UseLocked, InUse, Sweeping
<1>25. ASSUME NEW p \in Procs, RemoveGarbageEntry(p) PROVE UseLocked'
  BY <1>25 DEF RemoveGarbageEntry, TakeInUse, Goto, TypeOK, ProcsOK, UseLocked,
     InUse, Sweeping
<1>26. ASSUME NEW p \in Procs, RemoveLive(p) PROVE UseLocked'
  BY <1>26 DEF RemoveLive, TakeInUse, Goto, TypeOK, ProcsOK, UseLocked, InUse,
     Sweeping
<1>27. ASSUME NEW p \in Procs, MoveOut(p) PROVE UseLocked'
  BY <1>27 DEF MoveOut, Goto, TypeOK, ProcsOK, UseLocked, InUse, Sweeping
<1>28. ASSUME NEW p \in Procs, DeleteDoomed(p) PROVE UseLocked'
  BY <1>28 DEF DeleteDoomed, Goto, lockVars, UseLocked, InUse, Sweeping
<1>29. ASSUME NEW p \in Procs, RemoveStaged(p) PROVE UseLocked'
  BY <1>29 DEF RemoveStaged, TakeStagingLock, Goto, UseLocked, InUse, Sweeping
<1>30. ASSUME NEW p \in Procs, RemoveStagedDir(p) PROVE UseLocked'
  BY <1>30 DEF RemoveStagedDir, Goto, lockVars, UseLocked, InUse, Sweeping
<1>31. ASSUME NEW p \in Procs, RemoveStagingLock(p) PROVE UseLocked'
  BY <1>31 DEF RemoveStagingLock, Goto, UseLocked, InUse, Sweeping
<1>32. ASSUME NEW p \in Procs, SweepRound(p) PROVE UseLocked'
  BY <1>32 DEF SweepRound, Goto, Ends, Forgotten, DropLocks, lockVars, TypeOK,
     ProcsOK, Scopes, UseLocked, InUse, Sweeping
<1>33. ASSUME NEW p \in Procs, SkipStaged(p) PROVE UNCHANGED <<shared, pc, key,
   back>>
  BY <1>33 DEF SkipStaged, Lockable, lockVars, procVars
<1>34. ASSUME NEW k \in Keys, Delete(k) PROVE UNCHANGED <<shared, pc, key, back>>
  BY <1>34 DEF Delete, lockVars, procVars
<1>35. CASE UNCHANGED vars
  BY <1>1, <1>35 DEF vars, lockVars, procVars
<1> QED
  BY <1>1, <1>2, <1>3, <1>4, <1>5, <1>6, <1>7, <1>8, <1>9, <1>10, <1>11, <1>12,
     <1>13, <1>14, <1>15, <1>16, <1>17, <1>18, <1>19, <1>20, <1>21, <1>22, <1>23,
     <1>24, <1>25, <1>26, <1>27, <1>28, <1>29, <1>30, <1>31, <1>32, <1>33, <1>34,
     <1>35 DEF Next, Step, ResolveStep, SweepStep

\* No entry is locked both ways.
LEMMA MoveStep ==
    ASSUME TypeOK, Scopes, MoveLocked, [Next]_vars
    PROVE  MoveLocked'
<1>1. ASSUME UNCHANGED <<shared, excl, pc, victim>> PROVE MoveLocked'
  BY <1>1 DEF TypeOK, LocksOK, ProcsOK, SweepsOK, Scopes, MoveLocked
<1>2. ASSUME NEW p \in Procs, Resolve(p) PROVE MoveLocked'
  BY <1>2 DEF Resolve, Goto, lockVars, sweepVars, MoveLocked
<1>3. ASSUME NEW p \in Procs, StartGc(p) PROVE MoveLocked'
  BY <1>3 DEF StartGc, Goto, lockVars, sweepVars, MoveLocked
<1>4. ASSUME NEW p \in Procs, Crash(p) PROVE MoveLocked'
  BY <1>4 DEF Crash, Forgotten, DropLocks, Goto, TypeOK, ProcsOK, Scopes, MoveLocked
<1>5. ASSUME NEW p \in Procs, FindExists(p) PROVE MoveLocked'
  <2>1. PICK l : pc' = [pc EXCEPT ![p] = l] /\ Looked(p, l)
    BY <1>5, LookFacts
  <2> QED BY <1>5, <2>1, LookFacts DEF Looked, TypeOK, LocksOK, ProcsOK, SweepsOK,
     Scopes, MoveLocked
<1>6. ASSUME NEW p \in Procs, FindRead(p) PROVE MoveLocked'
  <2>1. PICK l : pc' = [pc EXCEPT ![p] = l] /\ Looked(p, l)
    BY <1>6, LookFacts
  <2> QED BY <1>6, <2>1, LookFacts DEF Looked, TypeOK, LocksOK, ProcsOK, SweepsOK,
     Scopes, MoveLocked
<1>7. ASSUME NEW p \in Procs, FindReadFails(p) PROVE MoveLocked'
  BY <1>7 DEF FindReadFails, Fails, Ends, Forgotten, DropLocks, Goto, Scopes,
     MoveLocked
<1>8. ASSUME NEW p \in Procs, Touch(p) PROVE MoveLocked'
  BY <1>8 DEF Touch, Goto, sweepVars, MoveLocked
<1>9. ASSUME NEW p \in Procs, LockEntry(p) PROVE MoveLocked'
  BY <1>9 DEF LockEntry, Goto, sweepVars, MoveLocked
<1>10. ASSUME NEW p \in Procs, Repair(p) PROVE MoveLocked'
  BY <1>10 DEF Repair, Goto, lockVars, sweepVars, MoveLocked
<1>11. ASSUME NEW p \in Procs, RepairFails(p) PROVE MoveLocked'
  BY <1>11 DEF RepairFails, Fails, Ends, Forgotten, DropLocks, Goto, Scopes,
     MoveLocked
<1>12. ASSUME NEW p \in Procs, CreateLockFile(p) PROVE MoveLocked'
  BY <1>12 DEF CreateLockFile, Goto, lockVars, sweepVars, MoveLocked
<1>13. ASSUME NEW p \in Procs, LockStaged(p) PROVE MoveLocked'
  BY <1>13 DEF LockStaged, Goto, sweepVars, TypeOK, ProcsOK, MoveLocked
<1>14. ASSUME NEW p \in Procs, LockStagedFails(p) PROVE MoveLocked'
  BY <1>14 DEF LockStagedFails, Fails, Ends, Forgotten, DropLocks, Goto, Scopes,
     MoveLocked
<1>15. ASSUME NEW p \in Procs, FetchDone(p) PROVE MoveLocked'
  BY <1>15 DEF FetchDone, Goto, lockVars, sweepVars, MoveLocked
<1>16. ASSUME NEW p \in Procs, FetchFails(p) PROVE MoveLocked'
  BY <1>16 DEF FetchFails, Ends, Forgotten, DropLocks, Goto, Scopes, MoveLocked
<1>17. ASSUME NEW p \in Procs, ClearTarget(p) PROVE MoveLocked'
  BY <1>17 DEF ClearTarget, Goto, lockVars, sweepVars, MoveLocked
<1>18. ASSUME NEW p \in Procs, WipeTarget(p) PROVE MoveLocked'
  BY <1>18 DEF WipeTarget, Goto, lockVars, sweepVars, MoveLocked
<1>19. ASSUME NEW p \in Procs, WipeFails(p) PROVE MoveLocked'
  BY <1>19 DEF WipeFails, Ends, Forgotten, DropLocks, Goto, Scopes, MoveLocked
<1>20. ASSUME NEW p \in Procs, Publish(p) PROVE MoveLocked'
  BY <1>20 DEF Publish, Goto, lockVars, sweepVars, MoveLocked
<1>21. ASSUME NEW p \in Procs, Unstage(p) PROVE MoveLocked'
  BY <1>21 DEF Unstage, Goto, sweepVars, MoveLocked
<1>22. ASSUME NEW p \in Procs, Hold(p) PROVE MoveLocked'
  BY <1>22 DEF Hold, Goto, sweepVars, MoveLocked
<1>23. ASSUME NEW p \in Procs, FinishRun(p) PROVE MoveLocked'
  BY <1>23 DEF FinishRun, Ends, Forgotten, DropLocks, Goto, Scopes, MoveLocked
<1>24. ASSUME NEW p \in Procs, Survey(p) PROVE MoveLocked'
  BY <1>24 DEF Survey, Goto, lockVars, MoveLocked
<1>25. ASSUME NEW p \in Procs, RemoveGarbageEntry(p) PROVE MoveLocked'
  BY <1>25 DEF RemoveGarbageEntry, TakeInUse, Goto, TypeOK, LocksOK, ProcsOK,
     SweepsOK, Scopes, MoveLocked
<1>26. ASSUME NEW p \in Procs, RemoveLive(p) PROVE MoveLocked'
  BY <1>26 DEF RemoveLive, TakeInUse, Goto, TypeOK, LocksOK, ProcsOK, SweepsOK,
     Scopes, MoveLocked
<1>27. ASSUME NEW p \in Procs, MoveOut(p) PROVE MoveLocked'
  BY <1>27 DEF MoveOut, Goto, TypeOK, ProcsOK, MoveLocked
<1>28. ASSUME NEW p \in Procs, DeleteDoomed(p) PROVE MoveLocked'
  BY <1>28 DEF DeleteDoomed, Goto, lockVars, sweepVars, MoveLocked
<1>29. ASSUME NEW p \in Procs, RemoveStaged(p) PROVE MoveLocked'
  BY <1>29 DEF RemoveStaged, TakeStagingLock, Goto, MoveLocked
<1>30. ASSUME NEW p \in Procs, RemoveStagedDir(p) PROVE MoveLocked'
  BY <1>30 DEF RemoveStagedDir, Goto, lockVars, sweepVars, MoveLocked
<1>31. ASSUME NEW p \in Procs, RemoveStagingLock(p) PROVE MoveLocked'
  BY <1>31 DEF RemoveStagingLock, Goto, sweepVars, MoveLocked
<1>32. ASSUME NEW p \in Procs, SweepRound(p) PROVE MoveLocked'
  BY <1>32 DEF SweepRound, Goto, Ends, Forgotten, DropLocks, lockVars, sweepVars,
     TypeOK, LocksOK, ProcsOK, SweepsOK, Scopes, MoveLocked
<1>33. ASSUME NEW p \in Procs, SkipStaged(p) PROVE UNCHANGED <<shared, excl, pc,
   victim>>
  BY <1>33 DEF SkipStaged, Lockable, lockVars, procVars
<1>34. ASSUME NEW k \in Keys, Delete(k) PROVE UNCHANGED <<shared, excl, pc, victim>>
  BY <1>34 DEF Delete, lockVars, procVars, sweepVars
<1>35. CASE UNCHANGED vars
  BY <1>1, <1>35 DEF vars, lockVars, procVars, sweepVars
<1> QED
  BY <1>1, <1>2, <1>3, <1>4, <1>5, <1>6, <1>7, <1>8, <1>9, <1>10, <1>11, <1>12,
     <1>13, <1>14, <1>15, <1>16, <1>17, <1>18, <1>19, <1>20, <1>21, <1>22, <1>23,
     <1>24, <1>25, <1>26, <1>27, <1>28, <1>29, <1>30, <1>31, <1>32, <1>33, <1>34,
     <1>35 DEF Next, Step, ResolveStep, SweepStep

\* No step of a process leaves an entry in part.
LEMMA SoundStep ==
    ASSUME TypeOK, Scopes, StagingKept, EntriesSound, [Next]_vars
    PROVE  EntriesSound'
<1>1. ASSUME UNCHANGED <<entry, pc, key, deletes>> PROVE EntriesSound'
  BY <1>1 DEF EntriesSound
<1>2. ASSUME NEW p \in Procs, Resolve(p) PROVE EntriesSound'
  BY <1>2 DEF Resolve, Goto, fileVars, EntriesSound
<1>3. ASSUME NEW p \in Procs, StartGc(p) PROVE EntriesSound'
  BY <1>3 DEF StartGc, Goto, fileVars, EntriesSound
<1>4. ASSUME NEW p \in Procs, Crash(p) PROVE EntriesSound'
  <2>1. /\ pc' = [pc EXCEPT ![p] = "idle"] /\ key' = [key EXCEPT ![p] = NoKey]
        /\ UNCHANGED deletes
    BY <1>4, CrashFacts
  <2>2. CASE entry' = entry
    BY <2>1, <2>2 DEF TypeOK, ProcsOK, EntriesSound
  <2>3. CASE entry[key[p]] = "torn" /\ entry' = [entry EXCEPT ![key[p]] = "husk"]
    <3>1. \A k \in Keys : entry'[k] = entry[k] \/ (entry[k] = "torn" /\ entry'[k] = "husk")
      BY <2>3 DEF TypeOK, FilesOK
    <3>2. \A q \in Procs : pc'[q] = "touch" =>
            pc[q] = "touch" /\ key'[q] = key[q] /\ key[q] \in Keys
      BY <2>1 DEF TypeOK, ProcsOK, Scopes, Sweeping
    <3> QED BY <2>1, <3>1, <3>2 DEF EntriesSound
  <2> QED BY <1>4, <2>2, <2>3, CrashFacts
<1>5. ASSUME NEW p \in Procs, FindExists(p) PROVE EntriesSound'
  <2>1. PICK l : pc' = [pc EXCEPT ![p] = l] /\ Looked(p, l)
    BY <1>5, LookFacts
  <2>2. key[p] \in Keys /\ UNCHANGED <<entry, key, deletes>>
    BY <1>5, LookFacts DEF Scopes, Sweeping
  <2>3. deletes = 0 /\ l = "touch" => entry[key[p]] = "whole"
    BY <2>1, <2>2 DEF Looked, EntriesSound
  <2> QED BY <2>1, <2>2, <2>3 DEF TypeOK, ProcsOK, EntriesSound
<1>6. ASSUME NEW p \in Procs, FindRead(p) PROVE EntriesSound'
  <2>1. PICK l : pc' = [pc EXCEPT ![p] = l] /\ Looked(p, l)
    BY <1>6, LookFacts
  <2>2. key[p] \in Keys /\ UNCHANGED <<entry, key, deletes>>
    BY <1>6, LookFacts DEF Scopes, Sweeping
  <2>3. deletes = 0 /\ l = "touch" => entry[key[p]] = "whole"
    BY <2>1, <2>2 DEF Looked, EntriesSound
  <2> QED BY <2>1, <2>2, <2>3 DEF TypeOK, ProcsOK, EntriesSound
<1>7. ASSUME NEW p \in Procs, FindReadFails(p) PROVE EntriesSound'
  BY <1>7 DEF FindReadFails, Fails, Ends, Forgotten, Goto, fileVars, boundVars,
     EntriesSound
<1>8. ASSUME NEW p \in Procs, Touch(p) PROVE EntriesSound'
  BY <1>8 DEF Touch, Goto, boundVars, TypeOK, FilesOK, EntriesSound
<1>9. ASSUME NEW p \in Procs, LockEntry(p) PROVE EntriesSound'
  BY <1>9 DEF LockEntry, Goto, fileVars, boundVars, EntriesSound
<1>10. ASSUME NEW p \in Procs, Repair(p) PROVE EntriesSound'
  BY <1>10 DEF Repair, Goto, boundVars, EntriesSound
<1>11. ASSUME NEW p \in Procs, RepairFails(p) PROVE EntriesSound'
  BY <1>11 DEF RepairFails, Fails, Ends, Forgotten, Goto, fileVars, boundVars,
     EntriesSound
<1>12. ASSUME NEW p \in Procs, CreateLockFile(p) PROVE EntriesSound'
  BY <1>12 DEF CreateLockFile, Goto, boundVars, EntriesSound
<1>13. ASSUME NEW p \in Procs, LockStaged(p) PROVE EntriesSound'
  BY <1>13 DEF LockStaged, Goto, boundVars, TypeOK, ProcsOK, EntriesSound
<1>14. ASSUME NEW p \in Procs, LockStagedFails(p) PROVE EntriesSound'
  BY <1>14 DEF LockStagedFails, Fails, Ends, Forgotten, Goto, fileVars, boundVars,
     EntriesSound
<1>15. ASSUME NEW p \in Procs, FetchDone(p) PROVE EntriesSound'
  BY <1>15 DEF FetchDone, Goto, fileVars, boundVars, EntriesSound
<1>16. ASSUME NEW p \in Procs, FetchFails(p) PROVE EntriesSound'
  BY <1>16 DEF FetchFails, Ends, Forgotten, Goto, boundVars, EntriesSound
<1>17. ASSUME NEW p \in Procs, ClearTarget(p) PROVE EntriesSound'
  BY <1>17 DEF ClearTarget, Goto, fileVars, boundVars, EntriesSound
<1>18. ASSUME NEW p \in Procs, WipeTarget(p) PROVE EntriesSound'
  BY <1>18 DEF WipeTarget, Goto, boundVars, EntriesSound
<1>19. ASSUME NEW p \in Procs, WipeFails(p) PROVE EntriesSound'
  BY <1>19 DEF WipeFails, Ends, Forgotten, Goto, boundVars, EntriesSound
<1>20. ASSUME NEW p \in Procs, Publish(p) PROVE EntriesSound'
  BY <1>20 DEF Publish, Goto, boundVars, StagingKept, EntriesSound, Fetching
<1>21. ASSUME NEW p \in Procs, Unstage(p) PROVE EntriesSound'
  BY <1>21 DEF Unstage, Goto, boundVars, EntriesSound
<1>22. ASSUME NEW p \in Procs, Hold(p) PROVE EntriesSound'
  BY <1>22 DEF Hold, Goto, fileVars, boundVars, EntriesSound
<1>23. ASSUME NEW p \in Procs, FinishRun(p) PROVE EntriesSound'
  BY <1>23 DEF FinishRun, Ends, Forgotten, Goto, fileVars, boundVars, EntriesSound
<1>24. ASSUME NEW p \in Procs, Survey(p) PROVE EntriesSound'
  BY <1>24 DEF Survey, Goto, fileVars, boundVars, EntriesSound
<1>25. ASSUME NEW p \in Procs, RemoveGarbageEntry(p) PROVE EntriesSound'
  BY <1>25 DEF RemoveGarbageEntry, TakeInUse, Goto, fileVars, boundVars, TypeOK,
     ProcsOK, EntriesSound
<1>26. ASSUME NEW p \in Procs, RemoveLive(p) PROVE EntriesSound'
  BY <1>26 DEF RemoveLive, TakeInUse, Goto, fileVars, boundVars, TypeOK, ProcsOK,
     EntriesSound
<1>27. ASSUME NEW p \in Procs, MoveOut(p) PROVE EntriesSound'
  <2>1. CASE Unmoved(p)
    BY <2>1 DEF Unmoved, Moves, EntriesSound
  <2>2. ASSUME NEW n \in Names, Moved(p, n) PROVE EntriesSound'
    BY <2>2 DEF Moved, Moves, EntriesSound
  <2> QED BY <1>27, <2>1, <2>2, MoveFacts
<1>28. ASSUME NEW p \in Procs, DeleteDoomed(p) PROVE EntriesSound'
  BY <1>28 DEF DeleteDoomed, Goto, boundVars, EntriesSound
<1>29. ASSUME NEW p \in Procs, RemoveStaged(p) PROVE EntriesSound'
  BY <1>29 DEF RemoveStaged, TakeStagingLock, Goto, fileVars, boundVars,
     EntriesSound
<1>30. ASSUME NEW p \in Procs, RemoveStagedDir(p) PROVE EntriesSound'
  BY <1>30 DEF RemoveStagedDir, Goto, boundVars, EntriesSound
<1>31. ASSUME NEW p \in Procs, RemoveStagingLock(p) PROVE EntriesSound'
  BY <1>31 DEF RemoveStagingLock, Goto, boundVars, EntriesSound
<1>32. ASSUME NEW p \in Procs, SweepRound(p) PROVE EntriesSound'
  BY <1>32 DEF SweepRound, Goto, Ends, Forgotten, fileVars, boundVars, TypeOK,
     ProcsOK, EntriesSound
<1>33. ASSUME NEW k \in Keys, Delete(k) PROVE EntriesSound'
  BY <1>33 DEF Delete, TypeOK, BoundsOK, EntriesSound
<1>34. ASSUME NEW p \in Procs, SkipStaged(p) PROVE UNCHANGED <<entry, pc, key,
   deletes>>
  BY <1>34 DEF SkipStaged, Lockable, fileVars, procVars, boundVars
<1>35. CASE UNCHANGED vars
  BY <1>1, <1>35 DEF vars, fileVars, procVars, boundVars
<1> QED
  BY <1>1, <1>2, <1>3, <1>4, <1>5, <1>6, <1>7, <1>8, <1>9, <1>10, <1>11, <1>12,
     <1>13, <1>14, <1>15, <1>16, <1>17, <1>18, <1>19, <1>20, <1>21, <1>22, <1>23,
     <1>24, <1>25, <1>26, <1>27, <1>28, <1>29, <1>30, <1>31, <1>32, <1>33, <1>34,
     <1>35 DEF Next, Step, ResolveStep, SweepStep

\* Only the fetcher publishes.
LEMMA MissingStep ==
    ASSUME TypeOK, Scopes, FetchLocked, MissingStays, [Next]_vars
    PROVE  MissingStays'
<1>1. ASSUME UNCHANGED <<entry, pc, key>> PROVE MissingStays'
  BY <1>1 DEF MissingStays
<1>2. ASSUME NEW p \in Procs, Resolve(p) PROVE MissingStays'
  BY <1>2 DEF Resolve, Goto, fileVars, MissingStays, Staging
<1>3. ASSUME NEW p \in Procs, StartGc(p) PROVE MissingStays'
  BY <1>3 DEF StartGc, Goto, fileVars, MissingStays, Staging
<1>4. ASSUME NEW p \in Procs, Crash(p) PROVE MissingStays'
  <2>1. pc' = [pc EXCEPT ![p] = "idle"] /\ key' = [key EXCEPT ![p] = NoKey]
    BY <1>4, CrashFacts
  <2>2. \A k \in Keys : entry'[k] = "whole" => entry[k] = "whole"
    BY <1>4, CrashFacts DEF TypeOK, FilesOK
  <2> QED BY <2>1, <2>2 DEF TypeOK, ProcsOK, Scopes, MissingStays, Staging, Sweeping
<1>5. ASSUME NEW p \in Procs, FindExists(p) PROVE MissingStays'
  <2>1. PICK l : pc' = [pc EXCEPT ![p] = l] /\ Looked(p, l)
    BY <1>5, LookFacts
  <2> QED BY <1>5, <2>1, LookFacts DEF Looked, TypeOK, FilesOK, ProcsOK, Scopes,
     FetchLocked, Locking, MissingStays, Staging, Sweeping, Contents
<1>6. ASSUME NEW p \in Procs, FindRead(p) PROVE MissingStays'
  <2>1. PICK l : pc' = [pc EXCEPT ![p] = l] /\ Looked(p, l)
    BY <1>6, LookFacts
  <2> QED BY <1>6, <2>1, LookFacts DEF Looked, TypeOK, FilesOK, ProcsOK, Scopes,
     FetchLocked, Locking, MissingStays, Staging, Sweeping, Contents
<1>7. ASSUME NEW p \in Procs, FindReadFails(p) PROVE MissingStays'
  BY <1>7 DEF FindReadFails, Fails, Ends, Forgotten, Goto, fileVars, MissingStays,
     Staging
<1>8. ASSUME NEW p \in Procs, Touch(p) PROVE MissingStays'
  <2>1. pc' = [pc EXCEPT ![p] = "hold"] /\ key' = key
    BY <1>8 DEF Touch, Goto
  <2>2. \A k \in Keys : entry'[k] = "whole" => entry[k] = "whole"
    BY <1>8 DEF Touch, TypeOK, FilesOK
  <2> QED BY <2>1, <2>2 DEF TypeOK, ProcsOK, Scopes, MissingStays, Staging, Sweeping
<1>9. ASSUME NEW p \in Procs, LockEntry(p) PROVE MissingStays'
  BY <1>9 DEF LockEntry, Goto, fileVars, MissingStays, Staging
<1>10. ASSUME NEW p \in Procs, Repair(p) PROVE MissingStays'
  BY <1>10 DEF Repair, Goto, MissingStays
<1>11. ASSUME NEW p \in Procs, RepairFails(p) PROVE MissingStays'
  BY <1>11 DEF RepairFails, Fails, Ends, Forgotten, Goto, fileVars, TypeOK, ProcsOK,
     MissingStays, Staging
<1>12. ASSUME NEW p \in Procs, CreateLockFile(p) PROVE MissingStays'
  BY <1>12 DEF CreateLockFile, Goto, MissingStays
<1>13. ASSUME NEW p \in Procs, LockStaged(p) PROVE MissingStays'
  BY <1>13 DEF LockStaged, Goto, TypeOK, ProcsOK, MissingStays, Staging
<1>14. ASSUME NEW p \in Procs, LockStagedFails(p) PROVE MissingStays'
  BY <1>14 DEF LockStagedFails, Fails, Ends, Forgotten, Goto, fileVars, TypeOK,
     ProcsOK, MissingStays, Staging
<1>15. ASSUME NEW p \in Procs, FetchDone(p) PROVE MissingStays'
  BY <1>15 DEF FetchDone, Goto, fileVars, MissingStays, Staging
<1>16. ASSUME NEW p \in Procs, FetchFails(p) PROVE MissingStays'
  BY <1>16 DEF FetchFails, Ends, Forgotten, Goto, TypeOK, ProcsOK, MissingStays,
     Staging
<1>17. ASSUME NEW p \in Procs, ClearTarget(p) PROVE MissingStays'
  BY <1>17 DEF ClearTarget, Goto, fileVars, MissingStays, Staging
<1>18. ASSUME NEW p \in Procs, WipeTarget(p) PROVE MissingStays'
  BY <1>18 DEF WipeTarget, Goto, MissingStays, Staging
<1>19. ASSUME NEW p \in Procs, WipeFails(p) PROVE MissingStays'
  BY <1>19 DEF WipeFails, Ends, Forgotten, Goto, TypeOK, ProcsOK, MissingStays,
     Staging
<1>20. ASSUME NEW p \in Procs, Publish(p) PROVE MissingStays'
  BY <1>20 DEF Publish, Goto, TypeOK, ProcsOK, Scopes, FetchLocked, Locking,
     MissingStays, Staging, Sweeping
<1>21. ASSUME NEW p \in Procs, Unstage(p) PROVE MissingStays'
  BY <1>21 DEF Unstage, Goto, MissingStays, Staging
<1>22. ASSUME NEW p \in Procs, Hold(p) PROVE MissingStays'
  BY <1>22 DEF Hold, Goto, fileVars, MissingStays, Staging
<1>23. ASSUME NEW p \in Procs, FinishRun(p) PROVE MissingStays'
  BY <1>23 DEF FinishRun, Ends, Forgotten, Goto, fileVars, MissingStays, Staging
<1>24. ASSUME NEW p \in Procs, Survey(p) PROVE MissingStays'
  BY <1>24 DEF Survey, Goto, fileVars, MissingStays, Staging
<1>25. ASSUME NEW p \in Procs, RemoveGarbageEntry(p) PROVE MissingStays'
  BY <1>25 DEF RemoveGarbageEntry, TakeInUse, Goto, fileVars, TypeOK, ProcsOK,
     MissingStays, Staging
<1>26. ASSUME NEW p \in Procs, RemoveLive(p) PROVE MissingStays'
  BY <1>26 DEF RemoveLive, TakeInUse, Goto, fileVars, TypeOK, ProcsOK, Scopes,
     FetchLocked, MissingStays, Staging, Sweeping
<1>27. ASSUME NEW p \in Procs, MoveOut(p) PROVE MissingStays'
  <2>1. CASE Unmoved(p)
    BY <2>1 DEF Unmoved, Moves, MissingStays, Staging
  <2>2. ASSUME NEW n \in Names, Moved(p, n) PROVE MissingStays'
    BY <2>2 DEF Moved, Moves, MissingStays, Staging
  <2> QED BY <1>27, <2>1, <2>2, MoveFacts
<1>28. ASSUME NEW p \in Procs, DeleteDoomed(p) PROVE MissingStays'
  BY <1>28 DEF DeleteDoomed, Goto, MissingStays, Staging
<1>29. ASSUME NEW p \in Procs, RemoveStaged(p) PROVE MissingStays'
  BY <1>29 DEF RemoveStaged, TakeStagingLock, Goto, fileVars, MissingStays, Staging
<1>30. ASSUME NEW p \in Procs, RemoveStagedDir(p) PROVE MissingStays'
  BY <1>30 DEF RemoveStagedDir, Goto, MissingStays, Staging
<1>31. ASSUME NEW p \in Procs, RemoveStagingLock(p) PROVE MissingStays'
  BY <1>31 DEF RemoveStagingLock, Goto, MissingStays, Staging
<1>32. ASSUME NEW p \in Procs, SweepRound(p) PROVE MissingStays'
  BY <1>32 DEF SweepRound, Goto, Ends, Forgotten, fileVars, TypeOK, ProcsOK, Scopes,
     FetchLocked, Locking, MissingStays, Staging, Contents
<1>33. ASSUME NEW k \in Keys, Delete(k) PROVE MissingStays'
  BY <1>33 DEF Delete, procVars, MissingStays
<1>34. ASSUME NEW p \in Procs, SkipStaged(p) PROVE UNCHANGED <<entry, pc, key>>
  BY <1>34 DEF SkipStaged, Lockable, fileVars, procVars
<1>35. CASE UNCHANGED vars
  BY <1>1, <1>35 DEF vars, fileVars, procVars
<1> QED
  BY <1>1, <1>2, <1>3, <1>4, <1>5, <1>6, <1>7, <1>8, <1>9, <1>10, <1>11, <1>12,
     <1>13, <1>14, <1>15, <1>16, <1>17, <1>18, <1>19, <1>20, <1>21, <1>22, <1>23,
     <1>24, <1>25, <1>26, <1>27, <1>28, <1>29, <1>30, <1>31, <1>32, <1>33, <1>34,
     <1>35 DEF Next, Step, ResolveStep, SweepStep

\* Nothing is taken from an entry in use.
LEMMA HeldStep ==
    ASSUME TypeOK, Scopes, UseLocked, MoveLocked, EntriesSound, MissingStays, HeldEntryWhole, [Next]_vars
    PROVE  HeldEntryWhole'
<1>1. ASSUME UNCHANGED <<entry, pc, key, deletes>> PROVE HeldEntryWhole'
  BY <1>1 DEF HeldEntryWhole, InUse
<1>2. ASSUME NEW p \in Procs, Resolve(p) PROVE HeldEntryWhole'
  BY <1>2 DEF Resolve, Goto, fileVars, HeldEntryWhole, InUse, Sweeping
<1>3. ASSUME NEW p \in Procs, StartGc(p) PROVE HeldEntryWhole'
  BY <1>3 DEF StartGc, Goto, fileVars, Scopes, HeldEntryWhole, InUse
<1>4. ASSUME NEW p \in Procs, Crash(p) PROVE HeldEntryWhole'
  BY <1>4 DEF Crash, Forgotten, Goto, TypeOK, FilesOK, ProcsOK, HeldEntryWhole,
     InUse
<1>5. ASSUME NEW p \in Procs, FindExists(p) PROVE HeldEntryWhole'
  <2>1. PICK l : pc' = [pc EXCEPT ![p] = l] /\ Looked(p, l)
    BY <1>5, LookFacts
  <2> QED BY <1>5, <2>1, LookFacts DEF Looked, TypeOK, FilesOK, ProcsOK, SweepsOK,
     BoundsOK, Scopes, UseLocked, MoveLocked, EntriesSound, MissingStays,
     HeldEntryWhole, InUse, Staging, Sweeping, Contents
<1>6. ASSUME NEW p \in Procs, FindRead(p) PROVE HeldEntryWhole'
  <2>1. PICK l : pc' = [pc EXCEPT ![p] = l] /\ Looked(p, l)
    BY <1>6, LookFacts
  <2> QED BY <1>6, <2>1, LookFacts DEF Looked, TypeOK, FilesOK, ProcsOK, SweepsOK,
     BoundsOK, Scopes, UseLocked, MoveLocked, EntriesSound, MissingStays,
     HeldEntryWhole, InUse, Staging, Sweeping, Contents
<1>7. ASSUME NEW p \in Procs, FindReadFails(p) PROVE HeldEntryWhole'
  BY <1>7 DEF FindReadFails, Fails, Ends, Forgotten, Goto, fileVars, boundVars,
     TypeOK, ProcsOK, HeldEntryWhole, InUse
<1>8. ASSUME NEW p \in Procs, Touch(p) PROVE HeldEntryWhole'
  BY <1>8 DEF Touch, Goto, boundVars, TypeOK, FilesOK, ProcsOK, HeldEntryWhole,
     InUse, Sweeping
<1>9. ASSUME NEW p \in Procs, LockEntry(p) PROVE HeldEntryWhole'
  BY <1>9 DEF LockEntry, Goto, fileVars, boundVars, HeldEntryWhole, InUse, Sweeping
<1>10. ASSUME NEW p \in Procs, Repair(p) PROVE HeldEntryWhole'
  BY <1>10 DEF Repair, Goto, boundVars, MissingStays, HeldEntryWhole, InUse,
     Sweeping
<1>11. ASSUME NEW p \in Procs, RepairFails(p) PROVE HeldEntryWhole'
  BY <1>11 DEF RepairFails, Fails, Ends, Forgotten, Goto, fileVars, boundVars,
     TypeOK, ProcsOK, HeldEntryWhole, InUse
<1>12. ASSUME NEW p \in Procs, CreateLockFile(p) PROVE HeldEntryWhole'
  BY <1>12 DEF CreateLockFile, Goto, boundVars, HeldEntryWhole, InUse, Sweeping
<1>13. ASSUME NEW p \in Procs, LockStaged(p) PROVE HeldEntryWhole'
  BY <1>13 DEF LockStaged, Goto, boundVars, TypeOK, ProcsOK, HeldEntryWhole, InUse,
     Sweeping
<1>14. ASSUME NEW p \in Procs, LockStagedFails(p) PROVE HeldEntryWhole'
  BY <1>14 DEF LockStagedFails, Fails, Ends, Forgotten, Goto, fileVars, boundVars,
     TypeOK, ProcsOK, HeldEntryWhole, InUse
<1>15. ASSUME NEW p \in Procs, FetchDone(p) PROVE HeldEntryWhole'
  BY <1>15 DEF FetchDone, Goto, fileVars, boundVars, HeldEntryWhole, InUse, Sweeping
<1>16. ASSUME NEW p \in Procs, FetchFails(p) PROVE HeldEntryWhole'
  BY <1>16 DEF FetchFails, Ends, Forgotten, Goto, boundVars, TypeOK, ProcsOK,
     HeldEntryWhole, InUse
<1>17. ASSUME NEW p \in Procs, ClearTarget(p) PROVE HeldEntryWhole'
  BY <1>17 DEF ClearTarget, Goto, fileVars, boundVars, HeldEntryWhole, InUse,
     Sweeping
<1>18. ASSUME NEW p \in Procs, WipeTarget(p) PROVE HeldEntryWhole'
  BY <1>18 DEF WipeTarget, Goto, boundVars, MissingStays, HeldEntryWhole, InUse,
     Staging, Sweeping
<1>19. ASSUME NEW p \in Procs, WipeFails(p) PROVE HeldEntryWhole'
  BY <1>19 DEF WipeFails, Ends, Forgotten, Goto, boundVars, TypeOK, ProcsOK,
     HeldEntryWhole, InUse
<1>20. ASSUME NEW p \in Procs, Publish(p) PROVE HeldEntryWhole'
  BY <1>20 DEF Publish, Goto, boundVars, MissingStays, HeldEntryWhole, InUse,
     Staging, Sweeping
<1>21. ASSUME NEW p \in Procs, Unstage(p) PROVE HeldEntryWhole'
  BY <1>21 DEF Unstage, Goto, boundVars, HeldEntryWhole, InUse, Sweeping
<1>22. ASSUME NEW p \in Procs, Hold(p) PROVE HeldEntryWhole'
  BY <1>22 DEF Hold, Goto, fileVars, boundVars, HeldEntryWhole, InUse, Sweeping
<1>23. ASSUME NEW p \in Procs, FinishRun(p) PROVE HeldEntryWhole'
  BY <1>23 DEF FinishRun, Ends, Forgotten, Goto, fileVars, boundVars,
     HeldEntryWhole, InUse
<1>24. ASSUME NEW p \in Procs, Survey(p) PROVE HeldEntryWhole'
  BY <1>24 DEF Survey, Goto, fileVars, boundVars, HeldEntryWhole, InUse, Sweeping
<1>25. ASSUME NEW p \in Procs, RemoveGarbageEntry(p) PROVE HeldEntryWhole'
  BY <1>25 DEF RemoveGarbageEntry, TakeInUse, Goto, fileVars, boundVars, TypeOK,
     ProcsOK, HeldEntryWhole, InUse, Sweeping
<1>26. ASSUME NEW p \in Procs, RemoveLive(p) PROVE HeldEntryWhole'
  BY <1>26 DEF RemoveLive, TakeInUse, Goto, fileVars, boundVars, TypeOK, ProcsOK,
     HeldEntryWhole, InUse, Sweeping
<1>27. ASSUME NEW p \in Procs, MoveOut(p) PROVE HeldEntryWhole'
  <2>1. CASE Unmoved(p)
    BY <2>1 DEF Unmoved, Moves, TypeOK, ProcsOK, HeldEntryWhole, InUse, Sweeping
  <2>2. ASSUME NEW n \in Names, Moved(p, n) PROVE HeldEntryWhole'
    <3>1. /\ pc[p] = "move" /\ pc' = [pc EXCEPT ![p] = "delete"]
          /\ entry' = [entry EXCEPT ![victim[p]] = "absent"]
          /\ UNCHANGED <<key, deletes>>
      BY <2>2 DEF Moved, Moves
    <3>2. \A q \in Procs : InUse(q) => key[q] \in Keys /\ key[q] # victim[p]
      BY <3>1 DEF TypeOK, ProcsOK, Scopes, UseLocked, MoveLocked, InUse
    <3>3. \A q \in Procs : InUse(q)' => InUse(q) /\ key'[q] = key[q]
      BY <3>1 DEF TypeOK, ProcsOK, InUse, Sweeping
    <3> QED BY <3>1, <3>2, <3>3 DEF TypeOK, FilesOK, HeldEntryWhole
  <2> QED BY <1>27, <2>1, <2>2, MoveFacts
<1>28. ASSUME NEW p \in Procs, DeleteDoomed(p) PROVE HeldEntryWhole'
  BY <1>28 DEF DeleteDoomed, Goto, boundVars, HeldEntryWhole, InUse, Sweeping
<1>29. ASSUME NEW p \in Procs, RemoveStaged(p) PROVE HeldEntryWhole'
  BY <1>29 DEF RemoveStaged, TakeStagingLock, Goto, fileVars, boundVars,
     HeldEntryWhole, InUse, Sweeping
<1>30. ASSUME NEW p \in Procs, RemoveStagedDir(p) PROVE HeldEntryWhole'
  BY <1>30 DEF RemoveStagedDir, Goto, boundVars, HeldEntryWhole, InUse, Sweeping
<1>31. ASSUME NEW p \in Procs, RemoveStagingLock(p) PROVE HeldEntryWhole'
  BY <1>31 DEF RemoveStagingLock, Goto, boundVars, HeldEntryWhole, InUse, Sweeping
<1>32. ASSUME NEW p \in Procs, SweepRound(p) PROVE HeldEntryWhole'
  BY <1>32 DEF SweepRound, Goto, Ends, Forgotten, fileVars, boundVars, TypeOK,
     ProcsOK, HeldEntryWhole, InUse, Sweeping
<1>33. ASSUME NEW k \in Keys, Delete(k) PROVE HeldEntryWhole'
  BY <1>33 DEF Delete, TypeOK, BoundsOK, HeldEntryWhole
<1>34. ASSUME NEW p \in Procs, SkipStaged(p) PROVE UNCHANGED <<entry, pc, key,
   deletes>>
  BY <1>34 DEF SkipStaged, Lockable, fileVars, procVars, boundVars
<1>35. CASE UNCHANGED vars
  BY <1>1, <1>35 DEF vars, fileVars, procVars, boundVars
<1> QED
  BY <1>1, <1>2, <1>3, <1>4, <1>5, <1>6, <1>7, <1>8, <1>9, <1>10, <1>11, <1>12,
     <1>13, <1>14, <1>15, <1>16, <1>17, <1>18, <1>19, <1>20, <1>21, <1>22, <1>23,
     <1>24, <1>25, <1>26, <1>27, <1>28, <1>29, <1>30, <1>31, <1>32, <1>33, <1>34,
     <1>35 DEF Next, Step, ResolveStep, SweepStep

\* It holds initially.
LEMMA InitInv == Init => IInv
<1> SUFFICES ASSUME Init PROVE IInv
  OBVIOUS
<1>1. FilesOK
  BY DEF Init, FilesOK, Contents, Staged
<1>2. LocksOK /\ ProcsOK
  BY DEF Init, LocksOK, ProcsOK, PC
<1>3. SweepsOK /\ BoundsOK
  BY DEF Init, SweepsOK, BoundsOK
<1>4. Scopes /\ FetchLocked
  BY DEF Init, Scopes, FetchLocked, Locking, Staging, Sweeping
<1>5. StagingKept /\ StagingApart /\ RemoverLocked /\ LockNamed
  BY DEF Init, StagingKept, StagingApart, RemoverLocked, LockNamed, Staging,
     Fetching
<1>6. UseLocked /\ MoveLocked
  BY DEF Init, UseLocked, MoveLocked, InUse, Sweeping
<1>7. EntriesSound /\ MissingStays /\ HeldEntryWhole
  BY DEF Init, EntriesSound, MissingStays, HeldEntryWhole, InUse, Staging, Sweeping
<1> QED BY <1>1, <1>2, <1>3, <1>4, <1>5, <1>6, <1>7 DEF IInv, TypeOK

\* Every step keeps it: locks and names protect what they were taken for.
THEOREM Inductive == IInv /\ [Next]_vars => IInv'
<1> SUFFICES ASSUME IInv, [Next]_vars PROVE IInv'
  OBVIOUS
<1> USE DEF IInv
<1>1. TypeOK'
  BY FilesStep, LocksStep, ProcsStep, SweepsStep, BoundsStep DEF TypeOK
<1>2. Scopes' /\ FetchLocked'
  BY ScopesStep, FetchLockedStep
<1>3. StagingKept' /\ StagingApart' /\ RemoverLocked' /\ LockNamed'
  BY StagingKeptStep, StagingApartStep, RemoverStep, LockNamedStep
<1>4. UseLocked' /\ MoveLocked'
  BY UseStep, MoveStep
<1>5. EntriesSound' /\ MissingStays' /\ HeldEntryWhole'
  BY SoundStep, MissingStep, HeldStep
<1> QED BY <1>1, <1>2, <1>3, <1>4, <1>5

\* Hence it always holds.
LEMMA Invariance == Spec => []IInv
  BY InitInv, Inductive, PTL DEF Spec

\* Files, locks, processes and sweeps are always well typed, and a fetch never
\* spends more names than STAGING_LOCK_ATTEMPTS.
THEOREM TypeCorrect == Spec => []TypeOK
<1>1. IInv => TypeOK
  BY DEF IInv
<1> QED BY <1>1, Invariance, PTL

\* No sweep, repair or publish of another process takes anything from an entry
\* that a process runs from.
THEOREM RunsFromWhole == Spec => []HeldEntryWhole
<1>1. IInv => HeldEntryWhole
  BY DEF IInv
<1> QED BY <1>1, Invariance, PTL

\* No sweep removes what a running fetch has staged.
THEOREM FetchesUndisturbed == Spec => []StagedFetchSafe
<1>1. IInv => StagedFetchSafe
  BY DEF IInv, StagingKept, StagedFetchSafe, Fetching, Staging
<1> QED BY <1>1, Invariance, PTL

\* A stored entry is not fetched again, whatever is deleted by hand.
THEOREM NoSecondFetch == Spec => []FetchOnlyMissing
<1>1. IInv => FetchOnlyMissing
  BY DEF IInv, MissingStays, FetchOnlyMissing, Fetching, Staging
<1> QED BY <1>1, Invariance, PTL

\* Whatever a dead process left in staging is garbage to the next survey.
THEOREM OrphansFound == Spec => []OrphansAreGarbage
<1>1. ASSUME IInv, NEW n \in Names, \A p \in Procs : name[p] # n
      PROVE  Lockable(n)
  BY <1>1 DEF IInv, TypeOK, LocksOK, LockNamed, Lockable
<1>2. IInv => OrphansAreGarbage
  BY <1>1 DEF OrphansAreGarbage, Garbage
<1> QED BY <1>2, Invariance, PTL

-----------------------------------------------------------------------------
(* The store implements HeldCache                                          *)

\* What the store looks like to its users.
Stored == {k \in Keys : entry[k] = "whole"}
UsersOf == [k \in Keys |-> {p \in Procs : InUse(p) /\ key[p] = k}]

Acts(p) == Step(p) \/ Resolve(p) \/ StartGc(p) \/ Crash(p)

\* A step is of one process, which takes up a key or lets it go only at rest.
LEMMA OneMoves ==
    ASSUME TypeOK, NEW p \in Procs, Acts(p)
    PROVE  /\ \A q \in Procs \ {p} : pc'[q] = pc[q] /\ key'[q] = key[q]
           /\ key'[p] = key[p] \/ pc[p] = "idle" \/ pc'[p] = "idle"
<1> DEFINE Still == /\ \A q \in Procs \ {p} : pc'[q] = pc[q] /\ key'[q] = key[q]
                    /\ key'[p] = key[p] \/ pc[p] = "idle" \/ pc'[p] = "idle"
<1>1. ASSUME NEW l, pc' = [pc EXCEPT ![p] = l] \/ pc' = pc, key' = key PROVE Still
  BY <1>1 DEF TypeOK, ProcsOK
<1>2. ASSUME Forgotten(p) PROVE Still
  BY <1>2 DEF Forgotten, Goto, TypeOK, ProcsOK
<1>3. CASE FindReadFails(p) \/ RepairFails(p) \/ LockStagedFails(p) \/ FetchFails(p)
           \/ WipeFails(p) \/ FinishRun(p) \/ Crash(p)
  BY <1>2, <1>3 DEF FindReadFails, RepairFails, LockStagedFails, FetchFails,
     WipeFails, FinishRun, Crash, Fails, Ends
<1>4. CASE Resolve(p)
  BY <1>4 DEF Resolve, Goto, TypeOK, ProcsOK
<1>5. CASE FindExists(p) \/ FindRead(p)
  BY <1>1, <1>5, LookFacts
<1>6. CASE MoveOut(p)
  BY <1>1, <1>6, MoveFacts DEF Unmoved, Moved, Moves
<1>7. CASE StartGc(p) \/ Touch(p) \/ LockEntry(p) \/ Repair(p) \/ CreateLockFile(p)
           \/ FetchDone(p) \/ WipeTarget(p) \/ Publish(p) \/ Unstage(p) \/ Hold(p)
  BY <1>1, <1>7 DEF StartGc, Touch, LockEntry, Repair, CreateLockFile, FetchDone,
     WipeTarget, Publish, Unstage, Hold, Goto
<1>8. CASE Survey(p) \/ DeleteDoomed(p) \/ SkipStaged(p) \/ RemoveStagedDir(p)
           \/ RemoveStagingLock(p)
  BY <1>1, <1>8 DEF Survey, DeleteDoomed, SkipStaged, RemoveStagedDir,
     RemoveStagingLock, Goto, procVars
<1>9. CASE ClearTarget(p)
  BY <1>1, <1>9 DEF ClearTarget, Goto
<1>10. CASE LockStaged(p)
  <2>1. key' = key /\ \E l : pc' = [pc EXCEPT ![p] = l]
    BY <1>10 DEF LockStaged, Goto
  <2> QED BY <1>1, <2>1
<1>11. CASE RemoveGarbageEntry(p) \/ RemoveLive(p)
  <2>1. \A k, garbage : TakeInUse(p, k, garbage) => pc' = [pc EXCEPT ![p] = "move"] \/ pc' = pc
    BY DEF TakeInUse, Goto
  <2> QED BY <1>1, <1>11, <2>1 DEF RemoveGarbageEntry, RemoveLive
<1>12. CASE RemoveStaged(p)
  <2>1. \A n, what : TakeStagingLock(p, n, what) => \E l : pc' = [pc EXCEPT ![p] = l]
    BY DEF TakeStagingLock, Goto
  <2> QED BY <1>1, <1>12, <2>1 DEF RemoveStaged
<1>13. CASE SweepRound(p)
  BY <1>1, <1>2, <1>13 DEF SweepRound, Ends, Goto
<1> QED
  BY <1>3, <1>4, <1>5, <1>6, <1>7, <1>8, <1>9, <1>10, <1>11, <1>12, <1>13 DEF Acts,
     Step, ResolveStep, SweepStep

\* Only a publish and a sweep's move change what is stored.
LEMMA StoredKept ==
    ASSUME IInv, deletes = 0, NEW p \in Procs, Acts(p), ~ Publish(p), ~ MoveOut(p)
    PROVE  Stored' = Stored
<1>1. ASSUME entry' = entry PROVE Stored' = Stored
  BY <1>1 DEF Stored
<1>2. ASSUME \A k \in Keys : entry'[k] = "whole" <=> entry[k] = "whole"
      PROVE  Stored' = Stored
  BY <1>2 DEF Stored
<1>3. CASE Touch(p)
  <2>1. entry[key[p]] \in {"absent", "whole"}
    BY <1>3 DEF Touch, IInv, EntriesSound
  <2> QED BY <1>2, <1>3, <2>1 DEF Touch, IInv, TypeOK, FilesOK
<1>4. CASE Repair(p) \/ WipeTarget(p)
  <2>1. entry[key[p]] # "whole" /\ entry' = [entry EXCEPT ![key[p]] = "absent"]
    BY <1>4 DEF Repair, WipeTarget, IInv, MissingStays, Staging
  <2> QED BY <1>2, <2>1 DEF IInv, TypeOK, FilesOK
<1>5. CASE Crash(p)
  BY <1>2, <1>5, CrashFacts DEF IInv, TypeOK, FilesOK
<1>6. CASE FindExists(p) \/ FindRead(p)
  BY <1>1, <1>6, LookFacts DEF IInv
<1>7. CASE Resolve(p) \/ StartGc(p) \/ FindReadFails(p) \/ LockEntry(p) \/ RepairFails(p)
           \/ CreateLockFile(p) \/ LockStaged(p) \/ LockStagedFails(p) \/ FetchDone(p)
           \/ FetchFails(p) \/ ClearTarget(p) \/ WipeFails(p) \/ Unstage(p) \/ Hold(p)
           \/ FinishRun(p)
  BY <1>1, <1>7 DEF Resolve, StartGc, FindReadFails, LockEntry, RepairFails,
     CreateLockFile, LockStaged, LockStagedFails, FetchDone, FetchFails,
     ClearTarget, WipeFails, Unstage, Hold, FinishRun, Fails, fileVars
<1>8. CASE Survey(p) \/ RemoveGarbageEntry(p) \/ RemoveLive(p) \/ DeleteDoomed(p)
           \/ RemoveStaged(p) \/ SkipStaged(p) \/ RemoveStagedDir(p) \/ RemoveStagingLock(p)
           \/ SweepRound(p)
  BY <1>1, <1>8 DEF Survey, RemoveGarbageEntry, RemoveLive, DeleteDoomed,
     RemoveStaged, SkipStaged, RemoveStagedDir, RemoveStagingLock, SweepRound,
     fileVars
<1> QED
  BY <1>3, <1>4, <1>5, <1>6, <1>7, <1>8 DEF Acts, Step, ResolveStep, SweepStep

\* The users of the entries stay, or the process becomes or ceases to be one.
LEMMA UsersMove ==
    ASSUME TypeOK, Scopes, NEW p \in Procs, Acts(p)
    PROVE  /\ InUse(p)' = InUse(p) => UsersOf' = UsersOf
           /\ ~ InUse(p) /\ InUse(p)' =>
                UsersOf' = [UsersOf EXCEPT ![key'[p]] = @ \cup {p}]
           /\ InUse(p) /\ ~ InUse(p)' =>
                UsersOf' = [UsersOf EXCEPT ![key[p]] = @ \ {p}]
<1>1. \A q \in Procs \ {p} : (InUse(q)' <=> InUse(q)) /\ key'[q] = key[q]
  BY OneMoves DEF InUse
<1>2. InUse(p) /\ InUse(p)' => key'[p] = key[p]
  BY OneMoves DEF InUse, Sweeping
<1> QED BY <1>1, <1>2, Zenon DEF UsersOf

\* The cache's actions, over what the store looks like.
LEMMA CacheActions ==
    ASSUME NEW p \in Procs, NEW k \in Keys
    PROVE  /\ k \notin Stored /\ Stored' = Stored \cup {k} /\ UsersOf' = UsersOf
              => Cache!Next
           /\ k \in Stored /\ UsersOf[k] = {} /\ Stored' = Stored \ {k} /\ UsersOf' = UsersOf
              => Cache!Next
           /\ /\ k \in Stored /\ Stored' = Stored
              /\ \A j \in Keys : p \notin UsersOf[j]
              /\ UsersOf' = [UsersOf EXCEPT ![k] = @ \cup {p}]
              => Cache!Next
           /\ /\ p \in UsersOf[k] /\ Stored' = Stored
              /\ UsersOf' = [UsersOf EXCEPT ![k] = @ \ {p}]
              => Cache!Next
  BY DEF Cache!Next, Cache!Publish, Cache!Evict, Cache!Use, Cache!Release, Stored,
     UsersOf

\* Every step is one of the cache's, or none, as long as nothing is deleted by
\* hand: Publish is its Publish, a lookup under the in-use lock its Use, the end
\* or death of a run its Release, and a sweep's move its Evict.
LEMMA CacheStep ==
    ASSUME IInv, IInv', deletes = 0, deletes' = 0, [Next]_vars
    PROVE  Cache!Next \/ (Stored' = Stored /\ UsersOf' = UsersOf)
<1>1. ASSUME NEW p \in Procs, Publish(p)
      PROVE  Cache!Next
  <2>1. /\ key[p] \in Keys /\ entry[key[p]] # "whole" /\ dir[name[p]] = "open"
        /\ pc[p] = "publish"
    BY <1>1 DEF Publish, IInv, Scopes, MissingStays, StagingKept, Fetching, Staging,
       Sweeping
  <2>2. Stored' = Stored \cup {key[p]} /\ key[p] \notin Stored
    BY <1>1, <2>1 DEF Publish, Stored, IInv, TypeOK, FilesOK
  <2>3. pc'[p] = "unstage"
    BY <1>1 DEF Publish, Goto, IInv, TypeOK, ProcsOK
  <2>4. InUse(p)' = InUse(p)
    BY <2>1, <2>3 DEF InUse, Sweeping
  <2>5. UsersOf' = UsersOf
    BY <1>1, <2>4, UsersMove DEF IInv, Acts, Step, ResolveStep
  <2> QED BY <2>1, <2>2, <2>5, CacheActions
<1>2. ASSUME NEW p \in Procs, MoveOut(p)
      PROVE  Cache!Next \/ (Stored' = Stored /\ UsersOf' = UsersOf)
  <2>1. pc[p] = "move" /\ key'[p] = key[p] /\ pc'[p] \in {"apply", "delete"}
    BY <1>2, MoveFacts DEF Unmoved, Moved, Moves, IInv, TypeOK, ProcsOK
  <2>2. InUse(p)' = InUse(p)
    BY <2>1 DEF InUse, Sweeping
  <2>3. UsersOf' = UsersOf
    BY <1>2, <2>2, UsersMove DEF IInv, Acts, Step, SweepStep
  <2>4. CASE Unmoved(p)
    BY <2>3, <2>4 DEF Unmoved, Stored
  <2>5. ASSUME NEW n \in Names, Moved(p, n)
        PROVE  Cache!Next \/ (Stored' = Stored /\ UsersOf' = UsersOf)
    <3> DEFINE k == victim[p]
    <3>1. k \in Keys /\ excl[k] = p
      BY <2>1 DEF IInv, Scopes, MoveLocked
    <3>2. Stored' = Stored \ {k}
      BY <2>5, <3>1 DEF Moved, Stored, IInv, TypeOK, FilesOK
    <3>3. shared[k] = {}
      BY <3>1 DEF IInv, MoveLocked
    <3>4. UsersOf[k] = {}
      BY <3>1, <3>3 DEF UsersOf, IInv, UseLocked
    <3> HIDE DEF k
    <3> QED BY <2>3, <3>1, <3>2, <3>4, CacheActions
  <2> QED BY <1>2, <2>4, <2>5, MoveFacts
<1>3. ASSUME NEW p \in Procs, Acts(p), ~ Publish(p), ~ MoveOut(p)
      PROVE  Cache!Next \/ (Stored' = Stored /\ UsersOf' = UsersOf)
  <2>1. Stored' = Stored
    BY <1>3, StoredKept
  <2>2. CASE InUse(p)' = InUse(p)
    BY <1>3, <2>1, <2>2, UsersMove DEF IInv
  <2>3. CASE ~ InUse(p) /\ InUse(p)'
    <3>1. PICK k \in Keys : k = key'[p]
      BY <2>3 DEF InUse, IInv, TypeOK, ProcsOK
    <3>2. k \in Stored
      BY <2>1, <2>3, <3>1 DEF IInv, HeldEntryWhole, Stored
    <3>3. \A j \in Keys : p \notin UsersOf[j]
      BY <2>3 DEF UsersOf
    <3>4. UsersOf' = [UsersOf EXCEPT ![k] = @ \cup {p}]
      BY <1>3, <2>3, <3>1, UsersMove DEF IInv
    <3> QED BY <2>1, <3>2, <3>3, <3>4, CacheActions
  <2>4. CASE InUse(p) /\ ~ InUse(p)'
    <3>1. PICK k \in Keys : k = key[p]
      BY <2>4 DEF InUse, IInv, TypeOK, ProcsOK
    <3>2. p \in UsersOf[k]
      BY <2>4, <3>1 DEF UsersOf
    <3>3. UsersOf' = [UsersOf EXCEPT ![k] = @ \ {p}]
      BY <1>3, <2>4, <3>1, UsersMove DEF IInv
    <3> QED BY <2>1, <3>2, <3>3, CacheActions
  <2>5. InUse(p) \in BOOLEAN /\ InUse(p)' \in BOOLEAN
    BY DEF InUse
  <2> QED BY <2>2, <2>3, <2>4, <2>5
<1>4. ASSUME NEW k \in Keys, Delete(k) PROVE FALSE
  BY <1>4 DEF Delete
<1>5. CASE UNCHANGED vars
  BY <1>5 DEF vars, fileVars, procVars, Stored, UsersOf, InUse
<1> QED BY <1>1, <1>2, <1>3, <1>4, <1>5 DEF Next, Acts

\* A store that nobody deletes from by hand keeps every entry that is in use, and
\* has only complete ones (docs/storage-quota.md).
THEOREM ImplementsHeldCache ==
    ASSUME MaxDeletes = 0
    PROVE  Spec => CacheSpec
<1>1. Init => Cache!Init
  BY DEF Init, Cache!Init, InUse, Sweeping
<1>2. IInv => deletes = 0
  BY DEF IInv, TypeOK, BoundsOK
<1>3. IInv' => deletes' = 0
  BY DEF IInv, TypeOK, BoundsOK
<1>4. IInv /\ IInv' /\ [Next]_vars => [Cache!Next]_<<Stored, UsersOf>>
  BY <1>2, <1>3, CacheStep
<1> QED BY <1>1, <1>4, Invariance, PTL DEF Spec, CacheSpec, Cache!Spec, Stored, UsersOf

=============================================================================
