-------------------------- MODULE ResultSyncProofs --------------------------
(***************************************************************************)
(* Theorems about ResultSync, for any number of results and of `sync`      *)
(* commands, and every bound on faults, runs and lock files.               *)
(***************************************************************************)
EXTENDS ResultSync, FiniteSetTheorems, TLAPS

\* Two processes between the read of a result and its move are one: both have
\* the file at the result's lock path open, and locked.
LEMMA OneSubmitter ==
    ASSUME TypeOK, Scopes, Exclusive, NEW p \in Procs, NEW q \in Procs,
           pc[p] \in Posting, pc[q] \in Posting, work[p] = work[q]
    PROVE  p = q
<1>1. p \in holds /\ q \in holds
  BY DEF Scopes, Posting, Holding
<1>2. handle[p] = handle[q]
  BY DEF Exclusive, Posting, Working
<1> QED
  BY <1>1, <1>2 DEF Exclusive

\* Every step keeps the types; the number of cuts stays below its bound because
\* every cut is a fault.
LEMMA TypeStep ==
    ASSUME TypeOK, Scopes, Accounted, [Next]_vars
    PROVE  TypeOK'
<1>1. ASSUME NEW r \in Results, SaveBegins(r) PROVE TypeOK'
  BY <1>1, ProcsAssumption, BoundsAssumption DEF SaveBegins, diskVars, procVars,
     TypeOK, DiskOK, ProcsOK, CountsOK
<1>2. ASSUME NEW r \in Results, SavePayload(r) PROVE TypeOK'
  BY <1>2, ProcsAssumption, BoundsAssumption DEF SavePayload, diskVars, procVars,
     TypeOK, DiskOK, ProcsOK, CountsOK
<1>3. ASSUME NEW r \in Results, SaveExtras(r) PROVE TypeOK'
  <2>1. r \in Procs
    BY DEF Procs
  <2>2. DiskOK' /\ CountsOK'
    BY <1>3 DEF SaveExtras, TypeOK, DiskOK, CountsOK
  <2>3. ProcsOK'
    BY <1>3, <2>1 DEF SaveExtras, TypeOK, ProcsOK
  <2> QED
    BY <2>2, <2>3 DEF TypeOK
<1>4. ASSUME NEW p \in Procs, NEW r \in Results, Open(p, r) PROVE TypeOK'
  <2>1. path' \in [Results -> 0 .. MaxInodes] /\ inodes' \in [Results -> 0 .. MaxInodes]
        /\ handle' \in [Procs -> 0 .. MaxInodes]
    <3>1. CASE path[r] = 0
      <4>1. inodes[r] + 1 \in 0 .. MaxInodes
        BY <1>4, <3>1, BoundsAssumption DEF Open, TypeOK, DiskOK
      <4> QED
        BY <1>4, <3>1, <4>1 DEF Open, TypeOK, DiskOK, ProcsOK
    <3>2. CASE path[r] # 0
      BY <1>4, <3>2 DEF Open, TypeOK, DiskOK, ProcsOK
    <3> QED
      BY <3>1, <3>2
  <2>2. DiskOK'
    BY <1>4, <2>1 DEF Open, TypeOK, DiskOK
  <2>3. ProcsOK'
    BY <1>4, <2>1 DEF Open, TypeOK, ProcsOK
  <2>4. CountsOK'
    BY <1>4 DEF Open, TypeOK, CountsOK
  <2> QED
    BY <2>2, <2>3, <2>4 DEF TypeOK
<1>5. ASSUME NEW p \in Procs, TryLock(p) PROVE TypeOK'
  BY <1>5, ProcsAssumption, BoundsAssumption DEF TryLock, Locked, diskVars,
     procVars, TypeOK, DiskOK, ProcsOK, CountsOK
<1>6. ASSUME NEW p \in Procs, Skip(p) PROVE TypeOK'
  BY <1>6, ProcsAssumption, BoundsAssumption DEF Skip, LetGo, Locked, diskVars,
     procVars, TypeOK, DiskOK, ProcsOK, CountsOK
<1>7. ASSUME NEW p \in Procs, Moved(p) PROVE TypeOK'
  <2>1. 0 \in 0 .. MaxInodes
    BY BoundsAssumption
  <2>2. DiskOK'
    BY <1>7, <2>1 DEF Moved, TypeOK, DiskOK
  <2>3. ProcsOK'
    BY <1>7, <2>1 DEF Moved, LetGo, TypeOK, ProcsOK
  <2>4. CountsOK'
    BY <1>7 DEF Moved, TypeOK, CountsOK
  <2> QED
    BY <2>2, <2>3, <2>4 DEF TypeOK
<1>8. ASSUME NEW p \in Procs, Resume(p) PROVE TypeOK'
  BY <1>8, ProcsAssumption, BoundsAssumption DEF Resume, diskVars, procVars, TypeOK,
     DiskOK, ProcsOK, CountsOK
<1>9. ASSUME NEW p \in Procs, Load(p) PROVE TypeOK'
  <2>1. 0 \in 0 .. MaxInodes
    BY BoundsAssumption
  <2>2. DiskOK'
    BY <1>9 DEF Load, diskVars, TypeOK, DiskOK
  <2>3. CountsOK'
    BY <1>9 DEF Load, TypeOK, CountsOK
  <2>4. ProcsOK'
    <3>1. CASE payload[work[p]] = "whole"
      BY <1>9, <3>1 DEF Load, TypeOK, ProcsOK
    <3>2. CASE payload[work[p]] # "whole"
      BY <1>9, <2>1 DEF Load, LetGo, TypeOK, ProcsOK
    <3> QED
      BY <3>1, <3>2
  <2> QED
    BY <2>2, <2>3, <2>4 DEF TypeOK
<1>10. ASSUME NEW p \in Procs, Post(p) PROVE TypeOK'
  BY <1>10, ProcsAssumption, BoundsAssumption DEF Post, File, diskVars, procVars,
     TypeOK, DiskOK, ProcsOK, CountsOK
<1>11. ASSUME NEW p \in Procs, PostFails(p) PROVE TypeOK'
  <2>1. work[p] \in Results
    BY <1>11 DEF PostFails, Scopes, Working
  <2>2. 0 \in 0 .. MaxInodes /\ work[p] \in Results
    BY <2>1, BoundsAssumption
  <2>3. cuts[work[p]] + 1 \in 0 .. MaxFaults /\ faults' \in 0 .. MaxFaults
    BY <1>11, <2>2, BoundsAssumption DEF PostFails, Fault, Accounted, TypeOK,
       CountsOK
  <2>4. DiskOK'
    BY <1>11 DEF PostFails, diskVars, TypeOK, DiskOK
  <2>5. ProcsOK'
    BY <1>11, <2>2 DEF PostFails, LetGo, TypeOK, ProcsOK
  <2>6. CountsOK'
    BY <1>11, <2>2, <2>3 DEF PostFails, File, TypeOK, CountsOK
  <2> QED
    BY <2>4, <2>5, <2>6 DEF TypeOK
<1>12. ASSUME NEW p \in Procs, Mark(p) PROVE TypeOK'
  BY <1>12, ProcsAssumption, BoundsAssumption DEF Mark, diskVars, procVars, TypeOK,
     DiskOK, ProcsOK, CountsOK
<1>13. ASSUME NEW p \in Procs, MarkFails(p) PROVE TypeOK'
  <2>1. work[p] \in Results
    BY <1>13 DEF MarkFails, Scopes, Working
  <2>2. 0 \in 0 .. MaxInodes /\ work[p] \in Results
    BY <2>1, BoundsAssumption
  <2>3. cuts[work[p]] + 1 \in 0 .. MaxFaults /\ faults' \in 0 .. MaxFaults
    BY <1>13, <2>2, BoundsAssumption DEF MarkFails, Fault, Accounted, TypeOK,
       CountsOK
  <2>4. DiskOK'
    BY <1>13 DEF MarkFails, diskVars, TypeOK, DiskOK
  <2>5. ProcsOK'
    BY <1>13, <2>2 DEF MarkFails, LetGo, TypeOK, ProcsOK
  <2>6. CountsOK'
    BY <1>13, <2>3 DEF MarkFails, TypeOK, CountsOK
  <2> QED
    BY <2>4, <2>5, <2>6 DEF TypeOK
<1>14. ASSUME NEW p \in Procs, Move(p) PROVE TypeOK'
  <2>1. work[p] \in Results /\ job[p] \in Jobs
    BY <1>14 DEF Move, Scopes, Working
  <2>2. DiskOK'
    <3>1. CASE work[p] \in dir
      BY SMTT(20), <1>14, <2>1 DEF Move, TypeOK, DiskOK
    <3>2. CASE work[p] \notin dir
      BY <1>14, <3>2 DEF Move, TypeOK, DiskOK
    <3> QED
      BY <3>1, <3>2
  <2>3. ProcsOK'
    BY <1>14 DEF Move, TypeOK, ProcsOK
  <2>4. CountsOK'
    BY <1>14 DEF Move, TypeOK, CountsOK
  <2> QED
    BY <2>2, <2>3, <2>4 DEF TypeOK
<1>15. ASSUME NEW p \in Procs, MoveFails(p) PROVE TypeOK'
  BY <1>15, ProcsAssumption, BoundsAssumption DEF MoveFails, Fault, LetGo, diskVars,
     procVars, TypeOK, DiskOK, ProcsOK, CountsOK
<1>16. ASSUME NEW p \in Procs, Unlink(p) PROVE TypeOK'
  <2>1. 0 \in 0 .. MaxInodes
    BY BoundsAssumption
  <2>2. DiskOK'
    BY <1>16, <2>1 DEF Unlink, TypeOK, DiskOK
  <2>3. ProcsOK'
    BY <1>16, <2>1 DEF Unlink, LetGo, TypeOK, ProcsOK
  <2>4. CountsOK'
    BY <1>16 DEF Unlink, TypeOK, CountsOK
  <2> QED
    BY <2>2, <2>3, <2>4 DEF TypeOK
<1>17. ASSUME NEW p \in Procs, Drained(p) PROVE TypeOK'
  <2>1. DiskOK' /\ CountsOK'
    BY <1>17 DEF Drained, diskVars, TypeOK, DiskOK, CountsOK
  <2>2. NeedsRefresh \in SUBSET (Results \X Jobs)
    BY DEF NeedsRefresh, TypeOK, DiskOK
  <2>3. refresh' \in [Procs -> SUBSET (Results \X Jobs)]
    BY <1>17, <2>2 DEF Drained, TypeOK, ProcsOK
  <2>4. \E s \in {"done", "score"} : pc' = [pc EXCEPT ![p] = s]
    BY <1>17 DEF Drained
  <2>5. ProcsOK'
    BY <1>17, <2>3, <2>4 DEF Drained, TypeOK, ProcsOK
  <2> QED
    BY <2>1, <2>5 DEF TypeOK
<1>18. ASSUME NEW p \in Procs, Kill(p) PROVE TypeOK'
  <2>1. 0 \in 0 .. MaxInodes /\ faults' \in 0 .. MaxFaults
    BY <1>18, BoundsAssumption DEF Kill, Fault, TypeOK, CountsOK
  <2>2. cuts' \in [Results -> 0 .. MaxFaults]
    <3>1. CASE pc[p] = "mark"
      <4>1. work[p] \in Results
        BY <3>1 DEF Scopes, Working
      <4>2. cuts[work[p]] + 1 \in 0 .. MaxFaults
        BY <1>18, <4>1, BoundsAssumption DEF Kill, Fault, Accounted, TypeOK,
           CountsOK
      <4> QED
        BY <1>18, <3>1, <4>2 DEF Kill, TypeOK, CountsOK
    <3>2. CASE pc[p] # "mark"
      BY <1>18, <3>2 DEF Kill, TypeOK, CountsOK
    <3> QED
      BY <3>1, <3>2
  <2>3. DiskOK'
    BY <1>18 DEF Kill, diskVars, TypeOK, DiskOK
  <2>4. ProcsOK'
    BY <1>18, <2>1 DEF Kill, TypeOK, ProcsOK
  <2>5. CountsOK'
    BY <1>18, <2>1, <2>2 DEF Kill, TypeOK, CountsOK
  <2> QED
    BY <2>3, <2>4, <2>5 DEF TypeOK
<1>19. ASSUME NEW p \in Syncers, SyncStart(p) PROVE TypeOK'
  BY <1>19, ProcsAssumption, BoundsAssumption DEF SyncStart, diskVars, procVars,
     TypeOK, DiskOK, ProcsOK, CountsOK, Procs
<1>20. ASSUME NEW p \in Syncers, ScoreBegins(p) PROVE TypeOK'
  <2>1. PICK j \in refresh[p] :
            /\ refresh' = [refresh EXCEPT ![p] = @ \ {j}]
            /\ metrics' = [metrics EXCEPT ![j] = "torn"]
            /\ work' = [work EXCEPT ![p] = j[1]]
            /\ job' = [job EXCEPT ![p] = j[2]]
    BY <1>20 DEF ScoreBegins
  <2>2. p \in Procs /\ j[1] \in Results /\ j[2] \in Jobs
    BY <2>1 DEF Procs, TypeOK, ProcsOK
  <2>3. DiskOK' /\ CountsOK'
    BY <1>20, <2>1 DEF ScoreBegins, TypeOK, DiskOK, CountsOK
  <2>4. refresh' \in [Procs -> SUBSET (Results \X Jobs)]
    BY <2>1, <2>2 DEF TypeOK, ProcsOK
  <2>5. ProcsOK'
    BY <1>20, <2>1, <2>2, <2>4 DEF ScoreBegins, TypeOK, ProcsOK
  <2> QED
    BY <2>3, <2>5 DEF TypeOK
<1>21. ASSUME NEW p \in Syncers, ScoreEnds(p) PROVE TypeOK'
  BY <1>21, ProcsAssumption, BoundsAssumption DEF ScoreEnds, diskVars, procVars,
     TypeOK, DiskOK, ProcsOK, CountsOK
<1>22. ASSUME NEW p \in Syncers, SyncEnds(p) PROVE TypeOK'
  BY <1>22, ProcsAssumption, BoundsAssumption DEF SyncEnds, diskVars, procVars,
     TypeOK, DiskOK, ProcsOK, CountsOK
<1>23. ASSUME NEW j \in Results \X Jobs, ServerScores(j) PROVE TypeOK'
  BY <1>23, ProcsAssumption, BoundsAssumption DEF ServerScores, diskVars, procVars,
     TypeOK, DiskOK, ProcsOK, CountsOK
<1>24. CASE UNCHANGED vars
  BY <1>24, ProcsAssumption, BoundsAssumption DEF vars, diskVars, procVars,
     diskVars, procVars, TypeOK, DiskOK, ProcsOK, CountsOK
<1> QED
  BY <1>1, <1>2, <1>3, <1>4, <1>5, <1>6, <1>7, <1>8, <1>9, <1>10, <1>11, <1>12,
     <1>13, <1>14, <1>15, <1>16, <1>17, <1>18, <1>19, <1>20, <1>21, <1>22, <1>23,
     <1>24 DEF Next, Save, Submit, Sync

\* A process keeps what its step needs: the lock from the check to the unlink,
\* a job the server opened from the POST to the move, a score the server gave.
LEMMA ScopesStep ==
    ASSUME TypeOK, Scopes, SyncedIsFiled, [Next]_vars
    PROVE  Scopes'
<1>1. ASSUME NEW r \in Results, SaveBegins(r) PROVE Scopes'
  BY <1>1, ProcsAssumption, BoundsAssumption DEF SaveBegins, diskVars, procVars,
     TypeOK, DiskOK, ProcsOK, CountsOK, Scopes, Working, Holding
<1>2. ASSUME NEW r \in Results, SavePayload(r) PROVE Scopes'
  BY <1>2, ProcsAssumption, BoundsAssumption DEF SavePayload, diskVars, procVars,
     TypeOK, DiskOK, ProcsOK, CountsOK, Scopes, Working, Holding
<1>3. ASSUME NEW r \in Results, SaveExtras(r) PROVE Scopes'
  BY <1>3, ProcsAssumption, BoundsAssumption DEF SaveExtras, diskVars, procVars,
     TypeOK, DiskOK, ProcsOK, CountsOK, Scopes, Working, Holding
<1>4. ASSUME NEW p \in Procs, NEW r \in Results, Open(p, r) PROVE Scopes'
  BY <1>4, ProcsAssumption, BoundsAssumption DEF Open, diskVars, procVars, TypeOK,
     DiskOK, ProcsOK, CountsOK, Scopes, Holding
<1>5. ASSUME NEW p \in Procs, TryLock(p) PROVE Scopes'
  BY <1>5, ProcsAssumption, BoundsAssumption DEF TryLock, Locked, diskVars,
     procVars, TypeOK, DiskOK, ProcsOK, CountsOK, Scopes, Working, Holding
<1>6. ASSUME NEW p \in Procs, Skip(p) PROVE Scopes'
  BY <1>6, ProcsAssumption, BoundsAssumption DEF Skip, LetGo, Locked, diskVars,
     procVars, TypeOK, DiskOK, ProcsOK, CountsOK, Scopes, Working, Holding
<1>7. ASSUME NEW p \in Procs, Moved(p) PROVE Scopes'
  BY <1>7, ProcsAssumption, BoundsAssumption DEF Moved, LetGo, diskVars, procVars,
     TypeOK, DiskOK, ProcsOK, CountsOK, Scopes, Working, Holding
<1>8. ASSUME NEW p \in Procs, Resume(p) PROVE Scopes'
  BY ZenonT(40), <1>8, ProcsAssumption, BoundsAssumption DEF Resume, diskVars, procVars, TypeOK,
     DiskOK, ProcsOK, CountsOK, Scopes, Procs, Jobs, Holding, Posting, SyncedIsFiled
<1>9. ASSUME NEW p \in Procs, Load(p) PROVE Scopes'
  <2>1. CASE payload[work[p]] = "whole"
    BY <1>9, <2>1 DEF Load, diskVars, TypeOK, ProcsOK, Scopes, Working, Holding
  <2>2. CASE payload[work[p]] # "whole"
    BY ZenonT(40), <1>9, <2>2 DEF Load, LetGo, diskVars, TypeOK, ProcsOK, Scopes, Working,
       Holding
  <2> QED
    BY <2>1, <2>2
<1>10. ASSUME NEW p \in Procs, Post(p) PROVE Scopes'
  <2>1. work[p] \in Results /\ filed[work[p]] + 1 \in Jobs
    BY <1>10 DEF Post, File, Scopes, Working
  <2>2. \A x \in Results : filed[x] \in Nat /\ filed'[x] \in Nat /\ filed[x] <= filed'[x]
    BY <1>10, <2>1, BoundsAssumption DEF Post, File, TypeOK, CountsOK, Jobs
  <2>3. filed'[work[p]] = filed[work[p]] + 1
    BY <1>10, <2>1 DEF Post, File, TypeOK, CountsOK
  <2>4. \A q \in Procs : pc'[q] \in {"mark", "move"} =>
            job'[q] \in Jobs /\ job'[q] <= filed'[work'[q]]
    <3> SUFFICES ASSUME NEW q \in Procs, pc'[q] \in {"mark", "move"}
                 PROVE  job'[q] \in Jobs /\ job'[q] <= filed'[work'[q]]
      OBVIOUS
    <3>1. CASE q = p
      BY <1>10, <3>1, <2>1, <2>2, <2>3 DEF Post, TypeOK, ProcsOK
    <3>2. CASE q # p
      <4>1. /\ pc[q] \in {"mark", "move"}
            /\ job'[q] = job[q] /\ work'[q] = work[q]
        BY <1>10, <3>2 DEF Post
      <4>2. job[q] \in Jobs /\ job[q] <= filed[work[q]] /\ work[q] \in Results
        BY <4>1 DEF Scopes, Working
      <4> QED
        BY <4>1, <4>2, <2>2 DEF Jobs
    <3> QED
      BY <3>1, <3>2
  <2>5. \A q \in Procs :
            /\ q \in holds' <=> pc'[q] \in Holding
            /\ pc'[q] \in Working => work'[q] \in Results
            /\ refresh'[q] \subseteq synced'
            /\ pc'[q] = "metrics" => <<work'[q], job'[q]>> \in synced' \cap scored'
    BY <1>10, <2>1 DEF Post, diskVars, TypeOK, ProcsOK, Scopes, Holding
  <2> QED
    BY <2>4, <2>5 DEF Scopes

<1>11. ASSUME NEW p \in Procs, PostFails(p) PROVE Scopes'
  <2>1. work[p] \in Results
    BY <1>11 DEF PostFails, Scopes, Working
  <2>2. \A x \in Results : filed[x] \in Nat /\ filed'[x] \in Nat /\ filed[x] <= filed'[x]
    BY <1>11, <2>1, BoundsAssumption DEF PostFails, File, TypeOK, CountsOK, Jobs
  <2>3. \A q \in Procs : pc'[q] \in {"mark", "move"} =>
            job'[q] \in Jobs /\ job'[q] <= filed'[work'[q]]
    <3> SUFFICES ASSUME NEW q \in Procs, pc'[q] \in {"mark", "move"}
                 PROVE  job'[q] \in Jobs /\ job'[q] <= filed'[work'[q]]
      OBVIOUS
    <3>1. /\ pc[q] \in {"mark", "move"}
          /\ job'[q] = job[q] /\ work'[q] = work[q]
      BY <1>11 DEF PostFails, LetGo
    <3>2. job[q] \in Jobs /\ job[q] <= filed[work[q]] /\ work[q] \in Results
      BY <3>1 DEF Scopes, Working
    <3> QED
      BY <3>1, <3>2, <2>2 DEF Jobs
  <2>4. \A q \in Procs :
            /\ q \in holds' <=> pc'[q] \in Holding
            /\ pc'[q] \in Working => work'[q] \in Results
            /\ refresh'[q] \subseteq synced'
            /\ pc'[q] = "metrics" => <<work'[q], job'[q]>> \in synced' \cap scored'
    BY <1>11 DEF PostFails, LetGo, diskVars, TypeOK, ProcsOK, Scopes, Working,
       Holding
  <2> QED
    BY <2>3, <2>4 DEF Scopes

<1>12. ASSUME NEW p \in Procs, Mark(p) PROVE Scopes'
  BY <1>12, ProcsAssumption, BoundsAssumption DEF Mark, diskVars, procVars, TypeOK,
     DiskOK, ProcsOK, CountsOK, Scopes, Working, Holding
<1>13. ASSUME NEW p \in Procs, MarkFails(p) PROVE Scopes'
  BY <1>13, ProcsAssumption, BoundsAssumption DEF MarkFails, Fault, LetGo, diskVars,
     procVars, TypeOK, DiskOK, ProcsOK, CountsOK, Scopes, Working, Holding
<1>14. ASSUME NEW p \in Procs, Move(p) PROVE Scopes'
  BY <1>14, ProcsAssumption, BoundsAssumption DEF Move, diskVars, procVars, TypeOK,
     DiskOK, ProcsOK, CountsOK, Scopes, Working, Holding
<1>15. ASSUME NEW p \in Procs, MoveFails(p) PROVE Scopes'
  BY <1>15, ProcsAssumption, BoundsAssumption DEF MoveFails, Fault, LetGo, diskVars,
     procVars, TypeOK, DiskOK, ProcsOK, CountsOK, Scopes, Working, Holding
<1>16. ASSUME NEW p \in Procs, Unlink(p) PROVE Scopes'
  BY <1>16, ProcsAssumption, BoundsAssumption DEF Unlink, LetGo, diskVars, procVars,
     TypeOK, DiskOK, ProcsOK, CountsOK, Scopes, Working, Holding
<1>17. ASSUME NEW p \in Procs, Drained(p) PROVE Scopes'
  <2>1. \E s \in {"done", "score"} : pc' = [pc EXCEPT ![p] = s]
    BY <1>17 DEF Drained
  <2>2. \A q \in Procs : refresh'[q] \subseteq synced
    <3>1. \A q \in Procs : refresh[q] \subseteq synced
      BY DEF Scopes
    <3>2. CASE p \in Results
      BY <1>17, <3>1, <3>2 DEF Drained
    <3>3. CASE p \notin Results
      BY <1>17, <3>1, <3>3 DEF Drained, NeedsRefresh, TypeOK, ProcsOK
    <3> QED
      BY <3>2, <3>3
  <2> QED
    BY <1>17, <2>1, <2>2 DEF Drained, diskVars, TypeOK, ProcsOK, Scopes, Working,
       Holding
<1>18. ASSUME NEW p \in Procs, Kill(p) PROVE Scopes'
  BY <1>18, ProcsAssumption, BoundsAssumption DEF Kill, Fault, diskVars, procVars,
     TypeOK, DiskOK, ProcsOK, CountsOK, Scopes, Working, Holding
<1>19. ASSUME NEW p \in Syncers, SyncStart(p) PROVE Scopes'
  BY <1>19, ProcsAssumption, BoundsAssumption DEF SyncStart, diskVars, procVars,
     TypeOK, DiskOK, ProcsOK, CountsOK, Scopes, Working, Holding
<1>20. ASSUME NEW p \in Syncers, ScoreBegins(p) PROVE Scopes'
  <2>1. PICK j \in refresh[p] \cap scored :
            /\ refresh' = [refresh EXCEPT ![p] = @ \ {j}]
            /\ work' = [work EXCEPT ![p] = j[1]]
            /\ job' = [job EXCEPT ![p] = j[2]]
    BY <1>20 DEF ScoreBegins
  <2>2. p \in Procs /\ pc' = [pc EXCEPT ![p] = "metrics"]
    BY <1>20 DEF ScoreBegins, Procs
  <2>3. j \in synced /\ j = <<j[1], j[2]>>
    <3>1. refresh[p] \subseteq synced
      BY <2>2 DEF Scopes
    <3>2. j \in synced
      BY <2>1, <3>1
    <3> QED
      BY <3>2 DEF TypeOK, DiskOK
  <2>4. \A q \in Procs : refresh'[q] \subseteq synced
    BY <2>1, <2>2 DEF Scopes, TypeOK, ProcsOK
  <2> QED
    BY <1>20, <2>1, <2>2, <2>3, <2>4 DEF ScoreBegins, TypeOK, ProcsOK, Scopes,
       Working, Holding

<1>21. ASSUME NEW p \in Syncers, ScoreEnds(p) PROVE Scopes'
  BY <1>21, ProcsAssumption, BoundsAssumption DEF ScoreEnds, diskVars, procVars,
     TypeOK, DiskOK, ProcsOK, CountsOK, Scopes, Working, Holding
<1>22. ASSUME NEW p \in Syncers, SyncEnds(p) PROVE Scopes'
  BY <1>22, ProcsAssumption, BoundsAssumption DEF SyncEnds, diskVars, procVars,
     TypeOK, DiskOK, ProcsOK, CountsOK, Scopes, Working, Holding
<1>23. ASSUME NEW j \in Results \X Jobs, ServerScores(j) PROVE Scopes'
  BY <1>23, ProcsAssumption, BoundsAssumption DEF ServerScores, diskVars, procVars,
     TypeOK, DiskOK, ProcsOK, CountsOK, Scopes
<1>24. CASE UNCHANGED vars
  BY <1>24, ProcsAssumption, BoundsAssumption DEF vars, diskVars, procVars,
     diskVars, procVars, TypeOK, DiskOK, ProcsOK, CountsOK, Scopes
<1> QED
  BY <1>1, <1>2, <1>3, <1>4, <1>5, <1>6, <1>7, <1>8, <1>9, <1>10, <1>11, <1>12,
     <1>13, <1>14, <1>15, <1>16, <1>17, <1>18, <1>19, <1>20, <1>21, <1>22, <1>23,
     <1>24 DEF Next, Save, Submit, Sync

\* A result stays where it is until its one move.
LEMMA InPlaceStep ==
    ASSUME TypeOK, Scopes, InPlace, Exclusive, [Next]_vars
    PROVE  InPlace'
<1>1. ASSUME NEW r \in Results, SaveBegins(r) PROVE InPlace'
  <2>1. \A x \in Results : Copies(x)' = Copies(x)
    BY <1>1 DEF SaveBegins, Copies
  <2> QED
    BY SMTT(20), <1>1, <2>1, ProcsAssumption DEF SaveBegins, diskVars, procVars, TypeOK,
       DiskOK, ProcsOK, CountsOK, Scopes, InPlace, Procs, Working
<1>2. ASSUME NEW r \in Results, SavePayload(r) PROVE InPlace'
  <2>1. \A x \in Results : Copies(x)' = Copies(x)
    BY <1>2 DEF SavePayload, Copies
  <2>2. payload[r] = "torn" /\ r \in dir /\ Copies(r) = {}
    BY <1>2 DEF SavePayload, InPlace
  <2>3. /\ pc' = [pc EXCEPT ![r] = "extras"]
        /\ payload' = [payload EXCEPT ![r] = "whole"]
        /\ UNCHANGED <<dir, marker, path, todo, work>>
    BY <1>2 DEF SavePayload
  <2>4. r \in Procs
    BY DEF Procs
  <2>5. \A q \in Procs : pc'[q] \in Working => pc[q] \in Working
    BY <2>3 DEF Working
  <2>6. ASSUME NEW x \in Results, x # r
        PROVE  pc'[x] = pc[x] /\ payload'[x] = payload[x]
    BY <2>3, <2>4, <2>6
  <2>7. pc'[r] = "extras" /\ payload'[r] = "whole"
    BY <2>3, <2>4 DEF TypeOK, DiskOK, ProcsOK
  <2> QED
    BY <2>1, <2>2, <2>3, <2>5, <2>7 DEF InPlace
<1>3. ASSUME NEW r \in Results, SaveExtras(r) PROVE InPlace'
  <2>1. \A x \in Results : Copies(x)' = Copies(x)
    BY <1>3 DEF SaveExtras, Copies
  <2> QED
    BY <1>3, <2>1, ProcsAssumption DEF SaveExtras, diskVars, procVars, TypeOK,
       DiskOK, ProcsOK, CountsOK, Scopes, InPlace, Exclusive, Procs, Working,
       Holding, Posting
<1>4. ASSUME NEW p \in Procs, NEW r \in Results, Open(p, r) PROVE InPlace'
  <2>1. \A x \in Results : Copies(x)' = Copies(x)
    BY <1>4 DEF Open, Copies
  <2> QED
    BY <1>4, <2>1, ProcsAssumption DEF Open, diskVars, procVars, TypeOK, DiskOK,
       ProcsOK, CountsOK, Scopes, InPlace, Working, Holding, Posting
<1>5. ASSUME NEW p \in Procs, TryLock(p) PROVE InPlace'
  <2>1. \A x \in Results : Copies(x)' = Copies(x)
    BY <1>5 DEF TryLock, diskVars, Copies
  <2> QED
    BY <1>5, <2>1, ProcsAssumption DEF TryLock, Locked, diskVars, procVars, TypeOK,
       DiskOK, ProcsOK, CountsOK, Scopes, InPlace, Working
<1>6. ASSUME NEW p \in Procs, Skip(p) PROVE InPlace'
  <2>1. \A x \in Results : Copies(x)' = Copies(x)
    BY <1>6 DEF Skip, diskVars, Copies
  <2> QED
    BY <1>6, <2>1, ProcsAssumption DEF Skip, LetGo, Locked, diskVars, procVars,
       TypeOK, DiskOK, ProcsOK, CountsOK, Scopes, InPlace
<1>7. ASSUME NEW p \in Procs, Moved(p) PROVE InPlace'
  <2>1. \A x \in Results : Copies(x)' = Copies(x)
    BY <1>7 DEF Moved, Copies
  <2>2. \A x \in Results : path[x] = 0 => path'[x] = 0
    BY <1>7 DEF Moved
  <2>3. \A q \in Procs : /\ pc'[q] \in Working => pc[q] \in Working /\ work'[q] = work[q]
                         /\ pc'[q] = "new" => pc[q] = "new"
                         /\ pc'[q] = "payload" => pc[q] = "payload"
                         /\ pc[q] = "new" => pc'[q] = "new"
    BY <1>7 DEF Moved, LetGo, Working, TypeOK, ProcsOK
  <2>4. UNCHANGED <<dir, payload, marker, todo>>
    BY <1>7 DEF Moved
  <2>5. Results \subseteq Procs
    BY DEF Procs
  <2> QED
    BY <2>1, <2>2, <2>3, <2>4, <2>5 DEF InPlace
<1>8. ASSUME NEW p \in Procs, Resume(p) PROVE InPlace'
  <2>1. \A x \in Results : Copies(x)' = Copies(x)
    BY <1>8 DEF Resume, diskVars, Copies
  <2> QED
    BY <1>8, <2>1, ProcsAssumption DEF Resume, diskVars, procVars, TypeOK, DiskOK,
       ProcsOK, CountsOK, Scopes, InPlace
<1>9. ASSUME NEW p \in Procs, Load(p) PROVE InPlace'
  <2>1. \A x \in Results : Copies(x)' = Copies(x)
    BY <1>9 DEF Load, diskVars, Copies
  <2>2. \A q \in Procs : /\ pc'[q] \in Working => pc[q] \in Working /\ work'[q] = work[q]
                         /\ pc'[q] = "new" => pc[q] = "new"
                         /\ pc'[q] = "payload" => pc[q] = "payload"
                         /\ pc[q] = "new" => pc'[q] = "new"
    BY <1>9 DEF Load, LetGo, Working, TypeOK, ProcsOK
  <2>3. UNCHANGED <<dir, payload, marker, path, todo>>
    BY <1>9 DEF Load, diskVars
  <2>4. Results \subseteq Procs
    BY DEF Procs
  <2> QED
    BY <2>1, <2>2, <2>3, <2>4 DEF InPlace
<1>10. ASSUME NEW p \in Procs, Post(p) PROVE InPlace'
  <2>1. \A x \in Results : Copies(x)' = Copies(x)
    BY <1>10 DEF Post, diskVars, Copies
  <2> QED
    BY <1>10, <2>1, ProcsAssumption DEF Post, File, diskVars, procVars, TypeOK,
       DiskOK, ProcsOK, CountsOK, Scopes, InPlace, Working
<1>11. ASSUME NEW p \in Procs, PostFails(p) PROVE InPlace'
  <2>1. \A x \in Results : Copies(x)' = Copies(x)
    BY <1>11 DEF PostFails, File, diskVars, Copies
  <2> QED
    BY <1>11, <2>1, ProcsAssumption DEF PostFails, File, Fault, LetGo, diskVars,
       procVars, TypeOK, DiskOK, ProcsOK, CountsOK, Scopes, InPlace
<1>12. ASSUME NEW p \in Procs, Mark(p) PROVE InPlace'
  <2>1. \A x \in Results : Copies(x)' = Copies(x)
    BY <1>12 DEF Mark, Copies
  <2> QED
    BY <1>12, <2>1, ProcsAssumption DEF Mark, diskVars, procVars, TypeOK, DiskOK,
       ProcsOK, CountsOK, Scopes, InPlace, Exclusive, Procs, Working, Holding,
       Posting
<1>13. ASSUME NEW p \in Procs, MarkFails(p) PROVE InPlace'
  <2>1. \A x \in Results : Copies(x)' = Copies(x)
    BY <1>13 DEF MarkFails, diskVars, Copies
  <2> QED
    BY <1>13, <2>1, ProcsAssumption DEF MarkFails, Fault, LetGo, diskVars, procVars,
       TypeOK, DiskOK, ProcsOK, CountsOK, Scopes, InPlace, Exclusive
<1>14. ASSUME NEW p \in Procs, Move(p) PROVE InPlace'
  <2> DEFINE r == work[p]
  <2>1. /\ r \in Results /\ payload[r] = "whole" /\ r \in dir
        /\ Copies(r) = {} /\ job[p] \in Jobs
    BY <1>14 DEF Move, Scopes, Exclusive, InPlace, Working, Posting
  <2>2. /\ synced' = synced \cup {<<r, job[p]>>}
        /\ dir' = dir \ {r}
        /\ payload' = [payload EXCEPT ![r] = "none"]
        /\ marker' = [marker EXCEPT ![r] = 0]
        /\ pc' = [pc EXCEPT ![p] = "unlink"]
        /\ UNCHANGED <<path, todo, work>>
    BY <1>14, <2>1 DEF Move
  <2>3. Copies(r)' = {<<r, job[p]>>}
    BY <2>1, <2>2 DEF Copies
  <2>4. \A x \in Results : x # r => Copies(x)' = Copies(x)
    BY <2>2 DEF Copies
  <2>5. pc[r] # "new" /\ (p = r => pc[r] = "move")
    BY <1>14, <2>1 DEF Move, InPlace
  <2> HIDE DEF r
  <2> QED
    BY <1>14, <2>1, <2>2, <2>3, <2>4, <2>5 DEF Move, InPlace, TypeOK, DiskOK, Procs,
       r

<1>15. ASSUME NEW p \in Procs, MoveFails(p) PROVE InPlace'
  <2>1. \A x \in Results : Copies(x)' = Copies(x)
    BY <1>15 DEF MoveFails, diskVars, Copies
  <2> QED
    BY <1>15, <2>1, ProcsAssumption DEF MoveFails, Fault, LetGo, diskVars, procVars,
       TypeOK, DiskOK, ProcsOK, CountsOK, Scopes, InPlace
<1>16. ASSUME NEW p \in Procs, Unlink(p) PROVE InPlace'
  <2>1. \A x \in Results : Copies(x)' = Copies(x)
    BY <1>16 DEF Unlink, Copies
  <2>2. \A x \in Results : path[x] = 0 => path'[x] = 0
    BY <1>16 DEF Unlink
  <2>3. \A q \in Procs : /\ pc'[q] \in Working => pc[q] \in Working /\ work'[q] = work[q]
                         /\ pc'[q] = "new" => pc[q] = "new"
                         /\ pc'[q] = "payload" => pc[q] = "payload"
                         /\ pc[q] = "new" => pc'[q] = "new"
    BY <1>16 DEF Unlink, LetGo, Working, TypeOK, ProcsOK
  <2>4. UNCHANGED <<dir, payload, marker, todo>>
    BY <1>16 DEF Unlink
  <2>5. Results \subseteq Procs
    BY DEF Procs
  <2> QED
    BY <2>1, <2>2, <2>3, <2>4, <2>5 DEF InPlace
<1>17. ASSUME NEW p \in Procs, Drained(p) PROVE InPlace'
  <2>1. \A x \in Results : Copies(x)' = Copies(x)
    BY <1>17 DEF Drained, diskVars, Copies
  <2>2. \E s \in {"done", "score"} : pc' = [pc EXCEPT ![p] = s]
    BY <1>17 DEF Drained
  <2>3. \A q \in Procs : /\ pc'[q] \in Working => pc[q] \in Working
                         /\ pc'[q] = "new" => pc[q] = "new"
                         /\ pc'[q] = "payload" => pc[q] = "payload"
                         /\ pc[q] = "new" => pc'[q] = "new"
    BY <1>17, <2>2 DEF Drained, Working, TypeOK, ProcsOK
  <2>4. UNCHANGED <<dir, payload, marker, path, todo, work>>
    BY <1>17 DEF Drained, diskVars
  <2>5. Results \subseteq Procs
    BY DEF Procs
  <2> QED
    BY <2>1, <2>3, <2>4, <2>5 DEF InPlace
<1>18. ASSUME NEW p \in Procs, Kill(p) PROVE InPlace'
  <2>1. \A x \in Results : Copies(x)' = Copies(x)
    BY <1>18 DEF Kill, diskVars, Copies
  <2> QED
    BY <1>18, <2>1, ProcsAssumption DEF Kill, Fault, diskVars, procVars, TypeOK,
       DiskOK, ProcsOK, CountsOK, Scopes, InPlace, Exclusive, Procs, Working
<1>19. ASSUME NEW p \in Syncers, SyncStart(p) PROVE InPlace'
  <2>1. \A x \in Results : Copies(x)' = Copies(x)
    BY <1>19 DEF SyncStart, diskVars, Copies
  <2> QED
    BY <1>19, <2>1, ProcsAssumption DEF SyncStart, diskVars, procVars, TypeOK,
       DiskOK, ProcsOK, CountsOK, Scopes, InPlace, Working
<1>20. ASSUME NEW p \in Syncers, ScoreBegins(p) PROVE InPlace'
  <2>1. \A x \in Results : Copies(x)' = Copies(x)
    BY <1>20 DEF ScoreBegins, Copies
  <2>2. \A q \in Procs : pc'[q] \in Working => pc[q] \in Working /\ work'[q] = work[q]
    BY <1>20 DEF ScoreBegins, Working
  <2>3. \A x \in Results : x \in Procs /\ pc'[x] = pc[x]
    BY <1>20, ProcsAssumption DEF ScoreBegins, Procs
  <2>4. UNCHANGED <<dir, payload, marker, path, todo>>
    BY <1>20 DEF ScoreBegins
  <2> QED
    BY <2>1, <2>2, <2>3, <2>4 DEF InPlace
<1>21. ASSUME NEW p \in Syncers, ScoreEnds(p) PROVE InPlace'
  <2>1. \A x \in Results : Copies(x)' = Copies(x)
    BY <1>21 DEF ScoreEnds, Copies
  <2>2. \A q \in Procs : pc'[q] \in Working => pc[q] \in Working /\ work'[q] = work[q]
    BY <1>21 DEF ScoreEnds, Working
  <2>3. \A x \in Results : x \in Procs /\ pc'[x] = pc[x]
    BY <1>21, ProcsAssumption DEF ScoreEnds, Procs
  <2>4. UNCHANGED <<dir, payload, marker, path, todo>>
    BY <1>21 DEF ScoreEnds
  <2> QED
    BY <2>1, <2>2, <2>3, <2>4 DEF InPlace
<1>22. ASSUME NEW p \in Syncers, SyncEnds(p) PROVE InPlace'
  <2>1. \A x \in Results : Copies(x)' = Copies(x)
    BY <1>22 DEF SyncEnds, diskVars, Copies
  <2>2. \A q \in Procs : pc'[q] \in Working => pc[q] \in Working /\ work'[q] = work[q]
    BY <1>22 DEF SyncEnds, Working
  <2>3. \A x \in Results : x \in Procs /\ pc'[x] = pc[x]
    BY <1>22, ProcsAssumption DEF SyncEnds, Procs
  <2>4. UNCHANGED <<dir, payload, marker, path, todo>>
    BY <1>22 DEF SyncEnds, diskVars
  <2> QED
    BY <2>1, <2>2, <2>3, <2>4 DEF InPlace
<1>23. ASSUME NEW j \in Results \X Jobs, ServerScores(j) PROVE InPlace'
  <2>1. \A x \in Results : Copies(x)' = Copies(x)
    BY <1>23 DEF ServerScores, diskVars, Copies
  <2> QED
    BY <1>23, <2>1, ProcsAssumption DEF ServerScores, diskVars, procVars, TypeOK,
       DiskOK, ProcsOK, CountsOK, Scopes, InPlace
<1>24. CASE UNCHANGED vars
  BY <1>24, ProcsAssumption DEF vars, diskVars, procVars, diskVars, procVars,
     TypeOK, DiskOK, ProcsOK, CountsOK, Scopes, InPlace, Exclusive, Copies
<1> QED
  BY <1>1, <1>2, <1>3, <1>4, <1>5, <1>6, <1>7, <1>8, <1>9, <1>10, <1>11, <1>12,
     <1>13, <1>14, <1>15, <1>16, <1>17, <1>18, <1>19, <1>20, <1>21, <1>22, <1>23,
     <1>24 DEF Next, Save, Submit, Sync

\* The lock excludes: until the move nobody unlinks the file at the lock path, so
\* two processes that submit the same result would hold the same lock.
LEMMA ExclusiveStep ==
    ASSUME TypeOK, Scopes, InPlace, Exclusive, [Next]_vars
    PROVE  Exclusive'
<1>1. ASSUME NEW r \in Results, SaveBegins(r) PROVE Exclusive'
  BY <1>1, ProcsAssumption DEF SaveBegins, diskVars, procVars, TypeOK, DiskOK,
     ProcsOK, CountsOK, Scopes, InPlace, Exclusive, Working, Posting
<1>2. ASSUME NEW r \in Results, SavePayload(r) PROVE Exclusive'
  BY <1>2, ProcsAssumption DEF SavePayload, diskVars, procVars, TypeOK, DiskOK,
     ProcsOK, CountsOK, Scopes, InPlace, Exclusive, Working, Posting
<1>3. ASSUME NEW r \in Results, SaveExtras(r) PROVE Exclusive'
  BY <1>3, ProcsAssumption DEF SaveExtras, diskVars, procVars, TypeOK, DiskOK,
     ProcsOK, CountsOK, Scopes, InPlace, Exclusive, Working, Posting
<1>4. ASSUME NEW p \in Procs, NEW r \in Results, Open(p, r) PROVE Exclusive'
  <2>1. p \notin holds /\ UNCHANGED <<holds, payload, marker, job>>
    BY <1>4 DEF Open, Scopes, Holding
  <2>2. pc'[p] = "lock" /\ work'[p] = r
    BY <1>4 DEF Open, TypeOK, ProcsOK
  <2>3. ASSUME NEW q \in Procs, q # p
        PROVE  pc'[q] = pc[q] /\ work'[q] = work[q] /\ handle'[q] = handle[q]
    BY <1>4, <2>3 DEF Open, TypeOK, ProcsOK
  <2>4. handle'[p] = path'[r] /\ path'[r] # 0
    <3>1. CASE path[r] = 0
      BY <1>4 DEF Open, TypeOK, DiskOK, ProcsOK
    <3>2. CASE path[r] # 0
      BY <1>4, <3>2 DEF Open, TypeOK, ProcsOK
    <3> QED
      BY <3>1, <3>2
  <2>5. \A x \in Results : path[x] # 0 => path'[x] = path[x]
    BY <1>4 DEF Open, TypeOK, DiskOK
  <2>6. holds \subseteq Procs /\ \A q \in Procs : pc[q] \in Working => work[q] \in Results
    BY DEF Scopes, TypeOK, ProcsOK
  <2>7. ASSUME NEW q \in Procs, NEW s \in Procs, q \in holds', s \in holds',
               work'[q] = work'[s], handle'[q] = handle'[s]
        PROVE  q = s
    BY <2>1, <2>3, <2>7 DEF Exclusive
  <2>8. ASSUME NEW q \in Procs, pc'[q] \in Working, payload'[work'[q]] # "none"
        PROVE  handle'[q] = path'[work'[q]] /\ path'[work'[q]] # 0
    BY <2>1, <2>2, <2>3, <2>4, <2>5, <2>6, <2>8 DEF Exclusive
  <2>9. ASSUME NEW q \in Procs
        PROVE  /\ pc'[q] \in Posting => payload'[work'[q]] = "whole"
               /\ pc'[q] \in {"post", "mark"} => marker'[work'[q]] = 0
               /\ pc'[q] = "move" => marker'[work'[q]] = job'[q]
               /\ pc'[q] = "unlink" => payload'[work'[q]] = "none"
    BY <2>1, <2>2, <2>3 DEF Exclusive, Posting
  <2> QED
    BY <2>1, <2>6, <2>7, <2>8, <2>9 DEF Exclusive
<1>5. ASSUME NEW p \in Procs, TryLock(p) PROVE Exclusive'
  <2>1. \A q, s \in holds' :
             work'[q] = work'[s] /\ handle'[q] = handle'[s] => q = s
    BY <1>5, ProcsAssumption DEF TryLock, Locked, diskVars, procVars, TypeOK,
       DiskOK, ProcsOK, CountsOK, Scopes, InPlace, Exclusive
  <2>2. \A q \in Procs : pc'[q] \in Working /\ payload'[work'[q]] # "none"
             => handle'[q] = path'[work'[q]] /\ path'[work'[q]] # 0
    BY <1>5, ProcsAssumption DEF TryLock, Locked, diskVars, procVars, TypeOK,
       DiskOK, ProcsOK, CountsOK, Scopes, InPlace, Exclusive, Working
  <2>3. \A q \in Procs : pc'[q] \in Posting => payload'[work'[q]] = "whole"
    BY <1>5, ProcsAssumption DEF TryLock, Locked, diskVars, procVars, TypeOK,
       DiskOK, ProcsOK, CountsOK, Scopes, InPlace, Exclusive, Posting
  <2>4. \A q \in Procs :
             /\ pc'[q] \in {"post", "mark"} => marker'[work'[q]] = 0
             /\ pc'[q] = "move" => marker'[work'[q]] = job'[q]
             /\ pc'[q] = "unlink" => payload'[work'[q]] = "none"
    BY <1>5, ProcsAssumption DEF TryLock, Locked, diskVars, procVars, TypeOK,
       DiskOK, ProcsOK, CountsOK, Scopes, InPlace, Exclusive
  <2> QED
    BY <2>1, <2>2, <2>3, <2>4 DEF Exclusive
<1>6. ASSUME NEW p \in Procs, Skip(p) PROVE Exclusive'
  BY <1>6, ProcsAssumption DEF Skip, LetGo, Locked, diskVars, procVars, TypeOK,
     DiskOK, ProcsOK, CountsOK, Scopes, InPlace, Exclusive, Working, Posting
<1>7. ASSUME NEW p \in Procs, Moved(p) PROVE Exclusive'
  BY <1>7, ProcsAssumption DEF Moved, LetGo, diskVars, procVars, TypeOK, DiskOK,
     ProcsOK, CountsOK, Scopes, InPlace, Exclusive, Working, Posting
<1>8. ASSUME NEW p \in Procs, Resume(p) PROVE Exclusive'
  BY <1>8, ProcsAssumption DEF Resume, diskVars, procVars, TypeOK, DiskOK, ProcsOK,
     CountsOK, Scopes, InPlace, Exclusive, Working
<1>9. ASSUME NEW p \in Procs, Load(p) PROVE Exclusive'
  <2>1. \A q, s \in holds' :
             work'[q] = work'[s] /\ handle'[q] = handle'[s] => q = s
    BY SMTT(20), <1>9, ProcsAssumption DEF Load, LetGo, diskVars, procVars, TypeOK, DiskOK,
       ProcsOK, CountsOK, Scopes, InPlace, Exclusive, Working
  <2>2. \A q \in Procs : pc'[q] \in Working /\ payload'[work'[q]] # "none"
             => handle'[q] = path'[work'[q]] /\ path'[work'[q]] # 0
    BY <1>9, ProcsAssumption DEF Load, LetGo, diskVars, procVars, TypeOK, DiskOK,
       ProcsOK, CountsOK, Scopes, InPlace, Exclusive, Working, Holding
  <2>3. \A q \in Procs : pc'[q] \in Posting => payload'[work'[q]] = "whole"
    BY <1>9, ProcsAssumption DEF Load, LetGo, diskVars, procVars, TypeOK, DiskOK,
       ProcsOK, CountsOK, Scopes, InPlace, Exclusive, Working, Posting
  <2>4. \A q \in Procs :
             /\ pc'[q] \in {"post", "mark"} => marker'[work'[q]] = 0
             /\ pc'[q] = "move" => marker'[work'[q]] = job'[q]
             /\ pc'[q] = "unlink" => payload'[work'[q]] = "none"
    BY <1>9, ProcsAssumption DEF Load, LetGo, diskVars, procVars, TypeOK, DiskOK,
       ProcsOK, CountsOK, Scopes, InPlace, Exclusive
  <2> QED
    BY <2>1, <2>2, <2>3, <2>4 DEF Exclusive
<1>10. ASSUME NEW p \in Procs, Post(p) PROVE Exclusive'
  <2>1. \A q, s \in holds' :
             work'[q] = work'[s] /\ handle'[q] = handle'[s] => q = s
    BY <1>10, ProcsAssumption DEF Post, File, diskVars, procVars, TypeOK, DiskOK,
       ProcsOK, CountsOK, Scopes, InPlace, Exclusive
  <2>2. \A q \in Procs : pc'[q] \in Working /\ payload'[work'[q]] # "none"
             => handle'[q] = path'[work'[q]] /\ path'[work'[q]] # 0
    BY <1>10, ProcsAssumption DEF Post, File, diskVars, procVars, TypeOK, DiskOK,
       ProcsOK, CountsOK, Scopes, InPlace, Exclusive, Working
  <2>3. \A q \in Procs : pc'[q] \in Posting => payload'[work'[q]] = "whole"
    BY <1>10, ProcsAssumption DEF Post, File, diskVars, procVars, TypeOK, DiskOK,
       ProcsOK, CountsOK, Scopes, InPlace, Exclusive, Working, Posting
  <2>4. \A q \in Procs :
             /\ pc'[q] \in {"post", "mark"} => marker'[work'[q]] = 0
             /\ pc'[q] = "move" => marker'[work'[q]] = job'[q]
             /\ pc'[q] = "unlink" => payload'[work'[q]] = "none"
    BY <1>10, ProcsAssumption DEF Post, File, diskVars, procVars, TypeOK, DiskOK,
       ProcsOK, CountsOK, Scopes, InPlace, Exclusive
  <2> QED
    BY <2>1, <2>2, <2>3, <2>4 DEF Exclusive
<1>11. ASSUME NEW p \in Procs, PostFails(p) PROVE Exclusive'
  <2>1. \A q, s \in holds' :
             work'[q] = work'[s] /\ handle'[q] = handle'[s] => q = s
    BY <1>11, ProcsAssumption DEF PostFails, File, Fault, LetGo, diskVars, procVars,
       TypeOK, DiskOK, ProcsOK, CountsOK, Scopes, InPlace, Exclusive, Working
  <2>2. \A q \in Procs : pc'[q] \in Working /\ payload'[work'[q]] # "none"
             => handle'[q] = path'[work'[q]] /\ path'[work'[q]] # 0
    BY <1>11, ProcsAssumption DEF PostFails, File, Fault, LetGo, diskVars, procVars,
       TypeOK, DiskOK, ProcsOK, CountsOK, Scopes, InPlace, Exclusive, Working
  <2>3. \A q \in Procs : pc'[q] \in Posting => payload'[work'[q]] = "whole"
    BY <1>11, ProcsAssumption DEF PostFails, File, Fault, LetGo, diskVars, procVars,
       TypeOK, DiskOK, ProcsOK, CountsOK, Scopes, InPlace, Exclusive, Posting
  <2>4. \A q \in Procs :
             /\ pc'[q] \in {"post", "mark"} => marker'[work'[q]] = 0
             /\ pc'[q] = "move" => marker'[work'[q]] = job'[q]
             /\ pc'[q] = "unlink" => payload'[work'[q]] = "none"
    BY <1>11, ProcsAssumption DEF PostFails, File, Fault, LetGo, diskVars, procVars,
       TypeOK, DiskOK, ProcsOK, CountsOK, Scopes, InPlace, Exclusive
  <2> QED
    BY <2>1, <2>2, <2>3, <2>4 DEF Exclusive
<1>12. ASSUME NEW p \in Procs, Mark(p) PROVE Exclusive'
  <2>1. work[p] \in Results /\ pc[p] \in Posting /\ UNCHANGED <<holds, payload, path, work, handle, job>>
    BY <1>12 DEF Mark, Scopes, Working, Posting
  <2>2. pc'[p] = "move" /\ marker'[work[p]] = job[p]
    BY <1>12, <2>1 DEF Mark, TypeOK, DiskOK, ProcsOK
  <2>3. ASSUME NEW q \in Procs, q # p
        PROVE  /\ pc'[q] = pc[q]
               /\ pc[q] \in Posting => marker'[work[q]] = marker[work[q]]
    <3>1. pc'[q] = pc[q]
      BY <1>12, <2>3 DEF Mark
    <3>2. ASSUME pc[q] \in Posting
          PROVE  work[q] # work[p] /\ work[q] \in Results
      BY <2>1, <2>3, <3>2, OneSubmitter DEF Scopes, Posting, Working
    <3> QED
      BY <1>12, <3>1, <3>2 DEF Mark
  <2>4. payload[work[p]] = "whole" /\ handle[p] = path[work[p]] /\ path[work[p]] # 0
    BY <2>1 DEF Exclusive, Posting, Working
  <2>5. ASSUME NEW q \in Procs
        PROVE  /\ pc'[q] \in Working /\ payload'[work'[q]] # "none"
                    => handle'[q] = path'[work'[q]] /\ path'[work'[q]] # 0
               /\ pc'[q] \in Posting => payload'[work'[q]] = "whole"
               /\ pc'[q] \in {"post", "mark"} => marker'[work'[q]] = 0
               /\ pc'[q] = "move" => marker'[work'[q]] = job'[q]
               /\ pc'[q] = "unlink" => payload'[work'[q]] = "none"
    <3>1. CASE q = p
      BY <2>1, <2>2, <2>4, <3>1
    <3>2. CASE q # p
      BY <2>1, <2>3, <3>2 DEF Exclusive, Posting
    <3> QED
      BY <3>1, <3>2
  <2> QED
    BY <2>1, <2>5 DEF Exclusive
<1>13. ASSUME NEW p \in Procs, MarkFails(p) PROVE Exclusive'
  BY <1>13, ProcsAssumption DEF MarkFails, Fault, LetGo, diskVars, procVars, TypeOK,
     DiskOK, ProcsOK, CountsOK, Scopes, InPlace, Exclusive, Working, Posting
<1>14. ASSUME NEW p \in Procs, Move(p) PROVE Exclusive'
  <2> DEFINE r == work[p]
  <2>1. /\ r \in Results /\ payload[r] = "whole" /\ r \in dir /\ pc[p] \in Posting
    BY <1>14 DEF Move, Scopes, Exclusive, InPlace, Working, Posting
  <2>2. /\ payload' = [payload EXCEPT ![r] = "none"]
        /\ marker' = [marker EXCEPT ![r] = 0]
        /\ pc' = [pc EXCEPT ![p] = "unlink"]
        /\ UNCHANGED <<holds, path, work, handle, job>>
    BY <1>14, <2>1 DEF Move
  <2>3. ASSUME NEW q \in Procs, q # p, pc[q] \in Posting
        PROVE  work[q] # r /\ work[q] \in Results
    BY <2>1, <2>3, OneSubmitter DEF Scopes, Posting, Working
  <2>4. ASSUME NEW q \in Procs, q # p
        PROVE  pc'[q] = pc[q]
    BY <2>2, <2>4
  <2>5. pc'[p] = "unlink" /\ payload'[r] = "none"
    BY <2>1, <2>2 DEF TypeOK, DiskOK, ProcsOK
  <2>6. ASSUME NEW x \in Results, x # r
        PROVE  payload'[x] = payload[x] /\ marker'[x] = marker[x]
    BY <2>2, <2>6
  <2> HIDE DEF r
  <2>7. ASSUME NEW q \in Procs
        PROVE  /\ pc'[q] \in Working /\ payload'[work'[q]] # "none"
                    => handle'[q] = path'[work'[q]] /\ path'[work'[q]] # 0
               /\ pc'[q] \in Posting => payload'[work'[q]] = "whole"
               /\ pc'[q] \in {"post", "mark"} => marker'[work'[q]] = 0
               /\ pc'[q] = "move" => marker'[work'[q]] = job'[q]
               /\ pc'[q] = "unlink" => payload'[work'[q]] = "none"
    <3>1. CASE q = p
      BY <2>2, <2>5, <3>1 DEF Posting, r
    <3>2. CASE q # p
      <4>1. pc[q] \in Working => work[q] \in Results
        BY DEF Scopes
      <4>2. CASE work[q] = r
        BY <2>2, <2>3, <2>5, <4>2 DEF Posting
      <4>3. CASE work[q] # r
        BY <2>2, <2>4, <2>6, <3>2, <4>3 DEF Exclusive
      <4> QED
        BY <4>2, <4>3
    <3> QED
      BY <3>1, <3>2
  <2> QED
    BY <2>2, <2>7 DEF Exclusive
<1>15. ASSUME NEW p \in Procs, MoveFails(p) PROVE Exclusive'
  BY <1>15, ProcsAssumption DEF MoveFails, Fault, LetGo, diskVars, procVars, TypeOK,
     DiskOK, ProcsOK, CountsOK, Scopes, InPlace, Exclusive, Working, Posting
<1>16. ASSUME NEW p \in Procs, Unlink(p) PROVE Exclusive'
  BY <1>16, ProcsAssumption DEF Unlink, LetGo, diskVars, procVars, TypeOK, DiskOK,
     ProcsOK, CountsOK, Scopes, InPlace, Exclusive, Working, Posting
<1>17. ASSUME NEW p \in Procs, Drained(p) PROVE Exclusive'
  BY <1>17, ProcsAssumption DEF Drained, diskVars, procVars, TypeOK, DiskOK,
     ProcsOK, CountsOK, Scopes, InPlace, Exclusive, Working, Posting
<1>18. ASSUME NEW p \in Procs, Kill(p) PROVE Exclusive'
  BY <1>18, ProcsAssumption DEF Kill, Fault, diskVars, procVars, TypeOK, DiskOK,
     ProcsOK, CountsOK, Scopes, InPlace, Exclusive, Working, Holding, Posting
<1>19. ASSUME NEW p \in Syncers, SyncStart(p) PROVE Exclusive'
  BY <1>19, ProcsAssumption DEF SyncStart, diskVars, procVars, TypeOK, DiskOK,
     ProcsOK, CountsOK, Scopes, InPlace, Exclusive, Working, Posting
<1>20. ASSUME NEW p \in Syncers, ScoreBegins(p) PROVE Exclusive'
  <2>1. p \in Procs /\ p \notin holds
    BY <1>20 DEF ScoreBegins, Scopes, Holding, Procs
  <2>2. UNCHANGED <<holds, handle, payload, path, marker>> /\ pc'[p] = "metrics"
    BY <1>20, <2>1 DEF ScoreBegins, TypeOK, ProcsOK
  <2>3. ASSUME NEW q \in Procs, q # p
        PROVE  pc'[q] = pc[q] /\ work'[q] = work[q] /\ job'[q] = job[q]
    BY <1>20, <2>3 DEF ScoreBegins
  <2>4. holds \subseteq Procs
    BY DEF TypeOK, ProcsOK
  <2>5. \A q, s \in holds' : work'[q] = work'[s] /\ handle'[q] = handle'[s] => q = s
    BY <2>1, <2>2, <2>3, <2>4 DEF Exclusive
  <2> QED
    BY <2>2, <2>3, <2>5 DEF Exclusive, Working, Posting
<1>21. ASSUME NEW p \in Syncers, ScoreEnds(p) PROVE Exclusive'
  BY SMTT(20), <1>21, ProcsAssumption DEF ScoreEnds, diskVars, procVars, TypeOK, DiskOK,
     ProcsOK, CountsOK, Scopes, InPlace, Exclusive, Working, Holding, Posting
<1>22. ASSUME NEW p \in Syncers, SyncEnds(p) PROVE Exclusive'
  BY <1>22, ProcsAssumption DEF SyncEnds, diskVars, procVars, TypeOK, DiskOK,
     ProcsOK, CountsOK, Scopes, InPlace, Exclusive, Working, Posting
<1>23. ASSUME NEW j \in Results \X Jobs, ServerScores(j) PROVE Exclusive'
  BY <1>23, ProcsAssumption DEF ServerScores, diskVars, procVars, TypeOK, DiskOK,
     ProcsOK, CountsOK, Scopes, InPlace, Exclusive
<1>24. CASE UNCHANGED vars
  BY <1>24, ProcsAssumption DEF vars, diskVars, procVars, diskVars, procVars,
     TypeOK, DiskOK, ProcsOK, CountsOK, Scopes, InPlace, Exclusive, Working
<1> QED
  BY <1>1, <1>2, <1>3, <1>4, <1>5, <1>6, <1>7, <1>8, <1>9, <1>10, <1>11, <1>12,
     <1>13, <1>14, <1>15, <1>16, <1>17, <1>18, <1>19, <1>20, <1>21, <1>22, <1>23,
     <1>24 DEF Next, Save, Submit, Sync

\* The account holds while nothing is filed, cut off or taken off the record.
LEMMA AccountKept ==
    ASSUME TypeOK, Accounted, UNCHANGED <<marker, synced, filed, cuts>>,
           faults' \in {faults, faults + 1},
           \A q \in Procs : pc[q] = "mark" => pc'[q] = "mark" /\ work'[q] = work[q]
    PROVE  Accounted'
<1>1. ASSUME NEW r \in Results, Unrecorded(r)' PROVE Unrecorded(r)
  BY <1>1 DEF Unrecorded, Copies
<1>2. \A r \in Results : cuts[r] \in Nat /\ faults \in Nat
  BY BoundsAssumption DEF TypeOK, CountsOK
<1> QED BY <1>1, <1>2 DEF Accounted

\* It holds when a fault cuts a job off from its marker, the one on record or one
\* that was filed just then.
LEMMA CutCounted ==
    ASSUME TypeOK, Accounted, NEW r \in Results, UNCHANGED <<marker, synced>>,
           faults' = faults + 1, cuts' = [cuts EXCEPT ![r] = @ + 1],
           \/ filed' = filed
           \/ filed' = [filed EXCEPT ![r] = @ + 1] /\ Unrecorded(r),
           \A q \in Procs : pc[q] = "mark" /\ work[q] # r
                            => pc'[q] = "mark" /\ work'[q] = work[q]
    PROVE  Accounted'
<1>1. ASSUME NEW x \in Results, x # r, Unrecorded(x)' PROVE Unrecorded(x)
  BY <1>1 DEF Unrecorded, Copies
<1>2. \A x \in Results : cuts[x] \in Nat /\ filed[x] \in Nat /\ faults \in Nat
  BY BoundsAssumption DEF TypeOK, CountsOK, Jobs
<1>3. \A x \in Results : x # r => cuts'[x] = cuts[x] /\ filed'[x] = filed[x]
  BY DEF TypeOK, CountsOK
<1>4. cuts'[r] = cuts[r] + 1
  BY DEF TypeOK, CountsOK
<1>5. filed'[r] <= cuts'[r]
  <2>1. CASE filed' = filed
    BY <1>2, <1>4, <2>1 DEF Accounted
  <2>2. CASE filed' = [filed EXCEPT ![r] = @ + 1] /\ Unrecorded(r)
    <3>1. filed'[r] = filed[r] + 1 /\ filed[r] <= cuts[r]
      BY <2>2 DEF Accounted, TypeOK, CountsOK
    <3> QED BY <1>2, <1>4, <3>1
  <2> QED BY <2>1, <2>2
<1>6. filed'[r] \in Nat
  BY <1>2 DEF TypeOK, CountsOK
<1>7. cuts'[r] <= faults' /\ filed'[r] <= 1 + cuts'[r]
  BY <1>2, <1>4, <1>5, <1>6 DEF Accounted
<1>8. ASSUME NEW x \in Results, x # r
      PROVE  /\ cuts'[x] <= faults' /\ filed'[x] <= 1 + cuts'[x]
             /\ Unrecorded(x)' => filed'[x] <= cuts'[x]
  BY <1>1, <1>2, <1>3, <1>8 DEF Accounted
<1> QED BY <1>5, <1>7, <1>8 DEF Accounted

\* A POST that gets its answer puts one job on record, and every other is cut off
\* from the marker by a fault.
LEMMA AccountedStep ==
    ASSUME TypeOK, Scopes, InPlace, Exclusive, Accounted, [Next]_vars
    PROVE  Accounted'
<1>1. ASSUME NEW r \in Results, SaveBegins(r) PROVE Accounted'
  BY <1>1, AccountKept DEF SaveBegins, diskVars, TypeOK, ProcsOK
<1>2. ASSUME NEW r \in Results, SavePayload(r) PROVE Accounted'
  BY <1>2, AccountKept DEF SavePayload, diskVars, TypeOK, ProcsOK
<1>3. ASSUME NEW r \in Results, SaveExtras(r) PROVE Accounted'
  BY <1>3, AccountKept DEF SaveExtras, diskVars, TypeOK, ProcsOK
<1>4. ASSUME NEW p \in Procs, NEW r \in Results, Open(p, r) PROVE Accounted'
  BY <1>4, AccountKept DEF Open, diskVars, TypeOK, ProcsOK
<1>5. ASSUME NEW p \in Procs, TryLock(p) PROVE Accounted'
  BY <1>5, AccountKept DEF TryLock, diskVars, TypeOK, ProcsOK
<1>6. ASSUME NEW p \in Procs, Skip(p) PROVE Accounted'
  BY <1>6, AccountKept DEF Skip, LetGo, diskVars, TypeOK, ProcsOK
<1>7. ASSUME NEW p \in Procs, Moved(p) PROVE Accounted'
  BY <1>7, AccountKept DEF Moved, LetGo, diskVars, TypeOK, ProcsOK
<1>8. ASSUME NEW p \in Procs, Resume(p) PROVE Accounted'
  BY <1>8, AccountKept DEF Resume, diskVars, TypeOK, ProcsOK
<1>9. ASSUME NEW p \in Procs, Load(p) PROVE Accounted'
  BY <1>9, AccountKept DEF Load, LetGo, diskVars, TypeOK, ProcsOK
<1>10. ASSUME NEW p \in Procs, Post(p) PROVE Accounted'
  <2>1. PICK r \in Results : r = work[p]
    BY <1>10 DEF Post, Scopes, Working
  <2>2. pc[p] \in Posting
    BY <1>10 DEF Post, Posting
  <2>3. Unrecorded(r)
    <3>1. Copies(r) = {} /\ marker[r] = 0
      BY <1>10, <2>1, <2>2 DEF Post, Exclusive, InPlace
    <3>2. \A q \in Procs : ~ (pc[q] = "mark" /\ work[q] = r)
      BY <1>10, <2>1, OneSubmitter DEF Post, Posting
    <3> QED
      BY <3>1, <3>2 DEF Unrecorded
  <2>4. /\ filed' = [filed EXCEPT ![r] = @ + 1]
        /\ UNCHANGED <<cuts, faults>>
    BY <1>10, <2>1 DEF Post, File
  <2>5. pc'[p] = "mark" /\ UNCHANGED work
    BY <1>10 DEF Post, TypeOK, ProcsOK
  <2>6. \A x \in Results : Copies(x)' = Copies(x) /\ UNCHANGED marker
    BY <1>10 DEF Post, diskVars, Copies
  <2>7. \A q \in Procs : q # p => pc'[q] = pc[q]
    BY <1>10 DEF Post
  <2>8. ~ Unrecorded(r)'
    BY <2>1, <2>5 DEF Unrecorded
  <2>9. ASSUME NEW x \in Results, x # r, Unrecorded(x)' PROVE Unrecorded(x)
    BY <2>1, <2>5, <2>6, <2>7, <2>9 DEF Unrecorded
  <2>10. filed[r] \in Nat /\ cuts[r] \in Nat /\ filed'[r] = filed[r] + 1
    BY <2>1, <2>2, <2>4 DEF TypeOK, CountsOK, Jobs
  <2>11. \A x \in Results : x # r => filed'[x] = filed[x]
    BY <2>4
  <2>12. filed[r] <= cuts[r]
    BY <2>3 DEF Accounted
  <2>13. filed'[r] <= 1 + cuts[r]
    BY <2>10, <2>12
  <2> QED
    BY <2>1, <2>2, <2>4, <2>8, <2>9, <2>13 DEF Accounted
<1>11. ASSUME NEW p \in Procs, PostFails(p) PROVE Accounted'
  <2>1. work[p] \in Results
    BY <1>11 DEF PostFails, Scopes, Working
  <2>2. Unrecorded(work[p])
    <3>1. Copies(work[p]) = {} /\ marker[work[p]] = 0
      BY <1>11, <2>1 DEF PostFails, Exclusive, InPlace, Posting
    <3>2. \A q \in Procs : ~ (pc[q] = "mark" /\ work[q] = work[p])
      BY <1>11, <2>1, OneSubmitter DEF PostFails, Posting
    <3> QED
      BY <3>1, <3>2 DEF Unrecorded
  <2>3. /\ UNCHANGED <<marker, synced>> /\ faults' = faults + 1
        /\ \A q \in Procs : pc[q] = "mark" => pc'[q] = "mark" /\ work'[q] = work[q]
    BY <1>11 DEF PostFails, Fault, LetGo, diskVars, TypeOK, ProcsOK
  <2>4. CASE UNCHANGED <<filed, cuts>>
    BY <2>3, <2>4, AccountKept
  <2>5. CASE File(work[p]) /\ cuts' = [cuts EXCEPT ![work[p]] = @ + 1]
    BY <2>1, <2>2, <2>3, <2>5, CutCounted DEF File
  <2> QED
    BY <1>11, <2>4, <2>5 DEF PostFails
<1>12. ASSUME NEW p \in Procs, Mark(p) PROVE Accounted'
  <2>1. PICK r \in Results : r = work[p]
    BY <1>12 DEF Mark, Scopes, Working
  <2>2. job[p] \in Jobs
    BY <1>12 DEF Mark, Scopes
  <2>3. job[p] # 0
    BY <2>2 DEF Jobs
  <2>4. /\ marker' = [marker EXCEPT ![r] = job[p]]
        /\ UNCHANGED <<work, filed, cuts, faults>>
    BY <1>12, <2>1 DEF Mark
  <2>5. \A x \in Results : Copies(x)' = Copies(x)
    BY <1>12 DEF Mark, Copies
  <2>6. ~ Unrecorded(r)'
    BY <2>1, <2>3, <2>4 DEF Unrecorded, TypeOK, DiskOK
  <2>7. ASSUME NEW x \in Results, x # r, Unrecorded(x)' PROVE Unrecorded(x)
    BY <1>12, <2>1, <2>4, <2>5, <2>7 DEF Mark, Unrecorded
  <2> QED
    BY <2>1, <2>4, <2>6, <2>7 DEF Accounted
<1>13. ASSUME NEW p \in Procs, MarkFails(p) PROVE Accounted'
  <2>1. work[p] \in Results
    BY <1>13 DEF MarkFails, Scopes, Working
  <2>2. /\ UNCHANGED <<marker, synced, filed>> /\ faults' = faults + 1
        /\ cuts' = [cuts EXCEPT ![work[p]] = @ + 1]
        /\ \A q \in Procs : q # p => pc'[q] = pc[q] /\ work'[q] = work[q]
    BY <1>13 DEF MarkFails, Fault, LetGo, diskVars, TypeOK, ProcsOK
  <2> QED
    BY <2>1, <2>2, CutCounted
<1>14. ASSUME NEW p \in Procs, Move(p) PROVE Accounted'
  <2>1. PICK r \in Results : r = work[p]
    BY <1>14 DEF Move, Scopes, Working
  <2>2. r \in dir
    BY <1>14, <2>1 DEF Move, Exclusive, InPlace, Posting
  <2>3. /\ synced' = synced \cup {<<r, job[p]>>}
        /\ marker' = [marker EXCEPT ![r] = 0]
        /\ pc' = [pc EXCEPT ![p] = "unlink"]
        /\ UNCHANGED <<work, filed, cuts, faults>>
    BY <1>14, <2>1, <2>2 DEF Move
  <2>4. ~ Unrecorded(r)'
    <3>1. <<r, job[p]>> \in Copies(r)'
      BY <2>3 DEF Copies
    <3> QED
      BY <3>1 DEF Unrecorded
  <2>5. ASSUME NEW x \in Results, x # r, Unrecorded(x)' PROVE Unrecorded(x)
    <3>1. Copies(x)' = Copies(x)
      BY <2>3, <2>5 DEF Copies
    <3>2. marker'[x] = marker[x]
      BY <2>3, <2>5
    <3>3. \A q \in Procs : pc[q] = "mark" /\ work[q] = x => pc'[q] = "mark"
      BY <2>1, <2>3, <2>5
    <3> QED
      BY <2>1, <2>3, <2>5, <3>1 DEF Unrecorded
  <2> QED
    BY <2>1, <2>3, <2>4, <2>5 DEF Accounted
<1>15. ASSUME NEW p \in Procs, MoveFails(p) PROVE Accounted'
  BY <1>15, AccountKept DEF MoveFails, LetGo, Fault, diskVars, TypeOK, ProcsOK
<1>16. ASSUME NEW p \in Procs, Unlink(p) PROVE Accounted'
  BY <1>16, AccountKept DEF Unlink, LetGo, diskVars, TypeOK, ProcsOK
<1>17. ASSUME NEW p \in Procs, Drained(p) PROVE Accounted'
  BY <1>17, AccountKept DEF Drained, diskVars, TypeOK, ProcsOK
<1>18. ASSUME NEW p \in Procs, Kill(p) PROVE Accounted'
  <2>1. /\ UNCHANGED <<marker, synced, filed>> /\ faults' = faults + 1
        /\ \A q \in Procs : q # p => pc'[q] = pc[q] /\ work'[q] = work[q]
    BY <1>18 DEF Kill, Fault, diskVars, TypeOK, ProcsOK
  <2>2. CASE pc[p] = "mark"
    <3>1. work[p] \in Results
      BY <2>2 DEF Scopes, Working
    <3>2. cuts' = [cuts EXCEPT ![work[p]] = @ + 1]
      BY <1>18, <2>2 DEF Kill
    <3> QED
      BY <2>1, <3>1, <3>2, CutCounted
  <2>3. CASE pc[p] # "mark"
    <3>1. cuts' = cuts
      BY <1>18, <2>3 DEF Kill
    <3> QED
      BY <2>1, <2>3, <3>1, AccountKept
  <2> QED
    BY <2>2, <2>3
<1>19. ASSUME NEW p \in Syncers, SyncStart(p) PROVE Accounted'
  BY <1>19, AccountKept DEF SyncStart, diskVars, TypeOK, ProcsOK
<1>20. ASSUME NEW p \in Syncers, ScoreBegins(p) PROVE Accounted'
  BY <1>20, AccountKept DEF ScoreBegins, diskVars, TypeOK, ProcsOK
<1>21. ASSUME NEW p \in Syncers, ScoreEnds(p) PROVE Accounted'
  BY <1>21, AccountKept DEF ScoreEnds, diskVars, TypeOK, ProcsOK
<1>22. ASSUME NEW p \in Syncers, SyncEnds(p) PROVE Accounted'
  BY <1>22, AccountKept DEF SyncEnds, diskVars, TypeOK, ProcsOK
<1>23. ASSUME NEW j \in Results \X Jobs, ServerScores(j) PROVE Accounted'
  BY <1>23, AccountKept DEF ServerScores, procVars, diskVars, TypeOK, ProcsOK
<1>24. CASE UNCHANGED vars
  BY <1>24, AccountKept DEF vars, diskVars, procVars
<1> QED
  BY <1>1, <1>2, <1>3, <1>4, <1>5, <1>6, <1>7, <1>8, <1>9, <1>10, <1>11, <1>12,
     <1>13, <1>14, <1>15, <1>16, <1>17, <1>18, <1>19, <1>20, <1>21, <1>22, <1>23,
     <1>24 DEF Next, Save, Submit, Sync

\* Whatever is filed, marked or scored is the server's.
LEMMA FiledStep ==
    ASSUME TypeOK, Scopes, InPlace, Exclusive, SyncedIsFiled, [Next]_vars
    PROVE  SyncedIsFiled'
<1>1. ASSUME NEW r \in Results, SaveBegins(r) PROVE SyncedIsFiled'
  BY <1>1, BoundsAssumption DEF SaveBegins, diskVars, procVars, TypeOK, DiskOK,
     ProcsOK, CountsOK, Scopes, Exclusive, SyncedIsFiled
<1>2. ASSUME NEW r \in Results, SavePayload(r) PROVE SyncedIsFiled'
  BY <1>2, BoundsAssumption DEF SavePayload, diskVars, procVars, TypeOK, DiskOK,
     ProcsOK, CountsOK, Scopes, Exclusive, SyncedIsFiled
<1>3. ASSUME NEW r \in Results, SaveExtras(r) PROVE SyncedIsFiled'
  BY <1>3, BoundsAssumption DEF SaveExtras, diskVars, procVars, TypeOK, DiskOK,
     ProcsOK, CountsOK, Scopes, Exclusive, SyncedIsFiled
<1>4. ASSUME NEW p \in Procs, NEW r \in Results, Open(p, r) PROVE SyncedIsFiled'
  BY <1>4, BoundsAssumption DEF Open, diskVars, procVars, TypeOK, DiskOK, ProcsOK,
     CountsOK, Scopes, Exclusive, SyncedIsFiled
<1>5. ASSUME NEW p \in Procs, TryLock(p) PROVE SyncedIsFiled'
  BY <1>5, BoundsAssumption DEF TryLock, Locked, diskVars, procVars, TypeOK, DiskOK,
     ProcsOK, CountsOK, Scopes, Exclusive, SyncedIsFiled
<1>6. ASSUME NEW p \in Procs, Skip(p) PROVE SyncedIsFiled'
  BY <1>6, BoundsAssumption DEF Skip, LetGo, Locked, diskVars, procVars, TypeOK,
     DiskOK, ProcsOK, CountsOK, Scopes, Exclusive, SyncedIsFiled
<1>7. ASSUME NEW p \in Procs, Moved(p) PROVE SyncedIsFiled'
  BY <1>7, BoundsAssumption DEF Moved, LetGo, diskVars, procVars, TypeOK, DiskOK,
     ProcsOK, CountsOK, Scopes, Exclusive, SyncedIsFiled
<1>8. ASSUME NEW p \in Procs, Resume(p) PROVE SyncedIsFiled'
  BY <1>8, BoundsAssumption DEF Resume, diskVars, procVars, TypeOK, DiskOK, ProcsOK,
     CountsOK, Scopes, Exclusive, SyncedIsFiled
<1>9. ASSUME NEW p \in Procs, Load(p) PROVE SyncedIsFiled'
  BY <1>9, BoundsAssumption DEF Load, LetGo, diskVars, procVars, TypeOK, DiskOK,
     ProcsOK, CountsOK, Scopes, Exclusive, SyncedIsFiled
<1>10. ASSUME NEW p \in Procs, Post(p) PROVE SyncedIsFiled'
  BY <1>10, BoundsAssumption DEF Post, File, diskVars, procVars, TypeOK, DiskOK,
     ProcsOK, CountsOK, Scopes, Exclusive, SyncedIsFiled, Jobs, Holding, Posting
<1>11. ASSUME NEW p \in Procs, PostFails(p) PROVE SyncedIsFiled'
  <2>1. work[p] \in Results
    BY <1>11 DEF PostFails, Scopes, Working
  <2>2. \A x \in Results : filed[x] \in Nat /\ filed'[x] \in Nat /\ filed[x] <= filed'[x]
    BY <1>11, <2>1, BoundsAssumption DEF PostFails, File, TypeOK, CountsOK, Jobs
  <2>3. \A x \in Results : marker[x] \in Nat
    BY DEF TypeOK, DiskOK, Jobs
  <2>4. \A j \in synced : j[1] \in Results /\ j[2] \in Nat
    BY DEF TypeOK, DiskOK, Jobs
  <2>5. UNCHANGED <<diskVars, scored>>
    BY <1>11 DEF PostFails
  <2>6. \A j \in synced : j[2] <= filed'[j[1]]
    BY <2>2, <2>4 DEF SyncedIsFiled
  <2>7. \A x \in Results : marker[x] <= filed'[x]
    BY <2>2, <2>3 DEF SyncedIsFiled
  <2> QED
    BY <2>5, <2>6, <2>7 DEF SyncedIsFiled, diskVars
<1>12. ASSUME NEW p \in Procs, Mark(p) PROVE SyncedIsFiled'
  BY <1>12, BoundsAssumption DEF Mark, diskVars, procVars, TypeOK, DiskOK, ProcsOK,
     CountsOK, Scopes, Exclusive, SyncedIsFiled, Posting
<1>13. ASSUME NEW p \in Procs, MarkFails(p) PROVE SyncedIsFiled'
  BY <1>13, BoundsAssumption DEF MarkFails, Fault, LetGo, diskVars, procVars,
     TypeOK, DiskOK, ProcsOK, CountsOK, Scopes, Exclusive, SyncedIsFiled
<1>14. ASSUME NEW p \in Procs, Move(p) PROVE SyncedIsFiled'
  <2> DEFINE r == work[p]
  <2>1. /\ r \in Results /\ r \in dir
        /\ job[p] \in Jobs /\ job[p] <= filed[r]
    BY <1>14 DEF Move, Scopes, Exclusive, InPlace, Working, Posting
  <2>2. /\ synced' = synced \cup {<<r, job[p]>>}
        /\ marker' = [marker EXCEPT ![r] = 0]
        /\ UNCHANGED <<metrics, filed, scored>>
    BY <1>14, <2>1 DEF Move
  <2>3. \A j \in synced' : j[2] <= filed'[j[1]]
    BY <2>1, <2>2 DEF SyncedIsFiled
  <2>4. 0 <= filed[r]
    BY <2>1 DEF TypeOK, CountsOK, Jobs
  <2>5. \A x \in Results : marker'[x] <= filed'[x]
    BY <2>2, <2>4 DEF SyncedIsFiled
  <2> HIDE DEF r
  <2> QED
    BY <2>2, <2>3, <2>5 DEF SyncedIsFiled
<1>15. ASSUME NEW p \in Procs, MoveFails(p) PROVE SyncedIsFiled'
  BY <1>15, BoundsAssumption DEF MoveFails, Fault, LetGo, diskVars, procVars,
     TypeOK, DiskOK, ProcsOK, CountsOK, Scopes, Exclusive, SyncedIsFiled
<1>16. ASSUME NEW p \in Procs, Unlink(p) PROVE SyncedIsFiled'
  BY <1>16, BoundsAssumption DEF Unlink, LetGo, diskVars, procVars, TypeOK, DiskOK,
     ProcsOK, CountsOK, Scopes, Exclusive, SyncedIsFiled
<1>17. ASSUME NEW p \in Procs, Drained(p) PROVE SyncedIsFiled'
  BY <1>17, BoundsAssumption DEF Drained, diskVars, procVars, TypeOK, DiskOK,
     ProcsOK, CountsOK, Scopes, Exclusive, SyncedIsFiled
<1>18. ASSUME NEW p \in Procs, Kill(p) PROVE SyncedIsFiled'
  BY <1>18, BoundsAssumption DEF Kill, Fault, diskVars, procVars, TypeOK, DiskOK,
     ProcsOK, CountsOK, Scopes, Exclusive, SyncedIsFiled
<1>19. ASSUME NEW p \in Syncers, SyncStart(p) PROVE SyncedIsFiled'
  BY <1>19, BoundsAssumption DEF SyncStart, diskVars, procVars, TypeOK, DiskOK,
     ProcsOK, CountsOK, Scopes, Exclusive, SyncedIsFiled
<1>20. ASSUME NEW p \in Syncers, ScoreBegins(p) PROVE SyncedIsFiled'
  BY <1>20, BoundsAssumption DEF ScoreBegins, diskVars, procVars, TypeOK, DiskOK,
     ProcsOK, CountsOK, Scopes, Exclusive, SyncedIsFiled
<1>21. ASSUME NEW p \in Syncers, ScoreEnds(p) PROVE SyncedIsFiled'
  BY <1>21, BoundsAssumption DEF ScoreEnds, diskVars, procVars, TypeOK, DiskOK,
     ProcsOK, CountsOK, Scopes, Exclusive, SyncedIsFiled, Procs
<1>22. ASSUME NEW p \in Syncers, SyncEnds(p) PROVE SyncedIsFiled'
  BY <1>22, BoundsAssumption DEF SyncEnds, diskVars, procVars, TypeOK, DiskOK,
     ProcsOK, CountsOK, Scopes, Exclusive, SyncedIsFiled
<1>23. ASSUME NEW j \in Results \X Jobs, ServerScores(j) PROVE SyncedIsFiled'
  BY <1>23, BoundsAssumption DEF ServerScores, diskVars, procVars, TypeOK, DiskOK,
     ProcsOK, CountsOK, Scopes, Exclusive, SyncedIsFiled
<1>24. CASE UNCHANGED vars
  BY <1>24, BoundsAssumption DEF vars, diskVars, procVars, diskVars, procVars,
     TypeOK, DiskOK, ProcsOK, CountsOK, Scopes, Exclusive, SyncedIsFiled
<1> QED
  BY <1>1, <1>2, <1>3, <1>4, <1>5, <1>6, <1>7, <1>8, <1>9, <1>10, <1>11, <1>12,
     <1>13, <1>14, <1>15, <1>16, <1>17, <1>18, <1>19, <1>20, <1>21, <1>22, <1>23,
     <1>24 DEF Next, Save, Submit, Sync

\* A lock file keeps its unlinker while none is made or unlinked and those about
\* to look at a result that has moved go on.
LEMMA UnlinkerKept ==
    ASSUME Unlinker, UNCHANGED <<path, dir, killed>>,
           \A q \in Procs : pc[q] \in {"lock", "check", "unlink"}
                            => pc'[q] = pc[q] /\ work'[q] = work[q]
    PROVE  Unlinker'
BY DEF Unlinker

\* Who skips a locked result leaves it to the holder of the lock.
LEMMA UnlinkerStep ==
    ASSUME TypeOK, Scopes, InPlace, Exclusive, Unlinker, [Next]_vars
    PROVE  Unlinker'
<1>1. ASSUME NEW r \in Results, SaveBegins(r) PROVE Unlinker'
  BY <1>1 DEF SaveBegins, diskVars, procVars, TypeOK, DiskOK, ProcsOK, CountsOK,
     Scopes, InPlace, Exclusive, Unlinker, Working
<1>2. ASSUME NEW r \in Results, SavePayload(r) PROVE Unlinker'
  BY <1>2 DEF SavePayload, diskVars, procVars, TypeOK, DiskOK, ProcsOK, CountsOK,
     Scopes, InPlace, Exclusive, Unlinker, Working
<1>3. ASSUME NEW r \in Results, SaveExtras(r) PROVE Unlinker'
  BY <1>3 DEF SaveExtras, diskVars, procVars, TypeOK, DiskOK, ProcsOK, CountsOK,
     Scopes, InPlace, Exclusive, Unlinker
<1>4. ASSUME NEW p \in Procs, NEW r \in Results, Open(p, r) PROVE Unlinker'
  BY <1>4 DEF Open, diskVars, procVars, TypeOK, DiskOK, ProcsOK, CountsOK, Scopes,
     InPlace, Exclusive, Unlinker, Working, Holding
<1>5. ASSUME NEW p \in Procs, TryLock(p) PROVE Unlinker'
  BY <1>5 DEF TryLock, Locked, diskVars, procVars, TypeOK, DiskOK, ProcsOK,
     CountsOK, Scopes, InPlace, Exclusive, Unlinker
<1>6. ASSUME NEW p \in Procs, Skip(p) PROVE Unlinker'
  <2>1. UNCHANGED <<path, dir, killed>>
    BY <1>6 DEF Skip, diskVars
  <2>2. PICK h \in holds : work[h] = work[p]
    BY <1>6 DEF Skip, Locked
  <2>3. h \in Procs /\ h # p /\ pc[h] \in Holding
    BY <1>6, <2>2 DEF Skip, Scopes, Holding, TypeOK, ProcsOK
  <2>4. \A q \in Procs : q # p => pc'[q] = pc[q] /\ work'[q] = work[q]
    BY <1>6 DEF Skip, LetGo
  <2>5. ASSUME work[p] \notin dir, work[p] \in Results
        PROVE  pc[h] \in {"lock", "check", "unlink"}
    BY <2>2, <2>3, <2>5 DEF Exclusive, InPlace, Posting, Holding
  <2>6. ASSUME ~ killed, NEW x \in Results, path[x] # 0, x \notin dir
        PROVE  \E q \in Procs : work'[q] = x /\ pc'[q] \in {"lock", "check", "unlink"}
    <3>1. PICK s \in Procs : work[s] = x /\ pc[s] \in {"lock", "check", "unlink"}
      BY <2>6 DEF Unlinker
    <3>2. CASE s = p
      BY <2>2, <2>3, <2>4, <2>5, <2>6, <3>1
    <3>3. CASE s # p
      BY <2>4, <3>1, <3>3
    <3> QED
      BY <3>2, <3>3
  <2> QED
    BY <2>1, <2>6 DEF Unlinker
<1>7. ASSUME NEW p \in Procs, Moved(p) PROVE Unlinker'
  BY <1>7 DEF Moved, LetGo, diskVars, procVars, TypeOK, DiskOK, ProcsOK, CountsOK,
     Scopes, InPlace, Exclusive, Unlinker, Holding, Posting
<1>8. ASSUME NEW p \in Procs, Resume(p) PROVE Unlinker'
  BY <1>8 DEF Resume, diskVars, procVars, TypeOK, DiskOK, ProcsOK, CountsOK, Scopes,
     InPlace, Exclusive, Unlinker
<1>9. ASSUME NEW p \in Procs, Load(p) PROVE Unlinker'
  <2>1. UNCHANGED <<path, dir, killed>>
    BY <1>9 DEF Load, diskVars
  <2>2. pc[p] \in {"check", "mark"} /\ work[p] \in dir
    BY <1>9 DEF Load
  <2>3. \A q \in Procs : q # p => pc'[q] = pc[q] /\ work'[q] = work[q]
    BY <1>9 DEF Load, LetGo, TypeOK, ProcsOK
  <2>4. ASSUME ~ killed, NEW x \in Results, path[x] # 0, x \notin dir
        PROVE  \E q \in Procs : work'[q] = x /\ pc'[q] \in {"lock", "check", "unlink"}
    BY <2>2, <2>3, <2>4 DEF Unlinker
  <2> QED
    BY <2>1, <2>4 DEF Unlinker
<1>10. ASSUME NEW p \in Procs, Post(p) PROVE Unlinker'
  BY <1>10 DEF Post, File, diskVars, procVars, TypeOK, DiskOK, ProcsOK, CountsOK,
     Scopes, InPlace, Exclusive, Unlinker
<1>11. ASSUME NEW p \in Procs, PostFails(p) PROVE Unlinker'
  BY <1>11 DEF PostFails, File, Fault, LetGo, diskVars, procVars, TypeOK, DiskOK,
     ProcsOK, CountsOK, Scopes, InPlace, Exclusive, Unlinker, Posting
<1>12. ASSUME NEW p \in Procs, Mark(p) PROVE Unlinker'
  <2>1. UNCHANGED <<path, dir, killed>>
    BY <1>12 DEF Mark
  <2>2. pc[p] \in {"check", "mark"} /\ work[p] \in dir
    BY <1>12 DEF Mark, Exclusive, InPlace, Posting, Scopes, Working
  <2>3. \A q \in Procs : q # p => pc'[q] = pc[q] /\ work'[q] = work[q]
    BY <1>12 DEF Mark
  <2>4. ASSUME ~ killed, NEW x \in Results, path[x] # 0, x \notin dir
        PROVE  \E q \in Procs : work'[q] = x /\ pc'[q] \in {"lock", "check", "unlink"}
    BY <2>2, <2>3, <2>4 DEF Unlinker
  <2> QED
    BY <2>1, <2>4 DEF Unlinker
<1>13. ASSUME NEW p \in Procs, MarkFails(p) PROVE Unlinker'
  BY <1>13, UnlinkerKept DEF MarkFails, LetGo, diskVars, TypeOK, ProcsOK
<1>14. ASSUME NEW p \in Procs, Move(p) PROVE Unlinker'
  BY <1>14 DEF Move, diskVars, procVars, TypeOK, DiskOK, ProcsOK, CountsOK, Scopes,
     InPlace, Exclusive, Unlinker
<1>15. ASSUME NEW p \in Procs, MoveFails(p) PROVE Unlinker'
  BY <1>15, UnlinkerKept DEF MoveFails, LetGo, diskVars, TypeOK, ProcsOK
<1>16. ASSUME NEW p \in Procs, Unlink(p) PROVE Unlinker'
  BY <1>16 DEF Unlink, LetGo, diskVars, procVars, TypeOK, DiskOK, ProcsOK, CountsOK,
     Scopes, InPlace, Exclusive, Unlinker
<1>17. ASSUME NEW p \in Procs, Drained(p) PROVE Unlinker'
  BY <1>17, UnlinkerKept DEF Drained, diskVars, TypeOK, ProcsOK
<1>18. ASSUME NEW p \in Procs, Kill(p) PROVE Unlinker'
  BY <1>18 DEF Kill, Fault, diskVars, procVars, TypeOK, DiskOK, ProcsOK, CountsOK,
     Scopes, InPlace, Exclusive, Unlinker
<1>19. ASSUME NEW p \in Syncers, SyncStart(p) PROVE Unlinker'
  BY <1>19, UnlinkerKept DEF SyncStart, diskVars, TypeOK, ProcsOK
<1>20. ASSUME NEW p \in Syncers, ScoreBegins(p) PROVE Unlinker'
  BY <1>20, UnlinkerKept DEF ScoreBegins, diskVars, TypeOK, ProcsOK
<1>21. ASSUME NEW p \in Syncers, ScoreEnds(p) PROVE Unlinker'
  BY <1>21, UnlinkerKept DEF ScoreEnds, diskVars, TypeOK, ProcsOK
<1>22. ASSUME NEW p \in Syncers, SyncEnds(p) PROVE Unlinker'
  BY <1>22, UnlinkerKept DEF SyncEnds, diskVars, TypeOK, ProcsOK
<1>23. ASSUME NEW j \in Results \X Jobs, ServerScores(j) PROVE Unlinker'
  BY <1>23, UnlinkerKept DEF ServerScores, procVars, diskVars, TypeOK, ProcsOK
<1>24. CASE UNCHANGED vars
  BY <1>24 DEF vars, diskVars, procVars, diskVars, procVars, TypeOK, DiskOK,
     ProcsOK, CountsOK, Scopes, InPlace, Exclusive, Unlinker
<1> QED
  BY <1>1, <1>2, <1>3, <1>4, <1>5, <1>6, <1>7, <1>8, <1>9, <1>10, <1>11, <1>12,
     <1>13, <1>14, <1>15, <1>16, <1>17, <1>18, <1>19, <1>20, <1>21, <1>22, <1>23,
     <1>24 DEF Next, Save, Submit, Sync

-----------------------------------------------------------------------------

\* The invariant holds before the first command.
LEMMA InitInv == Init => IInv
<1> SUFFICES ASSUME Init PROVE IInv
  OBVIOUS
<1>1. 0 \in Nat /\ 0 \in 0 .. MaxInodes /\ 0 \in 0 .. MaxFaults /\ 0 \in 0 .. MaxSyncs
  BY BoundsAssumption
<1>2. TypeOK
  BY <1>1 DEF Init, TypeOK, DiskOK, ProcsOK, CountsOK
<1>3. \A r \in Results : Copies(r) = {} /\ r \in Procs
  BY DEF Init, Copies, Procs
<1>4. \A p \in Procs : pc[p] \in {"new", "idle"}
  BY DEF Init
<1>5. Scopes /\ Exclusive
  BY <1>4 DEF Init, Scopes, Exclusive, Working, Holding, Posting
<1>6. InPlace
  BY <1>3 DEF Init, InPlace, Working
<1>7. Accounted /\ SyncedIsFiled /\ Unlinker
  BY DEF Init, Accounted, SyncedIsFiled, Unlinker
<1> QED
  BY <1>2, <1>5, <1>6, <1>7 DEF IInv

\* Every step keeps it.
LEMMA Inductive == IInv /\ [Next]_vars => IInv'
BY TypeStep, ScopesStep, InPlaceStep, ExclusiveStep, AccountedStep, FiledStep,
   UnlinkerStep DEF IInv

\* Hence it always holds.
LEMMA Invariance == Spec => []IInv
BY InitInv, Inductive, PTL DEF Spec

\* The types of the files, of the processes and of the counts, over every run of
\* the commands.
THEOREM TypeCorrect == Spec => []TypeOK
<1>1. IInv => TypeOK
  BY DEF IInv
<1> QED
  BY <1>1, Invariance, PTL

\* submit_pending_result posts a result again only after a post whose job id
\* never reached the marker file: with no such cut, one post for any number of
\* commands submitting it.
THEOREM OnePost == Spec => []PostedOnce
<1>1. IInv => PostedOnce
  BY DEF IInv, Accounted, PostedOnce
<1> QED
  BY <1>1, Invariance, PTL

\* A saved result is pending or synced under one job, never both and never
\* neither, whichever command is killed between move_result_dir and the rest.
THEOREM NeverLostNorTwice == Spec => []OnePlace
<1>1. ASSUME IInv, NEW r \in Results, pc[r] \notin {"new", "payload"},
             payload[r] # "torn"
      PROVE  Cardinality(Copies(r)) + (IF payload[r] = "whole" THEN 1 ELSE 0) = 1
  <2>1. CASE payload[r] = "whole"
    <3>1. Copies(r) = {}
      BY <1>1, <2>1 DEF IInv, InPlace
    <3> QED
      BY <2>1, <3>1, FS_EmptySet
  <2>2. CASE payload[r] = "none"
    <3>1. PICK n \in Jobs : Copies(r) = {<<r, n>>}
      BY <1>1, <2>2 DEF IInv, InPlace
    <3>2. Cardinality(Copies(r)) = 1
      BY <3>1, FS_Singleton
    <3> QED
      BY <2>2, <3>2
  <2> QED
    BY <1>1, <2>1, <2>2 DEF IInv, TypeOK, DiskOK
<1>2. IInv => OnePlace
  BY <1>1 DEF OnePlace
<1> QED
  BY <1>2, Invariance, PTL

\* A directory under synced/, a marker and a metrics.json each name a job of the
\* server's, whoever wrote them and whenever it was killed.
THEOREM OnlyTheServersJobs == Spec => []SyncedIsFiled
<1>1. IInv => SyncedIsFiled
  BY DEF IInv
<1> QED
  BY <1>1, Invariance, PTL

\* The lock files of the results that have moved are gone once every command has
\* ended unkilled.
THEOREM LockFilesUnlinked == Spec => []NoLockFileLeft
<1>1. IInv => NoLockFileLeft
  BY DEF IInv, Unlinker, NoLockFileLeft
<1> QED
  BY <1>1, Invariance, PTL


=============================================================================
