-------------------------- MODULE ProxyPhoneProofs --------------------------
(***************************************************************************)
(* Theorems about ProxyPhone, for every set of phones, bundles and jobs,   *)
(* whatever the bundles provide, and every value of the bounds.            *)
(***************************************************************************)
EXTENDS ProxyPhone, TLAPS

\* A build that was chosen is one of the pool's.
LEMMA BuildInPool ==
    ASSUME NEW ix, NEW j, Providers(ix, j) # {}
    PROVE  Build(ix, j) \in Paths
BY DEF Build, Providers

\* The server leases jobs to phones.
LEMMA ServerStep ==
    ASSUME TypeOK, InHand, [Next]_vars
    PROVE  ServerOK'
<1>1. ASSUME UNCHANGED <<open, holder>> PROVE ServerOK'
  BY <1>1 DEF TypeOK, ServerOK, ThreadsOK, PhonesOK, InHand, Busy, Idling, Threads
<1>2. ASSUME NEW p \in Phones, NEW j \in Jobs, Claim(p, j) PROVE ServerOK'
  BY <1>2 DEF Claim, Set, Go, TypeOK, ServerOK, ThreadsOK, PhonesOK, InHand, Busy,
     Idling, Threads
<1>3. ASSUME NEW p \in Phones, NEW r \in todo[p], Settle(p, r) PROVE ServerOK'
  BY <1>3 DEF Settle, Set, Delete, serverVars, TypeOK, ServerOK, ThreadsOK,
     PhonesOK, InHand, Busy, Idling, Threads
<1>4. ASSUME NEW p \in Phones, Report(p) PROVE ServerOK'
  BY <1>4 DEF Report, Set, Go, serverVars, TypeOK, ServerOK, ThreadsOK, PhonesOK,
     InHand, Busy, Idling, Threads
<1>5. ASSUME NEW p \in Phones, Beat(p) PROVE ServerOK'
  BY <1>5 DEF Beat, Set, TypeOK, ServerOK, ThreadsOK, PhonesOK, InHand, Busy,
     Idling, Threads
<1>6. ASSUME NEW p \in Phones, AppUploads(p) PROVE ServerOK'
  BY <1>6 DEF AppUploads, Set, serverVars, TypeOK, ServerOK, ThreadsOK, PhonesOK,
     InHand, Busy, Idling, Threads
<1>7. ASSUME NEW j \in Jobs, LeaseLapses(j) PROVE ServerOK'
  BY <1>7 DEF LeaseLapses, Set, TypeOK, ServerOK, ThreadsOK, PhonesOK, InHand, Busy,
     Idling, Threads
<1>8. ASSUME NEW p \in Phones, Connect(p) \/ Refused(p) \/ Looks(p) \/ Idle(p) \/
   Check(p) \/ NoBuild(p) \/ Present(p) \/ Forget(p) \/ Install(p) \/
   InstallFails(p) \/ Verify(p) \/ Snapshot(p) \/ Launch(p) \/ RunEnds(p) \/
   SettleUploaded(p) \/ Collect(p) \/ Settled(p) \/ Between(p) \/ AppWrites(p) \/
   AppReports(p) \/ AppExits(p) \/ DeleteApp(p) PROVE UNCHANGED <<open, holder>>
  BY <1>8 DEF Connect, Go, serverVars, Refused, Looks, Idle, Check, NoBuild,
     Present, Forget, Set, Install, Bundle, InstallFails, Verify, Snapshot, Launch,
     RunEnds, SettleUploaded, Collect, Settled, Between, AppWrites, AppReports,
     AppExits, DeleteApp, Fault
<1>9. ASSUME Start \/ ReadInstalls \/ ReadEnds \/ ReadFails \/ ScanEnds \/ Ends \/
   Crash \/ Signal PROVE UNCHANGED <<open, holder>>
  BY <1>9 DEF Start, serverVars, ReadInstalls, Set, Bundle, ReadEnds, ReadFails,
     ScanEnds, Ends, Gone, Crash, Fault, Signal
<1>10. ASSUME NEW b \in Paths, Known(b) \/ ReadBegins(b) \/ Rebuild(b) PROVE
   UNCHANGED <<open, holder>>
  BY <1>10 DEF Known, serverVars, ReadBegins, Set, Rebuild
<1>11. CASE UNCHANGED vars
  BY <1>1, <1>11 DEF vars, serverVars
<1> QED
  BY <1>1, <1>2, <1>3, <1>4, <1>5, <1>6, <1>7, <1>8, <1>9, <1>10, <1>11 DEF Next,
     Thread, Calls, App, Process, Outside

\* The pool, its index and the installed records.
LEMMA DiskStep ==
    ASSUME TypeOK, Chosen, PoolFirst, [Next]_vars
    PROVE  DiskOK'
<1>1. ASSUME UNCHANGED <<disk, index, record>> PROVE DiskOK'
  BY <1>1 DEF TypeOK, DiskOK, PhonesOK, ProcOK, PoolFirst
<1>2. ASSUME NEW p \in Phones, Forget(p) PROVE DiskOK'
  BY <1>2, SetsAssumption DEF Forget, Set, Go, diskVars, TypeOK, DiskOK, PhonesOK,
     ProcOK, PoolFirst
<1>3. ASSUME NEW p \in Phones, Verify(p) PROVE DiskOK'
  <2>1. Build(index, job[p]) \in Paths
    BY <1>3, BuildInPool DEF Verify, Chosen
  <2> QED
    BY <1>3, <2>1 DEF Verify, Set, diskVars, TypeOK, DiskOK
<1>4. ASSUME ReadEnds PROVE DiskOK'
  BY <1>4, SetsAssumption DEF ReadEnds, Set, TypeOK, DiskOK, PhonesOK, ProcOK,
     PoolFirst
<1>5. ASSUME ScanEnds PROVE DiskOK'
  BY <1>5, SetsAssumption DEF ScanEnds, Set, diskVars, TypeOK, DiskOK, PhonesOK,
     ProcOK, PoolFirst
<1>6. ASSUME NEW b \in Paths, ReadBegins(b) PROVE DiskOK'
  BY <1>6, SetsAssumption DEF ReadBegins, Set, diskVars, TypeOK, DiskOK, PhonesOK,
     ProcOK, PoolFirst
<1>7. ASSUME NEW b \in Paths, Rebuild(b) PROVE DiskOK'
  BY <1>7, SetsAssumption DEF Rebuild, Set, TypeOK, DiskOK, PhonesOK, ProcOK,
     PoolFirst
<1>8. ASSUME NEW p \in Phones, Connect(p) \/ Refused(p) \/ Looks(p) \/ Idle(p) \/
   Check(p) \/ NoBuild(p) \/ Present(p) \/ Install(p) \/ InstallFails(p) \/
   Snapshot(p) \/ Launch(p) \/ RunEnds(p) \/ SettleUploaded(p) \/ Collect(p) \/
   Settled(p) \/ Report(p) \/ Between(p) \/ Beat(p) \/ AppWrites(p) \/ AppUploads(p)
   \/ AppReports(p) \/ AppExits(p) \/ DeleteApp(p) PROVE UNCHANGED <<disk, index,
   record>>
  BY <1>8 DEF Connect, Go, diskVars, Refused, Looks, Idle, Check, NoBuild, Present,
     Install, Set, Bundle, InstallFails, Snapshot, Launch, RunEnds, SettleUploaded,
     Collect, Settled, Report, Between, Beat, AppWrites, AppUploads, AppReports,
     AppExits, DeleteApp, Fault
<1>9. ASSUME NEW p \in Phones, NEW j \in Jobs, Claim(p, j) PROVE UNCHANGED <<disk,
   index, record>>
  BY <1>9 DEF Claim, Set, Go, diskVars
<1>10. ASSUME NEW p \in Phones, NEW r \in todo[p], Settle(p, r) PROVE UNCHANGED
   <<disk, index, record>>
  BY <1>10 DEF Settle, Set, Delete, diskVars
<1>11. ASSUME Start \/ ReadInstalls \/ ReadFails \/ Ends \/ Crash \/ Signal PROVE
   UNCHANGED <<disk, index, record>>
  BY <1>11 DEF Start, diskVars, ReadInstalls, Set, Bundle, ReadFails, Ends, Gone,
     Crash, Fault, Signal
<1>12. ASSUME NEW b \in Paths, Known(b) PROVE UNCHANGED <<disk, index, record>>
  BY <1>12 DEF Known, diskVars
<1>13. ASSUME NEW j \in Jobs, LeaseLapses(j) PROVE UNCHANGED <<disk, index, record>>
  BY <1>13 DEF LeaseLapses, Set, diskVars
<1>14. CASE UNCHANGED vars
  BY <1>1, <1>14 DEF vars, diskVars
<1> QED
  BY <1>1, <1>2, <1>3, <1>4, <1>5, <1>6, <1>7, <1>8, <1>9, <1>10, <1>11, <1>12,
     <1>13, <1>14 DEF Next, Thread, Calls, App, Process, Outside

\* The apps, their runs and the results they keep.
LEMMA PhonesStep ==
    ASSUME TypeOK, InHand, Chosen, PoolFirst, [Next]_vars
    PROVE  PhonesOK'
<1>1. ASSUME UNCHANGED <<app, runner, results>> PROVE PhonesOK'
  BY <1>1 DEF TypeOK, PhonesOK, ThreadsOK, Kept
<1>2. ASSUME NEW p \in Phones, Install(p) PROVE PhonesOK'
  <2>1. Build(index, job[p]) \in Paths
    BY <1>2, BuildInPool DEF Install, Chosen
  <2>2. Bundle(Build(index, job[p])) \in [path : Paths, bundle : Nat \ {0}]
    BY <2>1 DEF Bundle, TypeOK, DiskOK
  <2> QED
    BY <1>2, <2>2 DEF Install, Set, TypeOK, PhonesOK
<1>3. ASSUME NEW p \in Phones, InstallFails(p) PROVE PhonesOK'
  <2>1. Build(index, job[p]) \in Paths
    BY <1>3, BuildInPool DEF InstallFails, Chosen
  <2>2. Bundle(Build(index, job[p])) \in [path : Paths, bundle : Nat \ {0}]
    BY <2>1 DEF Bundle, TypeOK, DiskOK
  <2> QED
    BY <1>3, <2>2 DEF InstallFails, Set, TypeOK, PhonesOK
<1>4. ASSUME NEW p \in Phones, Verify(p) PROVE PhonesOK'
  BY <1>4, SetsAssumption DEF Verify, FailedCall, Set, Go, TypeOK, PhonesOK, ThreadsOK, Kept
<1>5. ASSUME NEW p \in Phones, Snapshot(p) PROVE PhonesOK'
  BY <1>5, SetsAssumption DEF Snapshot, FailedCall, Set, Go, TypeOK, PhonesOK,
     ThreadsOK, Kept
<1>6. ASSUME NEW p \in Phones, Launch(p) PROVE PhonesOK'
  <2>1. job[p] \in Jobs /\ num[p] \in 1 .. MaxClaims
    BY <1>6 DEF Launch, InHand, Busy, Idling, Threads
  <2> QED
    BY <1>6, <2>1 DEF Launch, Set, TypeOK, PhonesOK
<1>7. ASSUME NEW p \in Phones, SettleUploaded(p) PROVE PhonesOK'
  BY <1>7, SetsAssumption DEF SettleUploaded, FailedCall, Set, Go, TypeOK, PhonesOK,
     ThreadsOK, Kept
<1>8. ASSUME NEW p \in Phones, Collect(p) PROVE PhonesOK'
  BY <1>8, SetsAssumption DEF Collect, FailedCall, Set, Go, TypeOK, PhonesOK,
     ThreadsOK, Kept
<1>9. ASSUME NEW p \in Phones, NEW r \in todo[p], Settle(p, r) PROVE PhonesOK'
  BY <1>9, SetsAssumption DEF Settle, Set, Delete, TypeOK, PhonesOK, ThreadsOK, Kept
<1>10. ASSUME NEW p \in Phones, AppWrites(p) PROVE PhonesOK'
  <2>1. runner[p].run \in 1 .. MaxClaims /\ runner[p].job \in Jobs
    BY <1>10 DEF AppWrites, TypeOK, PhonesOK
  <2>2. [run |-> runner[p].run, job |-> runner[p].job, sub |-> FALSE] \in Kept
    BY <2>1 DEF Kept
  <2>3. results' \in [Phones -> SUBSET Kept]
    BY <1>10, <2>2 DEF AppWrites, Set, TypeOK, PhonesOK
  <2>4. runner' \in [Phones -> {None} \cup
                        [run : 1 .. MaxClaims, job : Jobs,
                         at : {"working", "written", "uploaded", "finished"}]]
    BY <1>10 DEF AppWrites, TypeOK, PhonesOK
  <2> QED
    BY <1>10, <2>3, <2>4 DEF AppWrites, TypeOK, PhonesOK
<1>11. ASSUME NEW p \in Phones, AppUploads(p) PROVE PhonesOK'
  <2> DEFINE r == [run |-> runner[p].run, job |-> runner[p].job, sub |-> FALSE]
             s == [r EXCEPT !.sub = TRUE]
  <2>1. runner[p].run \in 1 .. MaxClaims /\ runner[p].job \in Jobs
    BY <1>11 DEF AppUploads, TypeOK, PhonesOK
  <2>2. s \in Kept
    BY <2>1 DEF Kept
  <2>3. results' \in {results, Set(results, p, (results[p] \ {r}) \cup {s})}
    BY <1>11 DEF AppUploads
  <2>4. results' \in [Phones -> SUBSET Kept]
    <3> HIDE DEF s
    <3> QED
      BY <2>2, <2>3 DEF Set, TypeOK, PhonesOK
  <2>5. \E at \in {"uploaded", "finished"} : runner' = [runner EXCEPT ![p].at = at]
    BY <1>11 DEF AppUploads
  <2>6. runner' \in [Phones -> {None} \cup
                        [run : 1 .. MaxClaims, job : Jobs,
                         at : {"working", "written", "uploaded", "finished"}]]
    BY <1>11, <2>5 DEF AppUploads, TypeOK, PhonesOK
  <2>7. UNCHANGED app
    BY <1>11 DEF AppUploads
  <2> QED
    BY <2>4, <2>6, <2>7 DEF TypeOK, PhonesOK
<1>12. ASSUME NEW p \in Phones, AppReports(p) PROVE PhonesOK'
  BY <1>12, SetsAssumption DEF AppReports, TypeOK, PhonesOK, ThreadsOK, Kept
<1>13. ASSUME NEW p \in Phones, AppExits(p) PROVE PhonesOK'
  BY <1>13, SetsAssumption DEF AppExits, Set, TypeOK, PhonesOK, ThreadsOK, Kept
<1>14. ASSUME ReadInstalls PROVE PhonesOK'
  <2>1. Bundle(reading.path) \in [path : Paths, bundle : Nat \ {0}]
    BY <1>14 DEF ReadInstalls, PoolFirst, Bundle, TypeOK, DiskOK
  <2> QED
    BY <1>14, <2>1 DEF ReadInstalls, Set, TypeOK, PhonesOK
<1>15. ASSUME NEW p \in Phones, DeleteApp(p) PROVE PhonesOK'
  BY <1>15, SetsAssumption DEF DeleteApp, Fault, Set, TypeOK, PhonesOK, ThreadsOK,
     Kept
<1>16. ASSUME NEW p \in Phones, Connect(p) \/ Refused(p) \/ Looks(p) \/ Idle(p) \/
   Check(p) \/ NoBuild(p) \/ Present(p) \/ Forget(p) \/ RunEnds(p) \/ Settled(p) \/
   Report(p) \/ Between(p) \/ Beat(p) PROVE UNCHANGED <<app, runner, results>>
  BY <1>16 DEF Connect, Go, phoneVars, Refused, Looks, Idle, Check, NoBuild,
     Present, Forget, Set, RunEnds, Settled, Report, Between, Beat
<1>17. ASSUME NEW p \in Phones, NEW j \in Jobs, Claim(p, j) PROVE UNCHANGED <<app,
   runner, results>>
  BY <1>17 DEF Claim, Set, Go, phoneVars
<1>18. ASSUME Start \/ ReadEnds \/ ReadFails \/ ScanEnds \/ Ends \/ Crash \/ Signal
   PROVE UNCHANGED <<app, runner, results>>
  BY <1>18 DEF Start, phoneVars, ReadEnds, Set, ReadFails, ScanEnds, Ends, Gone,
     Crash, Fault, Signal
<1>19. ASSUME NEW b \in Paths, Known(b) \/ ReadBegins(b) \/ Rebuild(b) PROVE
   UNCHANGED <<app, runner, results>>
  BY <1>19 DEF Known, phoneVars, ReadBegins, Set, Rebuild
<1>20. ASSUME NEW j \in Jobs, LeaseLapses(j) PROVE UNCHANGED <<app, runner,
   results>>
  BY <1>20 DEF LeaseLapses, Set, phoneVars
<1>21. CASE UNCHANGED vars
  BY <1>1, <1>21 DEF vars, phoneVars
<1> QED
  BY <1>1, <1>2, <1>3, <1>4, <1>5, <1>6, <1>7, <1>8, <1>9, <1>10, <1>11, <1>12,
     <1>13, <1>14, <1>15, <1>16, <1>17, <1>18, <1>19, <1>20, <1>21 DEF Next, Thread, Calls,
     App, Process, Outside

\* The process and the pool it reads.
LEMMA ProcStep ==
    ASSUME TypeOK, PoolFirst, [Next]_vars
    PROVE  ProcOK'
<1>1. ASSUME UNCHANGED <<proc, unread, reading, last, stop>> PROVE ProcOK'
  BY <1>1 DEF TypeOK, ProcOK, DiskOK
<1>2. ASSUME Start PROVE ProcOK'
  BY <1>2 DEF Start, TypeOK, ProcOK, DiskOK
<1>3. ASSUME ReadInstalls PROVE ProcOK'
  BY <1>3 DEF ReadInstalls, Set, Bundle, TypeOK, ProcOK, DiskOK
<1>4. ASSUME ReadEnds PROVE ProcOK'
  <2>1. reading.path \in Paths
    BY <1>4 DEF ReadEnds, PoolFirst
  <2> QED
    BY <1>4, <2>1 DEF ReadEnds, TypeOK, ProcOK
<1>5. ASSUME ReadFails PROVE ProcOK'
  BY <1>5 DEF ReadFails, TypeOK, ProcOK, DiskOK
<1>6. ASSUME ScanEnds PROVE ProcOK'
  BY <1>6 DEF ScanEnds, Set, TypeOK, ProcOK, DiskOK
<1>7. ASSUME Ends PROVE ProcOK'
  BY <1>7 DEF Ends, Gone, TypeOK, ProcOK, DiskOK
<1>8. ASSUME NEW b \in Paths, Known(b) PROVE ProcOK'
  BY <1>8 DEF Known, TypeOK, ProcOK, DiskOK
<1>9. ASSUME NEW b \in Paths, ReadBegins(b) PROVE ProcOK'
  BY <1>9 DEF ReadBegins, Set, TypeOK, ProcOK, DiskOK
<1>10. ASSUME Crash PROVE ProcOK'
  BY <1>10 DEF Crash, Fault, Gone, TypeOK, ProcOK, DiskOK
<1>11. ASSUME Signal PROVE ProcOK'
  BY <1>11 DEF Signal, TypeOK, ProcOK, DiskOK
<1>12. ASSUME NEW p \in Phones, Connect(p) \/ Refused(p) \/ Looks(p) \/ Idle(p) \/
   Check(p) \/ NoBuild(p) \/ Present(p) \/ Forget(p) \/ Install(p) \/
   InstallFails(p) \/ Verify(p) \/ Snapshot(p) \/ Launch(p) \/ RunEnds(p) \/
   SettleUploaded(p) \/ Collect(p) \/ Settled(p) \/ Report(p) \/ Between(p) \/
   Beat(p) \/ AppWrites(p) \/ AppUploads(p) \/ AppReports(p) \/ AppExits(p) \/
   DeleteApp(p) PROVE UNCHANGED <<proc, unread, reading, last, stop>>
  BY <1>12 DEF Connect, Go, procVars, Refused, Looks, Idle, Check, NoBuild, Present,
     Forget, Set, Install, Bundle, InstallFails, Verify, Snapshot, Launch, RunEnds,
     SettleUploaded, Collect, Settled, Report, Between, Beat, AppWrites, AppUploads,
     AppReports, AppExits, DeleteApp, Fault
<1>13. ASSUME NEW p \in Phones, NEW j \in Jobs, Claim(p, j) PROVE UNCHANGED <<proc,
   unread, reading, last, stop>>
  BY <1>13 DEF Claim, Set, Go, procVars
<1>14. ASSUME NEW p \in Phones, NEW r \in todo[p], Settle(p, r) PROVE UNCHANGED
   <<proc, unread, reading, last, stop>>
  BY <1>14 DEF Settle, Set, Delete, procVars
<1>15. ASSUME NEW j \in Jobs, LeaseLapses(j) PROVE UNCHANGED <<proc, unread,
   reading, last, stop>>
  BY <1>15 DEF LeaseLapses, Set, procVars
<1>16. ASSUME NEW b \in Paths, Rebuild(b) PROVE UNCHANGED <<proc, unread, reading,
   last, stop>>
  BY <1>16 DEF Rebuild, Set, procVars
<1>17. CASE UNCHANGED vars
  BY <1>1, <1>17 DEF vars, procVars
<1> QED
  BY <1>1, <1>2, <1>3, <1>4, <1>5, <1>6, <1>7, <1>8, <1>9, <1>10, <1>11, <1>12,
     <1>13, <1>14, <1>15, <1>16, <1>17 DEF Next, Thread, Calls, App, Process, Outside

\* The threads, their claims and what they have listed.
LEMMA ThreadsStep ==
    ASSUME TypeOK, InHand, [Next]_vars
    PROVE  ThreadsOK'
<1>1. ASSUME UNCHANGED <<pc, job, num, taken, before, beating, lost, halt, todo>>
   PROVE ThreadsOK'
  BY <1>1 DEF TypeOK, ThreadsOK, PhonesOK, Kept, Threads
<1>2. ASSUME NEW p \in Phones, Connect(p) PROVE ThreadsOK'
  BY <1>2 DEF Connect, Go, claimVars, runVars, TypeOK, ThreadsOK, PhonesOK, Kept,
     Threads
<1>3. ASSUME NEW p \in Phones, Refused(p) PROVE ThreadsOK'
  BY <1>3 DEF Refused, Go, claimVars, runVars, TypeOK, ThreadsOK, PhonesOK, Kept,
     Threads
<1>4. ASSUME NEW p \in Phones, Looks(p) PROVE ThreadsOK'
  BY <1>4 DEF Looks, Go, claimVars, runVars, TypeOK, ThreadsOK, PhonesOK, Kept,
     Threads
<1>5. ASSUME NEW p \in Phones, Idle(p) PROVE ThreadsOK'
  BY <1>5 DEF Idle, Go, claimVars, runVars, TypeOK, ThreadsOK, PhonesOK, Kept,
     Threads
<1>6. ASSUME NEW p \in Phones, NEW j \in Jobs, Claim(p, j) PROVE ThreadsOK'
  <2>1. claims + 1 \in 0 .. MaxClaims /\ taken[p] + 1 \in Nat
    BY <1>6, BoundsAssumption DEF Claim, TypeOK, CountsOK, ThreadsOK
  <2> QED
    BY <1>6, <2>1 DEF Claim, Set, Go, runVars, TypeOK, ThreadsOK, Threads
<1>7. ASSUME NEW p \in Phones, Check(p) PROVE ThreadsOK'
  BY <1>7 DEF Check, Go, claimVars, runVars, TypeOK, ThreadsOK, PhonesOK, Kept,
     Threads
<1>8. ASSUME NEW p \in Phones, NoBuild(p) PROVE ThreadsOK'
  BY <1>8 DEF NoBuild, Go, claimVars, runVars, TypeOK, ThreadsOK, PhonesOK, Kept,
     Threads
<1>9. ASSUME NEW p \in Phones, Present(p) PROVE ThreadsOK'
  BY <1>9 DEF Present, Go, claimVars, runVars, TypeOK, ThreadsOK, PhonesOK, Kept,
     Threads
<1>10. ASSUME NEW p \in Phones, Forget(p) PROVE ThreadsOK'
  BY <1>10 DEF Forget, Set, Go, claimVars, runVars, TypeOK, ThreadsOK, PhonesOK,
     Kept, Threads
<1>11. ASSUME NEW p \in Phones, Install(p) PROVE ThreadsOK'
  BY <1>11 DEF Install, Set, Bundle, Go, claimVars, runVars, TypeOK, ThreadsOK,
     PhonesOK, Kept, Threads
<1>12. ASSUME NEW p \in Phones, InstallFails(p) PROVE ThreadsOK'
  BY <1>12 DEF InstallFails, Set, Bundle, Go, claimVars, runVars, TypeOK, ThreadsOK,
     PhonesOK, Kept, Threads
<1>13. ASSUME NEW p \in Phones, Verify(p) PROVE ThreadsOK'
  BY <1>13 DEF Verify, FailedCall, Set, Go, claimVars, TypeOK, ThreadsOK, PhonesOK, Kept,
     Threads
<1>14. ASSUME NEW p \in Phones, Snapshot(p) PROVE ThreadsOK'
  BY <1>14 DEF Snapshot, FailedCall, Set, Go, claimVars, TypeOK, ThreadsOK, PhonesOK, Kept,
     Threads
<1>15. ASSUME NEW p \in Phones, Launch(p) PROVE ThreadsOK'
  BY <1>15 DEF Launch, Set, Go, claimVars, runVars, TypeOK, ThreadsOK, PhonesOK,
     Kept, Threads
<1>16. ASSUME NEW p \in Phones, RunEnds(p) PROVE ThreadsOK'
  BY <1>16 DEF RunEnds, Go, claimVars, TypeOK, ThreadsOK, PhonesOK, Kept, Threads
<1>17. ASSUME NEW p \in Phones, SettleUploaded(p) PROVE ThreadsOK'
  BY <1>17 DEF SettleUploaded, Set, Go, claimVars, runVars, TypeOK, ThreadsOK,
     PhonesOK, Kept, Threads
<1>18. ASSUME NEW p \in Phones, Collect(p) PROVE ThreadsOK'
  <2>1. Fresh(p) \subseteq Kept
    BY DEF Fresh, TypeOK, PhonesOK
  <2> QED
    BY <1>18, <2>1 DEF Collect, Set, Go, claimVars, TypeOK, ThreadsOK, Threads
<1>19. ASSUME NEW p \in Phones, NEW r \in todo[p], Settle(p, r) PROVE ThreadsOK'
  BY <1>19 DEF Settle, Set, Delete, claimVars, TypeOK, ThreadsOK, PhonesOK, Kept,
     Threads
<1>20. ASSUME NEW p \in Phones, Settled(p) PROVE ThreadsOK'
  BY <1>20 DEF Settled, Go, claimVars, runVars, TypeOK, ThreadsOK, PhonesOK, Kept,
     Threads
<1>21. ASSUME NEW p \in Phones, Report(p) PROVE ThreadsOK'
  BY <1>21 DEF Report, Set, Go, claimVars, runVars, TypeOK, ThreadsOK, PhonesOK,
     Kept, Threads
<1>22. ASSUME NEW p \in Phones, Between(p) PROVE ThreadsOK'
  <2>1. 0 \in 0 .. MaxClaims
    BY BoundsAssumption
  <2> QED
    BY <1>22, <2>1 DEF Between, Set, Go, TypeOK, ThreadsOK, Threads
<1>23. ASSUME NEW p \in Phones, Beat(p) PROVE ThreadsOK'
  BY <1>23 DEF Beat, Set, claimVars, TypeOK, ThreadsOK, PhonesOK, Kept, Threads
<1>24. ASSUME NEW p \in Phones, AppReports(p) PROVE ThreadsOK'
  BY <1>24 DEF AppReports, claimVars, TypeOK, ThreadsOK, PhonesOK, Kept, Threads
<1>25. ASSUME ScanEnds PROVE ThreadsOK'
  BY <1>25 DEF ScanEnds, Set, claimVars, runVars, TypeOK, ThreadsOK, PhonesOK, Kept,
     Threads
<1>26. ASSUME Ends PROVE ThreadsOK'
  <2>1. 0 \in 0 .. MaxClaims
    BY BoundsAssumption
  <2> QED
    BY <1>26, <2>1 DEF Ends, Gone, ThreadsOK, Threads
<1>27. ASSUME Crash PROVE ThreadsOK'
  <2>1. 0 \in 0 .. MaxClaims
    BY BoundsAssumption
  <2> QED
    BY <1>27, <2>1 DEF Crash, Gone, ThreadsOK, Threads
<1>28. ASSUME NEW p \in Phones, AppWrites(p) \/ AppUploads(p) \/ AppExits(p) \/
   DeleteApp(p) PROVE UNCHANGED <<pc, job, num, taken, before, beating, lost, halt,
   todo>>
  BY <1>28 DEF AppWrites, Set, claimVars, runVars, AppUploads, AppExits, DeleteApp,
     Fault
<1>29. ASSUME Start \/ ReadInstalls \/ ReadEnds \/ ReadFails \/ Signal PROVE
   UNCHANGED <<pc, job, num, taken, before, beating, lost, halt, todo>>
  BY <1>29 DEF Start, claimVars, runVars, ReadInstalls, Set, Bundle, ReadEnds,
     ReadFails, Signal
<1>30. ASSUME NEW b \in Paths, Known(b) \/ ReadBegins(b) \/ Rebuild(b) PROVE
   UNCHANGED <<pc, job, num, taken, before, beating, lost, halt, todo>>
  BY <1>30 DEF Known, claimVars, runVars, ReadBegins, Set, Rebuild
<1>31. ASSUME NEW j \in Jobs, LeaseLapses(j) PROVE UNCHANGED <<pc, job, num, taken,
   before, beating, lost, halt, todo>>
  BY <1>31 DEF LeaseLapses, Set, claimVars, runVars
<1>32. CASE UNCHANGED vars
  BY <1>1, <1>32 DEF vars, claimVars, runVars
<1> QED
  BY <1>1, <1>2, <1>3, <1>4, <1>5, <1>6, <1>7, <1>8, <1>9, <1>10, <1>11, <1>12,
     <1>13, <1>14, <1>15, <1>16, <1>17, <1>18, <1>19, <1>20, <1>21, <1>22, <1>23,
     <1>24, <1>25, <1>26, <1>27, <1>28, <1>29, <1>30, <1>31, <1>32 DEF Next, Thread, Calls,
     App, Process, Outside

\* The bounds hold.
LEMMA CountsStep ==
    ASSUME TypeOK, [Next]_vars
    PROVE  CountsOK'
<1>1. ASSUME UNCHANGED <<claims, lapses, faults>> PROVE CountsOK'
  BY <1>1 DEF TypeOK, CountsOK
<1>2. ASSUME NEW p \in Phones, NEW j \in Jobs, Claim(p, j) PROVE CountsOK'
  BY <1>2, BoundsAssumption DEF Claim, Set, Go, TypeOK, CountsOK
<1>3. ASSUME Crash PROVE CountsOK'
  BY <1>3, BoundsAssumption DEF Crash, Fault, Gone, TypeOK, CountsOK
<1>4. ASSUME NEW j \in Jobs, LeaseLapses(j) PROVE CountsOK'
  BY <1>4, BoundsAssumption DEF LeaseLapses, Set, TypeOK, CountsOK
<1>5. ASSUME NEW p \in Phones, DeleteApp(p) PROVE CountsOK'
  BY <1>5, BoundsAssumption DEF DeleteApp, Fault, Set, TypeOK, CountsOK
<1>6. ASSUME NEW p \in Phones, Connect(p) \/ Refused(p) \/ Looks(p) \/ Idle(p) \/
   Check(p) \/ NoBuild(p) \/ Present(p) \/ Forget(p) \/ Install(p) \/
   InstallFails(p) \/ Verify(p) \/ Snapshot(p) \/ Launch(p) \/ RunEnds(p) \/
   SettleUploaded(p) \/ Collect(p) \/ Settled(p) \/ Report(p) \/ Between(p) \/
   Beat(p) \/ AppWrites(p) \/ AppUploads(p) \/ AppReports(p) \/ AppExits(p) PROVE
   UNCHANGED <<claims, lapses, faults>>
  BY <1>6 DEF Connect, Go, counts, Refused, Looks, Idle, Check, NoBuild, Present,
     Forget, Set, Install, Bundle, InstallFails, Verify, Snapshot, Launch, RunEnds,
     SettleUploaded, Collect, Settled, Report, Between, Beat, AppWrites, AppUploads,
     AppReports, AppExits
<1>7. ASSUME NEW p \in Phones, NEW r \in todo[p], Settle(p, r) PROVE UNCHANGED
   <<claims, lapses, faults>>
  BY <1>7 DEF Settle, Set, Delete, counts
<1>8. ASSUME Start \/ ReadInstalls \/ ReadEnds \/ ReadFails \/ ScanEnds \/ Ends \/
   Signal PROVE UNCHANGED <<claims, lapses, faults>>
  BY <1>8 DEF Start, counts, ReadInstalls, Set, Bundle, ReadEnds, ReadFails,
     ScanEnds, Ends, Gone, Signal
<1>9. ASSUME NEW b \in Paths, Known(b) \/ ReadBegins(b) \/ Rebuild(b) PROVE
   UNCHANGED <<claims, lapses, faults>>
  BY <1>9 DEF Known, counts, ReadBegins, Set, Rebuild
<1>10. CASE UNCHANGED vars
  BY <1>1, <1>10 DEF vars, counts
<1> QED
  BY <1>1, <1>2, <1>3, <1>4, <1>5, <1>6, <1>7, <1>8, <1>9, <1>10 DEF Next, Thread, Calls,
     App, Process, Outside

\* A thread keeps what its step needs.
LEMMA InHandStep ==
    ASSUME TypeOK, InHand, PoolFirst, [Next]_vars
    PROVE  InHand'
<1>1. ASSUME UNCHANGED <<pc, job, num, beating, lost>> PROVE InHand'
  BY <1>1 DEF TypeOK, ThreadsOK, CountsOK, InHand, PoolFirst, Busy, Idling, Threads
<1>2. ASSUME NEW p \in Phones, Connect(p) PROVE InHand'
  BY <1>2 DEF Connect, Go, claimVars, runVars, TypeOK, ThreadsOK, CountsOK, InHand,
     PoolFirst, Busy, Idling, Threads
<1>3. ASSUME NEW p \in Phones, Refused(p) PROVE InHand'
  BY <1>3 DEF Refused, Go, claimVars, runVars, TypeOK, ThreadsOK, CountsOK, InHand,
     PoolFirst, Busy, Idling, Threads
<1>4. ASSUME NEW p \in Phones, Looks(p) PROVE InHand'
  BY <1>4 DEF Looks, Go, claimVars, runVars, TypeOK, ThreadsOK, CountsOK, InHand,
     PoolFirst, Busy, Idling, Threads
<1>5. ASSUME NEW p \in Phones, Idle(p) PROVE InHand'
  BY <1>5 DEF Idle, Go, claimVars, runVars, TypeOK, ThreadsOK, CountsOK, InHand,
     PoolFirst, Busy, Idling, Threads
<1>6. ASSUME NEW p \in Phones, NEW j \in Jobs, Claim(p, j) PROVE InHand'
  <2>1. claims + 1 \in 1 .. MaxClaims
    BY <1>6, BoundsAssumption DEF Claim, TypeOK, CountsOK
  <2> QED
    BY <1>6, <2>1 DEF Claim, Set, Go, runVars, TypeOK, ThreadsOK, InHand, Busy, Idling,
       Threads
<1>7. ASSUME NEW p \in Phones, Check(p) PROVE InHand'
  BY <1>7 DEF Check, Go, claimVars, runVars, TypeOK, ThreadsOK, CountsOK, InHand,
     PoolFirst, Busy, Idling, Threads
<1>8. ASSUME NEW p \in Phones, NoBuild(p) PROVE InHand'
  BY <1>8 DEF NoBuild, Go, claimVars, runVars, TypeOK, ThreadsOK, CountsOK, InHand,
     PoolFirst, Busy, Idling, Threads
<1>9. ASSUME NEW p \in Phones, Present(p) PROVE InHand'
  BY <1>9 DEF Present, Go, claimVars, runVars, TypeOK, ThreadsOK, CountsOK, InHand,
     PoolFirst, Busy, Idling, Threads
<1>10. ASSUME NEW p \in Phones, Forget(p) PROVE InHand'
  BY <1>10 DEF Forget, Set, Go, claimVars, runVars, TypeOK, ThreadsOK, CountsOK,
     InHand, PoolFirst, Busy, Idling, Threads
<1>11. ASSUME NEW p \in Phones, Install(p) PROVE InHand'
  BY <1>11 DEF Install, Set, Bundle, Go, claimVars, runVars, TypeOK, ThreadsOK,
     CountsOK, InHand, PoolFirst, Busy, Idling, Threads
<1>12. ASSUME NEW p \in Phones, InstallFails(p) PROVE InHand'
  BY <1>12 DEF InstallFails, Set, Bundle, Go, claimVars, runVars, TypeOK, ThreadsOK,
     CountsOK, InHand, PoolFirst, Busy, Idling, Threads
<1>13. ASSUME NEW p \in Phones, Verify(p) PROVE InHand'
  BY <1>13 DEF Verify, Set, Go, claimVars, TypeOK, ThreadsOK, CountsOK, InHand,
     PoolFirst, Busy, Idling, Threads
<1>14. ASSUME NEW p \in Phones, Snapshot(p) PROVE InHand'
  BY <1>14 DEF Snapshot, Set, Go, claimVars, TypeOK, ThreadsOK, CountsOK, InHand,
     PoolFirst, Busy, Idling, Threads
<1>15. ASSUME NEW p \in Phones, Launch(p) PROVE InHand'
  BY <1>15 DEF Launch, Set, Go, claimVars, runVars, TypeOK, ThreadsOK, CountsOK,
     InHand, PoolFirst, Busy, Idling, Threads
<1>16. ASSUME NEW p \in Phones, RunEnds(p) PROVE InHand'
  BY <1>16 DEF RunEnds, Go, claimVars, TypeOK, ThreadsOK, CountsOK, InHand,
     PoolFirst, Busy, Idling, Threads
<1>17. ASSUME NEW p \in Phones, SettleUploaded(p) PROVE InHand'
  BY <1>17 DEF SettleUploaded, Set, Go, claimVars, runVars, TypeOK, ThreadsOK,
     CountsOK, InHand, PoolFirst, Busy, Idling, Threads
<1>18. ASSUME NEW p \in Phones, Collect(p) PROVE InHand'
  BY <1>18 DEF Collect, Set, Go, claimVars, TypeOK, ThreadsOK, CountsOK, InHand,
     PoolFirst, Busy, Idling, Threads
<1>19. ASSUME NEW p \in Phones, Settled(p) PROVE InHand'
  BY <1>19 DEF Settled, Go, claimVars, runVars, TypeOK, ThreadsOK, CountsOK, InHand,
     PoolFirst, Busy, Idling, Threads
<1>20. ASSUME NEW p \in Phones, Report(p) PROVE InHand'
  BY <1>20 DEF Report, Set, Go, claimVars, runVars, TypeOK, ThreadsOK, CountsOK,
     InHand, PoolFirst, Busy, Idling, Threads
<1>21. ASSUME NEW p \in Phones, Between(p) PROVE InHand'
  BY <1>21 DEF Between, Set, Go, TypeOK, ThreadsOK, CountsOK, InHand, PoolFirst,
     Busy, Idling, Threads
<1>22. ASSUME NEW p \in Phones, Beat(p) PROVE InHand'
  BY <1>22 DEF Beat, Set, claimVars, TypeOK, ThreadsOK, CountsOK, InHand, PoolFirst,
     Busy, Idling, Threads
<1>23. ASSUME NEW p \in Phones, AppReports(p) PROVE InHand'
  BY <1>23 DEF AppReports, claimVars, TypeOK, ThreadsOK, CountsOK, InHand,
     PoolFirst, Busy, Idling, Threads
<1>24. ASSUME ScanEnds PROVE InHand'
  BY <1>24 DEF ScanEnds, Set, claimVars, runVars, TypeOK, ThreadsOK, CountsOK,
     InHand, PoolFirst, Busy, Idling, Threads
<1>25. ASSUME Ends PROVE InHand'
  BY <1>25 DEF Ends, Gone, TypeOK, ThreadsOK, CountsOK, InHand, PoolFirst, Busy,
     Idling, Threads
<1>26. ASSUME Crash PROVE InHand'
  BY <1>26 DEF Crash, Fault, Gone, TypeOK, ThreadsOK, CountsOK, InHand, PoolFirst,
     Busy, Idling, Threads
<1>27. ASSUME NEW p \in Phones, NEW r \in todo[p], Settle(p, r) PROVE UNCHANGED
   <<pc, job, num, beating, lost>>
  BY <1>27 DEF Settle, Set, Delete, claimVars
<1>28. ASSUME NEW p \in Phones, AppWrites(p) \/ AppUploads(p) \/ AppExits(p) \/
   DeleteApp(p) PROVE UNCHANGED <<pc, job, num, beating, lost>>
  BY <1>28 DEF AppWrites, Set, claimVars, runVars, AppUploads, AppExits, DeleteApp,
     Fault
<1>29. ASSUME Start \/ ReadInstalls \/ ReadEnds \/ ReadFails \/ Signal PROVE
   UNCHANGED <<pc, job, num, beating, lost>>
  BY <1>29 DEF Start, claimVars, runVars, ReadInstalls, Set, Bundle, ReadEnds,
     ReadFails, Signal
<1>30. ASSUME NEW b \in Paths, Known(b) \/ ReadBegins(b) \/ Rebuild(b) PROVE
   UNCHANGED <<pc, job, num, beating, lost>>
  BY <1>30 DEF Known, claimVars, runVars, ReadBegins, Set, Rebuild
<1>31. ASSUME NEW j \in Jobs, LeaseLapses(j) PROVE UNCHANGED <<pc, job, num,
   beating, lost>>
  BY <1>31 DEF LeaseLapses, Set, claimVars, runVars
<1>32. CASE UNCHANGED vars
  BY <1>1, <1>32 DEF vars, claimVars, runVars
<1> QED
  BY <1>1, <1>2, <1>3, <1>4, <1>5, <1>6, <1>7, <1>8, <1>9, <1>10, <1>11, <1>12,
     <1>13, <1>14, <1>15, <1>16, <1>17, <1>18, <1>19, <1>20, <1>21, <1>22, <1>23,
     <1>24, <1>25, <1>26, <1>27, <1>28, <1>29, <1>30, <1>31, <1>32 DEF Next, Thread, Calls,
     App, Process, Outside

\* The pool's index does not change under a thread that has chosen a build.
LEMMA ChosenStep ==
    ASSUME TypeOK, InHand, Chosen, PoolFirst, [Next]_vars
    PROVE  Chosen'
<1>1. ASSUME UNCHANGED <<index, record, app, pc, job>> PROVE Chosen'
  BY <1>1 DEF TypeOK, ThreadsOK, PhonesOK, DiskOK, InHand, Chosen, PoolFirst,
     HasBuild, Busy, Idling, Threads
<1>2. ASSUME NEW p \in Phones, Connect(p) PROVE Chosen'
  BY <1>2 DEF Connect, Go, diskVars, phoneVars, claimVars, TypeOK, ThreadsOK,
     PhonesOK, DiskOK, InHand, Chosen, PoolFirst, HasBuild, Busy, Idling, Threads
<1>3. ASSUME NEW p \in Phones, Refused(p) PROVE Chosen'
  BY <1>3 DEF Refused, Go, diskVars, phoneVars, claimVars, TypeOK, ThreadsOK,
     PhonesOK, DiskOK, InHand, Chosen, PoolFirst, HasBuild, Busy, Idling, Threads
<1>4. ASSUME NEW p \in Phones, Looks(p) PROVE Chosen'
  BY <1>4 DEF Looks, Go, diskVars, phoneVars, claimVars, TypeOK, ThreadsOK,
     PhonesOK, DiskOK, InHand, Chosen, PoolFirst, HasBuild, Busy, Idling, Threads
<1>5. ASSUME NEW p \in Phones, Idle(p) PROVE Chosen'
  BY <1>5 DEF Idle, Go, diskVars, phoneVars, claimVars, TypeOK, ThreadsOK, PhonesOK,
     DiskOK, InHand, Chosen, PoolFirst, HasBuild, Busy, Idling, Threads
<1>6. ASSUME NEW p \in Phones, NEW j \in Jobs, Claim(p, j) PROVE Chosen'
  BY <1>6 DEF Claim, Set, Go, diskVars, phoneVars, TypeOK, ThreadsOK, PhonesOK,
     DiskOK, InHand, Chosen, PoolFirst, HasBuild, Busy, Idling, Threads
<1>7. ASSUME NEW p \in Phones, Check(p) PROVE Chosen'
  BY <1>7 DEF Check, Go, diskVars, phoneVars, claimVars, TypeOK, ThreadsOK,
     PhonesOK, DiskOK, InHand, Chosen, PoolFirst, HasBuild, Busy, Idling, Threads
<1>8. ASSUME NEW p \in Phones, NoBuild(p) PROVE Chosen'
  BY <1>8 DEF NoBuild, Go, diskVars, phoneVars, claimVars, TypeOK, ThreadsOK,
     PhonesOK, DiskOK, InHand, Chosen, PoolFirst, HasBuild, Busy, Idling, Threads
<1>9. ASSUME NEW p \in Phones, Present(p) PROVE Chosen'
  BY <1>9 DEF Present, Go, diskVars, phoneVars, claimVars, TypeOK, ThreadsOK,
     PhonesOK, DiskOK, InHand, Chosen, PoolFirst, HasBuild, Busy, Idling, Threads
<1>10. ASSUME NEW p \in Phones, Forget(p) PROVE Chosen'
  BY <1>10 DEF Forget, Set, Go, diskVars, phoneVars, claimVars, TypeOK, ThreadsOK,
     PhonesOK, DiskOK, InHand, Chosen, PoolFirst, HasBuild, Busy, Idling, Threads
<1>11. ASSUME NEW p \in Phones, Install(p) PROVE Chosen'
  BY <1>11 DEF Install, Set, Bundle, Go, diskVars, claimVars, TypeOK, ThreadsOK,
     PhonesOK, DiskOK, InHand, Chosen, PoolFirst, HasBuild, Busy, Idling, Threads
<1>12. ASSUME NEW p \in Phones, InstallFails(p) PROVE Chosen'
  BY <1>12 DEF InstallFails, Set, Bundle, Go, diskVars, claimVars, TypeOK,
     ThreadsOK, PhonesOK, DiskOK, InHand, Chosen, PoolFirst, HasBuild, Busy, Idling,
     Threads
<1>13. ASSUME NEW p \in Phones, Verify(p) PROVE Chosen'
  BY <1>13 DEF Verify, FailedCall, Set, Go, diskVars, claimVars, TypeOK, ThreadsOK,
     PhonesOK, DiskOK, InHand, Chosen, PoolFirst, HasBuild, Busy, Idling, Threads
<1>14. ASSUME NEW p \in Phones, Snapshot(p) PROVE Chosen'
  BY <1>14 DEF Snapshot, FailedCall, Set, Go, diskVars, claimVars, TypeOK, ThreadsOK,
     PhonesOK, DiskOK, InHand, Chosen, PoolFirst, HasBuild, Busy, Idling, Threads
<1>15. ASSUME NEW p \in Phones, Launch(p) PROVE Chosen'
  BY <1>15 DEF Launch, Set, Go, diskVars, claimVars, TypeOK, ThreadsOK, PhonesOK,
     DiskOK, InHand, Chosen, PoolFirst, HasBuild, Busy, Idling, Threads
<1>16. ASSUME NEW p \in Phones, RunEnds(p) PROVE Chosen'
  BY <1>16 DEF RunEnds, Go, diskVars, phoneVars, claimVars, TypeOK, ThreadsOK,
     PhonesOK, DiskOK, InHand, Chosen, PoolFirst, HasBuild, Busy, Idling, Threads
<1>17. ASSUME NEW p \in Phones, SettleUploaded(p) PROVE Chosen'
  BY <1>17 DEF SettleUploaded, Set, Go, diskVars, claimVars, TypeOK, ThreadsOK,
     PhonesOK, DiskOK, InHand, Chosen, PoolFirst, HasBuild, Busy, Idling, Threads
<1>18. ASSUME NEW p \in Phones, Collect(p) PROVE Chosen'
  BY <1>18 DEF Collect, FailedCall, Set, Go, diskVars, claimVars, TypeOK, ThreadsOK,
     PhonesOK, DiskOK, InHand, Chosen, PoolFirst, HasBuild, Busy, Idling, Threads
<1>19. ASSUME NEW p \in Phones, Settled(p) PROVE Chosen'
  BY <1>19 DEF Settled, Go, diskVars, phoneVars, claimVars, TypeOK, ThreadsOK,
     PhonesOK, DiskOK, InHand, Chosen, PoolFirst, HasBuild, Busy, Idling, Threads
<1>20. ASSUME NEW p \in Phones, Report(p) PROVE Chosen'
  BY <1>20 DEF Report, Set, Go, diskVars, phoneVars, claimVars, TypeOK, ThreadsOK,
     PhonesOK, DiskOK, InHand, Chosen, PoolFirst, HasBuild, Busy, Idling, Threads
<1>21. ASSUME NEW p \in Phones, Between(p) PROVE Chosen'
  BY ZenonT(40), <1>21 DEF Between, Set, Go, diskVars, phoneVars, TypeOK, ThreadsOK, PhonesOK,
     DiskOK, InHand, Chosen, PoolFirst, HasBuild, Busy, Idling, Threads
<1>22. ASSUME ReadInstalls PROVE Chosen'
  BY <1>22 DEF ReadInstalls, Set, Bundle, diskVars, claimVars, TypeOK, ThreadsOK,
     PhonesOK, DiskOK, InHand, Chosen, PoolFirst, HasBuild, Busy, Idling, Threads
<1>23. ASSUME ReadEnds PROVE Chosen'
  BY <1>23 DEF ReadEnds, Set, phoneVars, claimVars, TypeOK, ThreadsOK, PhonesOK,
     DiskOK, InHand, Chosen, PoolFirst, HasBuild, Busy, Idling, Threads
<1>24. ASSUME ScanEnds PROVE Chosen'
  BY <1>24 DEF ScanEnds, Set, diskVars, phoneVars, claimVars, TypeOK, ThreadsOK,
     PhonesOK, DiskOK, InHand, Chosen, PoolFirst, HasBuild, Busy, Idling, Threads
<1>25. ASSUME Ends PROVE Chosen'
  BY <1>25 DEF Ends, Gone, diskVars, phoneVars, TypeOK, ThreadsOK, PhonesOK, DiskOK,
     InHand, Chosen, PoolFirst, HasBuild, Busy, Idling, Threads
<1>26. ASSUME NEW b \in Paths, ReadBegins(b) PROVE Chosen'
  BY <1>26 DEF ReadBegins, Set, diskVars, phoneVars, claimVars, TypeOK, ThreadsOK,
     PhonesOK, DiskOK, InHand, Chosen, PoolFirst, HasBuild, Busy, Idling, Threads
<1>27. ASSUME Crash PROVE Chosen'
  BY <1>27 DEF Crash, Fault, Gone, diskVars, phoneVars, TypeOK, ThreadsOK, PhonesOK,
     DiskOK, InHand, Chosen, PoolFirst, HasBuild, Busy, Idling, Threads
<1>28. ASSUME NEW p \in Phones, DeleteApp(p) PROVE Chosen'
  BY <1>28 DEF DeleteApp, Fault, Set, diskVars, claimVars, TypeOK, ThreadsOK,
     PhonesOK, DiskOK, InHand, Chosen, PoolFirst, HasBuild, Busy, Idling, Threads
<1>29. ASSUME NEW p \in Phones, NEW r \in todo[p], Settle(p, r) PROVE UNCHANGED
   <<index, record, app, pc, job>>
  BY <1>29 DEF Settle, Set, Delete, diskVars, claimVars
<1>30. ASSUME NEW p \in Phones, Beat(p) \/ AppWrites(p) \/ AppUploads(p) \/
   AppReports(p) \/ AppExits(p) PROVE UNCHANGED <<index, record, app, pc, job>>
  BY <1>30 DEF Beat, Set, diskVars, phoneVars, claimVars, AppWrites, AppUploads,
     AppReports, AppExits
<1>31. ASSUME Start \/ ReadFails \/ Signal PROVE UNCHANGED <<index, record, app, pc,
   job>>
  BY <1>31 DEF Start, diskVars, phoneVars, claimVars, ReadFails, Signal
<1>32. ASSUME NEW b \in Paths, Known(b) \/ Rebuild(b) PROVE UNCHANGED <<index,
   record, app, pc, job>>
  BY <1>32 DEF Known, diskVars, phoneVars, claimVars, Rebuild, Set
<1>33. ASSUME NEW j \in Jobs, LeaseLapses(j) PROVE UNCHANGED <<index, record, app,
   pc, job>>
  BY <1>33 DEF LeaseLapses, Set, diskVars, phoneVars, claimVars
<1>34. CASE UNCHANGED vars
  BY <1>1, <1>34 DEF vars, diskVars, phoneVars, claimVars
<1> QED
  BY <1>1, <1>2, <1>3, <1>4, <1>5, <1>6, <1>7, <1>8, <1>9, <1>10, <1>11, <1>12,
     <1>13, <1>14, <1>15, <1>16, <1>17, <1>18, <1>19, <1>20, <1>21, <1>22, <1>23,
     <1>24, <1>25, <1>26, <1>27, <1>28, <1>29, <1>30, <1>31, <1>32, <1>33, <1>34 DEF
     Next, Thread, Calls, App, Process, Outside

\* Nothing runs while the pool is read.
LEMMA PoolStep ==
    ASSUME TypeOK, InHand, PoolFirst, [Next]_vars
    PROVE  PoolFirst'
<1>1. ASSUME UNCHANGED <<record, app, proc, reading, last, pc>> PROVE PoolFirst'
  BY <1>1 DEF TypeOK, PhonesOK, DiskOK, ProcOK, ThreadsOK, PoolFirst, HasBuild
<1>2. ASSUME NEW p \in Phones, Connect(p) PROVE PoolFirst'
  BY <1>2, SetsAssumption DEF Connect, Go, phoneVars, procVars, TypeOK, PhonesOK,
     DiskOK, ProcOK, ThreadsOK, PoolFirst, HasBuild
<1>3. ASSUME NEW p \in Phones, Refused(p) PROVE PoolFirst'
  BY <1>3, SetsAssumption DEF Refused, Go, phoneVars, procVars, TypeOK, PhonesOK,
     DiskOK, ProcOK, ThreadsOK, PoolFirst, HasBuild
<1>4. ASSUME NEW p \in Phones, Looks(p) PROVE PoolFirst'
  BY <1>4, SetsAssumption DEF Looks, Go, phoneVars, procVars, TypeOK, PhonesOK,
     DiskOK, ProcOK, ThreadsOK, PoolFirst, HasBuild
<1>5. ASSUME NEW p \in Phones, Idle(p) PROVE PoolFirst'
  BY <1>5, SetsAssumption DEF Idle, Go, phoneVars, procVars, TypeOK, PhonesOK,
     DiskOK, ProcOK, ThreadsOK, PoolFirst, HasBuild
<1>6. ASSUME NEW p \in Phones, NEW j \in Jobs, Claim(p, j) PROVE PoolFirst'
  BY <1>6, SetsAssumption DEF Claim, Set, Go, phoneVars, procVars, TypeOK, PhonesOK,
     DiskOK, ProcOK, ThreadsOK, PoolFirst, HasBuild
<1>7. ASSUME NEW p \in Phones, Check(p) PROVE PoolFirst'
  BY <1>7, SetsAssumption DEF Check, Go, phoneVars, procVars, TypeOK, PhonesOK,
     DiskOK, ProcOK, ThreadsOK, PoolFirst, HasBuild
<1>8. ASSUME NEW p \in Phones, NoBuild(p) PROVE PoolFirst'
  BY <1>8, SetsAssumption DEF NoBuild, Go, phoneVars, procVars, TypeOK, PhonesOK,
     DiskOK, ProcOK, ThreadsOK, PoolFirst, HasBuild
<1>9. ASSUME NEW p \in Phones, Present(p) PROVE PoolFirst'
  BY <1>9, SetsAssumption DEF Present, Go, phoneVars, procVars, TypeOK, PhonesOK,
     DiskOK, ProcOK, ThreadsOK, PoolFirst, HasBuild
<1>10. ASSUME NEW p \in Phones, Forget(p) PROVE PoolFirst'
  BY <1>10, SetsAssumption DEF Forget, Set, Go, phoneVars, procVars, TypeOK,
     PhonesOK, DiskOK, ProcOK, ThreadsOK, PoolFirst, HasBuild
<1>11. ASSUME NEW p \in Phones, Install(p) PROVE PoolFirst'
  BY <1>11, SetsAssumption DEF Install, Set, Bundle, Go, procVars, TypeOK, PhonesOK,
     DiskOK, ProcOK, ThreadsOK, PoolFirst, HasBuild
<1>12. ASSUME NEW p \in Phones, InstallFails(p) PROVE PoolFirst'
  BY <1>12, SetsAssumption DEF InstallFails, Set, Bundle, Go, procVars, TypeOK,
     PhonesOK, DiskOK, ProcOK, ThreadsOK, PoolFirst, HasBuild
<1>13. ASSUME NEW p \in Phones, Verify(p) PROVE PoolFirst'
  BY <1>13, SetsAssumption DEF Verify, FailedCall, Set, Go, procVars, TypeOK, PhonesOK,
     DiskOK, ProcOK, ThreadsOK, PoolFirst, HasBuild
<1>14. ASSUME NEW p \in Phones, Snapshot(p) PROVE PoolFirst'
  BY <1>14, SetsAssumption DEF Snapshot, FailedCall, Set, Go, procVars, TypeOK, PhonesOK,
     DiskOK, ProcOK, ThreadsOK, PoolFirst, HasBuild
<1>15. ASSUME NEW p \in Phones, Launch(p) PROVE PoolFirst'
  BY <1>15, SetsAssumption DEF Launch, Set, Go, procVars, TypeOK, PhonesOK, DiskOK,
     ProcOK, ThreadsOK, PoolFirst, HasBuild
<1>16. ASSUME NEW p \in Phones, RunEnds(p) PROVE PoolFirst'
  BY <1>16, SetsAssumption DEF RunEnds, Go, phoneVars, procVars, TypeOK, PhonesOK,
     DiskOK, ProcOK, ThreadsOK, PoolFirst, HasBuild
<1>17. ASSUME NEW p \in Phones, SettleUploaded(p) PROVE PoolFirst'
  BY <1>17, SetsAssumption DEF SettleUploaded, FailedCall, Set, Go, procVars, TypeOK,
     PhonesOK, DiskOK, ProcOK, ThreadsOK, PoolFirst, HasBuild
<1>18. ASSUME NEW p \in Phones, Collect(p) PROVE PoolFirst'
  BY <1>18, SetsAssumption DEF Collect, FailedCall, Set, Go, procVars, TypeOK,
     PhonesOK, DiskOK, ProcOK, ThreadsOK, PoolFirst, HasBuild
<1>19. ASSUME NEW p \in Phones, Settled(p) PROVE PoolFirst'
  BY <1>19, SetsAssumption DEF Settled, Go, phoneVars, procVars, TypeOK, PhonesOK,
     DiskOK, ProcOK, ThreadsOK, PoolFirst, HasBuild
<1>20. ASSUME NEW p \in Phones, Report(p) PROVE PoolFirst'
  BY <1>20, SetsAssumption DEF Report, Set, Go, phoneVars, procVars, TypeOK,
     PhonesOK, DiskOK, ProcOK, ThreadsOK, PoolFirst, HasBuild
<1>21. ASSUME NEW p \in Phones, Between(p) PROVE PoolFirst'
  BY <1>21, SetsAssumption DEF Between, Set, Go, phoneVars, procVars, TypeOK,
     PhonesOK, DiskOK, ProcOK, ThreadsOK, PoolFirst, HasBuild
<1>22. ASSUME Start PROVE PoolFirst'
  BY <1>22, SetsAssumption DEF Start, phoneVars, TypeOK, PhonesOK, DiskOK, ProcOK,
     ThreadsOK, PoolFirst, HasBuild
<1>23. ASSUME ReadInstalls PROVE PoolFirst'
  BY <1>23, SetsAssumption DEF ReadInstalls, Set, Bundle, TypeOK, PhonesOK, DiskOK,
     ProcOK, ThreadsOK, PoolFirst, HasBuild
<1>24. ASSUME ReadEnds PROVE PoolFirst'
  BY <1>24, SetsAssumption DEF ReadEnds, Set, phoneVars, TypeOK, PhonesOK, DiskOK,
     ProcOK, ThreadsOK, PoolFirst, HasBuild
<1>25. ASSUME ReadFails PROVE PoolFirst'
  BY <1>25, SetsAssumption DEF ReadFails, phoneVars, TypeOK, PhonesOK, DiskOK,
     ProcOK, ThreadsOK, PoolFirst, HasBuild
<1>26. ASSUME ScanEnds PROVE PoolFirst'
  BY <1>26, SetsAssumption DEF ScanEnds, Set, phoneVars, TypeOK, PhonesOK, DiskOK,
     ProcOK, ThreadsOK, PoolFirst, HasBuild
<1>27. ASSUME Ends PROVE PoolFirst'
  BY <1>27, SetsAssumption DEF Ends, Gone, phoneVars, TypeOK, PhonesOK, DiskOK,
     ProcOK, ThreadsOK, PoolFirst, HasBuild
<1>28. ASSUME NEW b \in Paths, ReadBegins(b) PROVE PoolFirst'
  BY <1>28, SetsAssumption DEF ReadBegins, Set, phoneVars, TypeOK, PhonesOK, DiskOK,
     ProcOK, ThreadsOK, PoolFirst, HasBuild
<1>29. ASSUME Crash PROVE PoolFirst'
  BY <1>29, SetsAssumption DEF Crash, Fault, Gone, phoneVars, TypeOK, PhonesOK,
     DiskOK, ProcOK, ThreadsOK, PoolFirst, HasBuild
<1>30. ASSUME NEW p \in Phones, DeleteApp(p) PROVE PoolFirst'
  BY <1>30, SetsAssumption DEF DeleteApp, Fault, Set, procVars, TypeOK, PhonesOK,
     DiskOK, ProcOK, ThreadsOK, PoolFirst, HasBuild
<1>31. ASSUME NEW p \in Phones, NEW r \in todo[p], Settle(p, r) PROVE UNCHANGED
   <<record, app, proc, reading, last, pc>>
  BY <1>31 DEF Settle, Set, Delete, procVars
<1>32. ASSUME NEW p \in Phones, Beat(p) \/ AppWrites(p) \/ AppUploads(p) \/
   AppReports(p) \/ AppExits(p) PROVE UNCHANGED <<record, app, proc, reading, last,
   pc>>
  BY <1>32 DEF Beat, Set, phoneVars, procVars, AppWrites, AppUploads, AppReports,
     AppExits
<1>33. ASSUME NEW b \in Paths, Known(b) \/ Rebuild(b) PROVE UNCHANGED <<record, app,
   proc, reading, last, pc>>
  BY <1>33 DEF Known, phoneVars, Rebuild, Set, procVars
<1>34. ASSUME Signal PROVE UNCHANGED <<record, app, proc, reading, last, pc>>
  BY <1>34 DEF Signal, phoneVars
<1>35. ASSUME NEW j \in Jobs, LeaseLapses(j) PROVE UNCHANGED <<record, app, proc,
   reading, last, pc>>
  BY <1>35 DEF LeaseLapses, Set, phoneVars, procVars
<1>36. CASE UNCHANGED vars
  BY <1>1, <1>36 DEF vars, phoneVars, procVars
<1> QED
  BY <1>1, <1>2, <1>3, <1>4, <1>5, <1>6, <1>7, <1>8, <1>9, <1>10, <1>11, <1>12,
     <1>13, <1>14, <1>15, <1>16, <1>17, <1>18, <1>19, <1>20, <1>21, <1>22, <1>23,
     <1>24, <1>25, <1>26, <1>27, <1>28, <1>29, <1>30, <1>31, <1>32, <1>33, <1>34,
     <1>35, <1>36 DEF Next, Thread, Calls, App, Process, Outside

\* A record is forgotten before the app changes and set after it is known.
LEMMA RecordStep ==
    ASSUME TypeOK, Chosen, PoolFirst, RecordHonest, [Next]_vars
    PROVE  RecordHonest'
<1>1. ASSUME UNCHANGED <<record, app>> PROVE RecordHonest'
  BY <1>1 DEF TypeOK, DiskOK, PhonesOK, Chosen, PoolFirst, HasBuild, RecordHonest
<1>2. ASSUME NEW p \in Phones, Forget(p) PROVE RecordHonest'
  BY <1>2, SetsAssumption DEF Forget, Set, Go, phoneVars, TypeOK, DiskOK, PhonesOK,
     Chosen, PoolFirst, HasBuild, RecordHonest
<1>3. ASSUME NEW p \in Phones, Install(p) PROVE RecordHonest'
  BY <1>3, SetsAssumption DEF Install, Set, Bundle, Go, TypeOK, DiskOK, PhonesOK,
     Chosen, PoolFirst, HasBuild, RecordHonest
<1>4. ASSUME NEW p \in Phones, InstallFails(p) PROVE RecordHonest'
  BY <1>4, SetsAssumption DEF InstallFails, Set, Bundle, Go, TypeOK, DiskOK,
     PhonesOK, Chosen, PoolFirst, HasBuild, RecordHonest
<1>5. ASSUME NEW p \in Phones, Verify(p) PROVE RecordHonest'
  BY <1>5, SetsAssumption DEF Verify, FailedCall, Set, Go, TypeOK, DiskOK, PhonesOK, Chosen,
     PoolFirst, HasBuild, RecordHonest
<1>6. ASSUME ReadInstalls PROVE RecordHonest'
  BY <1>6, SetsAssumption DEF ReadInstalls, Set, Bundle, TypeOK, DiskOK, PhonesOK,
     Chosen, PoolFirst, HasBuild, RecordHonest
<1>7. ASSUME ScanEnds PROVE RecordHonest'
  BY <1>7, SetsAssumption DEF ScanEnds, Set, phoneVars, TypeOK, DiskOK, PhonesOK,
     Chosen, PoolFirst, HasBuild, RecordHonest
<1>8. ASSUME NEW b \in Paths, ReadBegins(b) PROVE RecordHonest'
  BY <1>8, SetsAssumption DEF ReadBegins, Set, phoneVars, TypeOK, DiskOK, PhonesOK,
     Chosen, PoolFirst, HasBuild, RecordHonest
<1>9. ASSUME NEW p \in Phones, DeleteApp(p) PROVE RecordHonest'
  BY <1>9, SetsAssumption DEF DeleteApp, Fault, Set, TypeOK, DiskOK, PhonesOK,
     Chosen, PoolFirst, HasBuild, RecordHonest
<1>10. ASSUME NEW p \in Phones, Connect(p) \/ Refused(p) \/ Looks(p) \/ Idle(p) \/
   Check(p) \/ NoBuild(p) \/ Present(p) \/ Snapshot(p) \/ Launch(p) \/ RunEnds(p) \/
   SettleUploaded(p) \/ Collect(p) \/ Settled(p) \/ Report(p) \/ Between(p) \/
   Beat(p) \/ AppWrites(p) \/ AppUploads(p) \/ AppReports(p) \/ AppExits(p) PROVE
   UNCHANGED <<record, app>>
  BY <1>10 DEF Connect, Go, phoneVars, Refused, Looks, Idle, Check, NoBuild,
     Present, Snapshot, Set, Launch, RunEnds, SettleUploaded, Collect, Settled,
     Report, Between, Beat, AppWrites, AppUploads, AppReports, AppExits
<1>11. ASSUME NEW p \in Phones, NEW j \in Jobs, Claim(p, j) PROVE UNCHANGED
   <<record, app>>
  BY <1>11 DEF Claim, Set, Go, phoneVars
<1>12. ASSUME NEW p \in Phones, NEW r \in todo[p], Settle(p, r) PROVE UNCHANGED
   <<record, app>>
  BY <1>12 DEF Settle, Set, Delete
<1>13. ASSUME Start \/ ReadEnds \/ ReadFails \/ Ends \/ Crash \/ Signal PROVE
   UNCHANGED <<record, app>>
  BY <1>13 DEF Start, phoneVars, ReadEnds, Set, ReadFails, Ends, Gone, Crash, Fault,
     Signal
<1>14. ASSUME NEW b \in Paths, Known(b) \/ Rebuild(b) PROVE UNCHANGED <<record,
   app>>
  BY <1>14 DEF Known, phoneVars, Rebuild, Set
<1>15. ASSUME NEW j \in Jobs, LeaseLapses(j) PROVE UNCHANGED <<record, app>>
  BY <1>15 DEF LeaseLapses, Set, phoneVars
<1>16. CASE UNCHANGED vars
  BY <1>1, <1>16 DEF vars, phoneVars
<1> QED
  BY <1>1, <1>2, <1>3, <1>4, <1>5, <1>6, <1>7, <1>8, <1>9, <1>10, <1>11, <1>12,
     <1>13, <1>14, <1>15, <1>16 DEF Next, Thread, Calls, App, Process, Outside

\* The list of results is taken when no app runs, so a result that is not on it
\* is the run's own.
LEMMA OwnRunStep ==
    ASSUME TypeOK, InHand, PoolFirst, OwnRun, [Next]_vars
    PROVE  OwnRun'
<1>1. ASSUME UNCHANGED <<runner, results, pc, num, before, todo>> PROVE OwnRun'
  BY <1>1 DEF TypeOK, PhonesOK, ThreadsOK, OwnRun, Fresh, Kept, PoolFirst
<1>2. ASSUME NEW p \in Phones, Connect(p) PROVE OwnRun'
  BY <1>2 DEF Connect, Go, phoneVars, claimVars, runVars, TypeOK, PhonesOK,
     ThreadsOK, OwnRun, Fresh, Kept, PoolFirst
<1>3. ASSUME NEW p \in Phones, Refused(p) PROVE OwnRun'
  BY <1>3 DEF Refused, Go, phoneVars, claimVars, runVars, TypeOK, PhonesOK,
     ThreadsOK, OwnRun, Fresh, Kept, PoolFirst
<1>4. ASSUME NEW p \in Phones, Looks(p) PROVE OwnRun'
  BY <1>4 DEF Looks, Go, phoneVars, claimVars, runVars, TypeOK, PhonesOK, ThreadsOK,
     OwnRun, Fresh, Kept, PoolFirst
<1>5. ASSUME NEW p \in Phones, Idle(p) PROVE OwnRun'
  BY <1>5 DEF Idle, Go, phoneVars, claimVars, runVars, TypeOK, PhonesOK, ThreadsOK,
     OwnRun, Fresh, Kept, PoolFirst
<1>6. ASSUME NEW p \in Phones, NEW j \in Jobs, Claim(p, j) PROVE OwnRun'
  BY <1>6 DEF Claim, Set, Go, phoneVars, runVars, TypeOK, PhonesOK, ThreadsOK,
     OwnRun, Fresh, Kept, PoolFirst
<1>7. ASSUME NEW p \in Phones, Check(p) PROVE OwnRun'
  BY <1>7 DEF Check, Go, phoneVars, claimVars, runVars, TypeOK, PhonesOK, ThreadsOK,
     OwnRun, Fresh, Kept, PoolFirst
<1>8. ASSUME NEW p \in Phones, NoBuild(p) PROVE OwnRun'
  BY <1>8 DEF NoBuild, Go, phoneVars, claimVars, runVars, TypeOK, PhonesOK,
     ThreadsOK, OwnRun, Fresh, Kept, PoolFirst
<1>9. ASSUME NEW p \in Phones, Present(p) PROVE OwnRun'
  BY <1>9 DEF Present, Go, phoneVars, claimVars, runVars, TypeOK, PhonesOK,
     ThreadsOK, OwnRun, Fresh, Kept, PoolFirst
<1>10. ASSUME NEW p \in Phones, Forget(p) PROVE OwnRun'
  BY <1>10 DEF Forget, Set, Go, phoneVars, claimVars, runVars, TypeOK, PhonesOK,
     ThreadsOK, OwnRun, Fresh, Kept, PoolFirst
<1>11. ASSUME NEW p \in Phones, Install(p) PROVE OwnRun'
  BY <1>11 DEF Install, Set, Bundle, Go, claimVars, runVars, TypeOK, PhonesOK,
     ThreadsOK, OwnRun, Fresh, Kept, PoolFirst
<1>12. ASSUME NEW p \in Phones, InstallFails(p) PROVE OwnRun'
  BY <1>12 DEF InstallFails, Set, Bundle, Go, claimVars, runVars, TypeOK, PhonesOK,
     ThreadsOK, OwnRun, Fresh, Kept, PoolFirst
<1>13. ASSUME NEW p \in Phones, Verify(p) PROVE OwnRun'
  BY <1>13 DEF Verify, FailedCall, Set, Go, claimVars, TypeOK, PhonesOK, ThreadsOK, OwnRun,
     Fresh, Kept, PoolFirst
<1>14. ASSUME NEW p \in Phones, Snapshot(p) PROVE OwnRun'
  BY <1>14 DEF Snapshot, FailedCall, Set, Go, claimVars, TypeOK, PhonesOK, ThreadsOK,
     OwnRun, Fresh, Kept, PoolFirst
<1>15. ASSUME NEW p \in Phones, Launch(p) PROVE OwnRun'
  BY <1>15 DEF Launch, Set, Go, claimVars, runVars, TypeOK, PhonesOK, ThreadsOK,
     OwnRun, Fresh, Kept, PoolFirst
<1>16. ASSUME NEW p \in Phones, RunEnds(p) PROVE OwnRun'
  BY <1>16 DEF RunEnds, Go, phoneVars, claimVars, TypeOK, PhonesOK, ThreadsOK,
     OwnRun, Fresh, Kept, PoolFirst
<1>17. ASSUME NEW p \in Phones, SettleUploaded(p) PROVE OwnRun'
  BY <1>17 DEF SettleUploaded, FailedCall, Set, Go, claimVars, runVars, TypeOK, PhonesOK,
     ThreadsOK, OwnRun, Fresh, Kept, PoolFirst
<1>18. ASSUME NEW p \in Phones, Collect(p) PROVE OwnRun'
  BY <1>18 DEF Collect, FailedCall, Set, Go, claimVars, TypeOK, PhonesOK, ThreadsOK, OwnRun,
     Fresh, Kept, PoolFirst
<1>19. ASSUME NEW p \in Phones, NEW r \in todo[p], Settle(p, r) PROVE OwnRun'
  BY <1>19 DEF Settle, Set, Delete, claimVars, TypeOK, PhonesOK, ThreadsOK, OwnRun,
     Fresh, Kept, PoolFirst
<1>20. ASSUME NEW p \in Phones, Settled(p) PROVE OwnRun'
  BY <1>20 DEF Settled, Go, phoneVars, claimVars, runVars, TypeOK, PhonesOK,
     ThreadsOK, OwnRun, Fresh, Kept, PoolFirst
<1>21. ASSUME NEW p \in Phones, Report(p) PROVE OwnRun'
  BY <1>21 DEF Report, Set, Go, phoneVars, claimVars, runVars, TypeOK, PhonesOK,
     ThreadsOK, OwnRun, Fresh, Kept, PoolFirst
<1>22. ASSUME NEW p \in Phones, Between(p) PROVE OwnRun'
  BY <1>22 DEF Between, Set, Go, phoneVars, TypeOK, PhonesOK, ThreadsOK, OwnRun,
     Fresh, Kept, PoolFirst
<1>23. ASSUME NEW p \in Phones, AppWrites(p) PROVE OwnRun'
  BY <1>23 DEF AppWrites, Set, claimVars, runVars, TypeOK, PhonesOK, ThreadsOK,
     OwnRun, Fresh, Kept, PoolFirst
<1>24. ASSUME NEW p \in Phones, AppUploads(p) PROVE OwnRun'
  BY <1>24 DEF AppUploads, Set, claimVars, runVars, TypeOK, PhonesOK, ThreadsOK,
     OwnRun, Fresh, Kept, PoolFirst
<1>25. ASSUME NEW p \in Phones, AppReports(p) PROVE OwnRun'
  BY <1>25 DEF AppReports, claimVars, TypeOK, PhonesOK, ThreadsOK, OwnRun, Fresh,
     Kept, PoolFirst
<1>26. ASSUME NEW p \in Phones, AppExits(p) PROVE OwnRun'
  BY <1>26 DEF AppExits, Set, claimVars, runVars, TypeOK, PhonesOK, ThreadsOK,
     OwnRun, Fresh, Kept, PoolFirst
<1>27. ASSUME ReadInstalls PROVE OwnRun'
  BY <1>27 DEF ReadInstalls, Set, Bundle, claimVars, runVars, TypeOK, PhonesOK,
     ThreadsOK, OwnRun, Fresh, Kept, PoolFirst
<1>28. ASSUME ScanEnds PROVE OwnRun'
  BY <1>28 DEF ScanEnds, Set, phoneVars, claimVars, runVars, TypeOK, PhonesOK,
     ThreadsOK, OwnRun, Fresh, Kept, PoolFirst
<1>29. ASSUME Ends PROVE OwnRun'
  BY <1>29 DEF Ends, Gone, phoneVars, TypeOK, PhonesOK, ThreadsOK, OwnRun, Fresh,
     Kept, PoolFirst
<1>30. ASSUME Crash PROVE OwnRun'
  BY <1>30 DEF Crash, Fault, Gone, phoneVars, TypeOK, PhonesOK, ThreadsOK, OwnRun,
     Fresh, Kept, PoolFirst
<1>31. ASSUME NEW p \in Phones, DeleteApp(p) PROVE OwnRun'
  BY <1>31 DEF DeleteApp, Fault, Set, claimVars, runVars, TypeOK, PhonesOK,
     ThreadsOK, OwnRun, Fresh, Kept, PoolFirst
<1>32. ASSUME NEW p \in Phones, Beat(p) PROVE UNCHANGED <<runner, results, pc, num,
   before, todo>>
  BY <1>32 DEF Beat, Set, phoneVars, claimVars
<1>33. ASSUME Start \/ ReadEnds \/ ReadFails \/ Signal PROVE UNCHANGED <<runner,
   results, pc, num, before, todo>>
  BY <1>33 DEF Start, phoneVars, claimVars, runVars, ReadEnds, Set, ReadFails,
     Signal
<1>34. ASSUME NEW b \in Paths, Known(b) \/ ReadBegins(b) \/ Rebuild(b) PROVE
   UNCHANGED <<runner, results, pc, num, before, todo>>
  BY <1>34 DEF Known, phoneVars, claimVars, runVars, ReadBegins, Set, Rebuild
<1>35. ASSUME NEW j \in Jobs, LeaseLapses(j) PROVE UNCHANGED <<runner, results, pc,
   num, before, todo>>
  BY <1>35 DEF LeaseLapses, Set, phoneVars, claimVars, runVars
<1>36. CASE UNCHANGED vars
  BY <1>1, <1>36 DEF vars, phoneVars, claimVars, runVars
<1> QED
  BY <1>1, <1>2, <1>3, <1>4, <1>5, <1>6, <1>7, <1>8, <1>9, <1>10, <1>11, <1>12,
     <1>13, <1>14, <1>15, <1>16, <1>17, <1>18, <1>19, <1>20, <1>21, <1>22, <1>23,
     <1>24, <1>25, <1>26, <1>27, <1>28, <1>29, <1>30, <1>31, <1>32, <1>33, <1>34,
     <1>35, <1>36 DEF Next, Thread, Calls, App, Process, Outside

\* A claim posts its own run.
LEMMA PostedStep ==
    ASSUME TypeOK, OwnRun, PostsOwnRun, [Next]_vars
    PROVE  PostsOwnRun'
<1>1. ASSUME UNCHANGED <<posted>> PROVE PostsOwnRun'
  BY <1>1 DEF OwnRun, PostsOwnRun
<1>2. ASSUME NEW p \in Phones, NEW r \in todo[p], Settle(p, r) PROVE PostsOwnRun'
  BY <1>2 DEF Settle, Set, Delete, OwnRun, PostsOwnRun
<1>3. ASSUME NEW p \in Phones, Connect(p) \/ Refused(p) \/ Looks(p) \/ Idle(p) \/
   Check(p) \/ NoBuild(p) \/ Present(p) \/ Forget(p) \/ Install(p) \/
   InstallFails(p) \/ Verify(p) \/ Snapshot(p) \/ Launch(p) \/ RunEnds(p) \/
   SettleUploaded(p) \/ Collect(p) \/ Settled(p) \/ Report(p) \/ Between(p) \/
   Beat(p) \/ AppWrites(p) \/ AppUploads(p) \/ AppReports(p) \/ AppExits(p) \/
   DeleteApp(p) PROVE UNCHANGED <<posted>>
  BY <1>3 DEF Connect, Go, history, Refused, Looks, Idle, Check, NoBuild, Present,
     Forget, Set, Install, Bundle, InstallFails, Verify, Snapshot, Launch, RunEnds,
     SettleUploaded, Collect, Settled, Report, Between, Beat, AppWrites, AppUploads,
     AppReports, AppExits, DeleteApp, Fault
<1>4. ASSUME NEW p \in Phones, NEW j \in Jobs, Claim(p, j) PROVE UNCHANGED
   <<posted>>
  BY <1>4 DEF Claim, Set, Go, history
<1>5. ASSUME Start \/ ReadInstalls \/ ReadEnds \/ ReadFails \/ ScanEnds \/ Ends \/
   Crash \/ Signal PROVE UNCHANGED <<posted>>
  BY <1>5 DEF Start, history, ReadInstalls, Set, Bundle, ReadEnds, ReadFails,
     ScanEnds, Ends, Gone, Crash, Fault, Signal
<1>6. ASSUME NEW b \in Paths, Known(b) \/ ReadBegins(b) \/ Rebuild(b) PROVE
   UNCHANGED <<posted>>
  BY <1>6 DEF Known, history, ReadBegins, Set, Rebuild
<1>7. ASSUME NEW j \in Jobs, LeaseLapses(j) PROVE UNCHANGED <<posted>>
  BY <1>7 DEF LeaseLapses, Set, history
<1>8. CASE UNCHANGED vars
  BY <1>1, <1>8 DEF vars, history
<1> QED
  BY <1>1, <1>2, <1>3, <1>4, <1>5, <1>6, <1>7, <1>8 DEF Next, Thread, Calls, App, Process,
     Outside

\* A mark of an upload follows its acceptance.
LEMMA UploadsStep ==
    ASSUME TypeOK, PoolFirst, UploadsAccepted, [Next]_vars
    PROVE  UploadsAccepted'
<1>1. ASSUME UNCHANGED <<results, pc, todo, accepted>> PROVE UploadsAccepted'
  BY <1>1 DEF TypeOK, PhonesOK, ThreadsOK, UploadsAccepted, Fresh, Kept, PoolFirst
<1>2. ASSUME NEW p \in Phones, Connect(p) PROVE UploadsAccepted'
  BY <1>2 DEF Connect, Go, phoneVars, runVars, history, TypeOK, PhonesOK, ThreadsOK,
     UploadsAccepted, Fresh, Kept, PoolFirst
<1>3. ASSUME NEW p \in Phones, Refused(p) PROVE UploadsAccepted'
  BY <1>3 DEF Refused, Go, phoneVars, runVars, history, TypeOK, PhonesOK, ThreadsOK,
     UploadsAccepted, Fresh, Kept, PoolFirst
<1>4. ASSUME NEW p \in Phones, Looks(p) PROVE UploadsAccepted'
  BY <1>4 DEF Looks, Go, phoneVars, runVars, history, TypeOK, PhonesOK, ThreadsOK,
     UploadsAccepted, Fresh, Kept, PoolFirst
<1>5. ASSUME NEW p \in Phones, Idle(p) PROVE UploadsAccepted'
  BY <1>5 DEF Idle, Go, phoneVars, runVars, history, TypeOK, PhonesOK, ThreadsOK,
     UploadsAccepted, Fresh, Kept, PoolFirst
<1>6. ASSUME NEW p \in Phones, NEW j \in Jobs, Claim(p, j) PROVE UploadsAccepted'
  BY <1>6 DEF Claim, Set, Go, phoneVars, runVars, history, TypeOK, PhonesOK,
     ThreadsOK, UploadsAccepted, Fresh, Kept, PoolFirst
<1>7. ASSUME NEW p \in Phones, Check(p) PROVE UploadsAccepted'
  BY <1>7 DEF Check, Go, phoneVars, runVars, history, TypeOK, PhonesOK, ThreadsOK,
     UploadsAccepted, Fresh, Kept, PoolFirst
<1>8. ASSUME NEW p \in Phones, NoBuild(p) PROVE UploadsAccepted'
  BY <1>8 DEF NoBuild, Go, phoneVars, runVars, history, TypeOK, PhonesOK, ThreadsOK,
     UploadsAccepted, Fresh, Kept, PoolFirst
<1>9. ASSUME NEW p \in Phones, Present(p) PROVE UploadsAccepted'
  BY <1>9 DEF Present, Go, phoneVars, runVars, history, TypeOK, PhonesOK, ThreadsOK,
     UploadsAccepted, Fresh, Kept, PoolFirst
<1>10. ASSUME NEW p \in Phones, Forget(p) PROVE UploadsAccepted'
  BY <1>10 DEF Forget, Set, Go, phoneVars, runVars, history, TypeOK, PhonesOK,
     ThreadsOK, UploadsAccepted, Fresh, Kept, PoolFirst
<1>11. ASSUME NEW p \in Phones, Install(p) PROVE UploadsAccepted'
  BY <1>11 DEF Install, Set, Bundle, Go, runVars, history, TypeOK, PhonesOK,
     ThreadsOK, UploadsAccepted, Fresh, Kept, PoolFirst
<1>12. ASSUME NEW p \in Phones, InstallFails(p) PROVE UploadsAccepted'
  BY <1>12 DEF InstallFails, Set, Bundle, Go, runVars, history, TypeOK, PhonesOK,
     ThreadsOK, UploadsAccepted, Fresh, Kept, PoolFirst
<1>13. ASSUME NEW p \in Phones, Verify(p) PROVE UploadsAccepted'
  BY <1>13 DEF Verify, FailedCall, Set, Go, history, TypeOK, PhonesOK, ThreadsOK,
     UploadsAccepted, Fresh, Kept, PoolFirst
<1>14. ASSUME NEW p \in Phones, Snapshot(p) PROVE UploadsAccepted'
  BY <1>14 DEF Snapshot, FailedCall, Set, Go, history, TypeOK, PhonesOK, ThreadsOK,
     UploadsAccepted, Fresh, Kept, PoolFirst
<1>15. ASSUME NEW p \in Phones, Launch(p) PROVE UploadsAccepted'
  BY <1>15 DEF Launch, Set, Go, runVars, history, TypeOK, PhonesOK, ThreadsOK,
     UploadsAccepted, Fresh, Kept, PoolFirst
<1>16. ASSUME NEW p \in Phones, RunEnds(p) PROVE UploadsAccepted'
  BY <1>16 DEF RunEnds, Go, phoneVars, history, TypeOK, PhonesOK, ThreadsOK,
     UploadsAccepted, Fresh, Kept, PoolFirst
<1>17. ASSUME NEW p \in Phones, SettleUploaded(p) PROVE UploadsAccepted'
  BY <1>17 DEF SettleUploaded, FailedCall, Set, Go, runVars, history, TypeOK, PhonesOK,
     ThreadsOK, UploadsAccepted, Fresh, Kept, PoolFirst
<1>18. ASSUME NEW p \in Phones, Collect(p) PROVE UploadsAccepted'
  BY <1>18 DEF Collect, FailedCall, Set, Go, history, TypeOK, PhonesOK, ThreadsOK,
     UploadsAccepted, Fresh, Kept, PoolFirst
<1>19. ASSUME NEW p \in Phones, NEW r \in todo[p], Settle(p, r) PROVE
   UploadsAccepted'
  BY <1>19 DEF Settle, Set, Delete, TypeOK, PhonesOK, ThreadsOK, UploadsAccepted,
     Fresh, Kept, PoolFirst
<1>20. ASSUME NEW p \in Phones, Settled(p) PROVE UploadsAccepted'
  BY <1>20 DEF Settled, Go, phoneVars, runVars, history, TypeOK, PhonesOK,
     ThreadsOK, UploadsAccepted, Fresh, Kept, PoolFirst
<1>21. ASSUME NEW p \in Phones, Report(p) PROVE UploadsAccepted'
  BY <1>21 DEF Report, Set, Go, phoneVars, runVars, history, TypeOK, PhonesOK,
     ThreadsOK, UploadsAccepted, Fresh, Kept, PoolFirst
<1>22. ASSUME NEW p \in Phones, Between(p) PROVE UploadsAccepted'
  BY <1>22 DEF Between, Set, Go, phoneVars, history, TypeOK, PhonesOK, ThreadsOK,
     UploadsAccepted, Fresh, Kept, PoolFirst
<1>23. ASSUME NEW p \in Phones, AppWrites(p) PROVE UploadsAccepted'
  BY <1>23 DEF AppWrites, Set, runVars, TypeOK, PhonesOK, ThreadsOK,
     UploadsAccepted, Fresh, Kept, PoolFirst
<1>24. ASSUME NEW p \in Phones, AppUploads(p) PROVE UploadsAccepted'
  <2> DEFINE r == [run |-> runner[p].run, job |-> runner[p].job, sub |-> FALSE]
             s == [r EXCEPT !.sub = TRUE]
  <2>1. /\ accepted \subseteq accepted' /\ UNCHANGED <<pc, todo>>
        /\ \/ UNCHANGED results
           \/ /\ results' = [results EXCEPT ![p] = (@ \ {r}) \cup {s}]
              /\ r.run \in accepted'
    BY <1>24 DEF AppUploads, Set, runVars
  <2>2. s.run = r.run
    OBVIOUS
  <2> HIDE DEF r, s
  <2>3. \A q \in Phones : \A t \in results'[q] : t \in results[q] \/ t.run \in accepted'
    BY <2>1, <2>2 DEF TypeOK, PhonesOK
  <2> QED
    BY <2>1, <2>3 DEF UploadsAccepted
<1>25. ASSUME ScanEnds PROVE UploadsAccepted'
  BY <1>25 DEF ScanEnds, Set, phoneVars, runVars, history, TypeOK, PhonesOK,
     ThreadsOK, UploadsAccepted, Fresh, Kept, PoolFirst
<1>26. ASSUME Ends PROVE UploadsAccepted'
  BY <1>26 DEF Ends, Gone, phoneVars, history, TypeOK, PhonesOK, ThreadsOK,
     UploadsAccepted, Fresh, Kept, PoolFirst
<1>27. ASSUME Crash PROVE UploadsAccepted'
  BY <1>27 DEF Crash, Fault, Gone, phoneVars, history, TypeOK, PhonesOK, ThreadsOK,
     UploadsAccepted, Fresh, Kept, PoolFirst
<1>28. ASSUME NEW p \in Phones, DeleteApp(p) PROVE UploadsAccepted'
  BY <1>28 DEF DeleteApp, Fault, Set, runVars, TypeOK, PhonesOK, ThreadsOK,
     UploadsAccepted, Fresh, Kept, PoolFirst
<1>29. ASSUME NEW p \in Phones, Beat(p) \/ AppReports(p) \/ AppExits(p) PROVE
   UNCHANGED <<results, pc, todo, accepted>>
  BY <1>29 DEF Beat, Set, phoneVars, history, AppReports, AppExits, runVars
<1>30. ASSUME Start \/ ReadInstalls \/ ReadEnds \/ ReadFails \/ Signal PROVE
   UNCHANGED <<results, pc, todo, accepted>>
  BY <1>30 DEF Start, phoneVars, runVars, history, ReadInstalls, Set, Bundle,
     ReadEnds, ReadFails, Signal
<1>31. ASSUME NEW b \in Paths, Known(b) \/ ReadBegins(b) \/ Rebuild(b) PROVE
   UNCHANGED <<results, pc, todo, accepted>>
  BY <1>31 DEF Known, phoneVars, runVars, history, ReadBegins, Set, Rebuild
<1>32. ASSUME NEW j \in Jobs, LeaseLapses(j) PROVE UNCHANGED <<results, pc, todo,
   accepted>>
  BY <1>32 DEF LeaseLapses, Set, phoneVars, runVars, history
<1>33. CASE UNCHANGED vars
  BY <1>1, <1>33 DEF vars, phoneVars, runVars, history
<1> QED
  BY <1>1, <1>2, <1>3, <1>4, <1>5, <1>6, <1>7, <1>8, <1>9, <1>10, <1>11, <1>12,
     <1>13, <1>14, <1>15, <1>16, <1>17, <1>18, <1>19, <1>20, <1>21, <1>22, <1>23,
     <1>24, <1>25, <1>26, <1>27, <1>28, <1>29, <1>30, <1>31, <1>32, <1>33 DEF Next,
     Thread, Calls, App, Process, Outside

\* A result leaves the phone accepted, or with the app.
LEMMA KeptStep ==
    ASSUME TypeOK, UploadsAccepted, KeptUntilAccepted, [Next]_vars
    PROVE  KeptUntilAccepted'
<1>1. ASSUME UNCHANGED <<results, made, accepted, wiped>> PROVE KeptUntilAccepted'
  BY <1>1 DEF TypeOK, PhonesOK, UploadsAccepted, KeptUntilAccepted, Kept, Fresh
<1>2. ASSUME NEW p \in Phones, SettleUploaded(p) PROVE KeptUntilAccepted'
  BY <1>2 DEF SettleUploaded, FailedCall, Set, Go, history, TypeOK, PhonesOK,
     UploadsAccepted, KeptUntilAccepted, Kept, Fresh
<1>3. ASSUME NEW p \in Phones, NEW r \in todo[p], Settle(p, r) PROVE
   KeptUntilAccepted'
  BY <1>3 DEF Settle, Set, Delete, TypeOK, PhonesOK, UploadsAccepted,
     KeptUntilAccepted, Kept, Fresh
<1>4. ASSUME NEW p \in Phones, AppWrites(p) PROVE KeptUntilAccepted'
  <2>1. /\ results' = [results EXCEPT ![p] =
              @ \cup {[run |-> runner[p].run, job |-> runner[p].job, sub |-> FALSE]}]
        /\ made' = made \cup {runner[p].run}
        /\ UNCHANGED <<accepted, wiped>>
    BY <1>4 DEF AppWrites, Set
  <2>2. \A q \in Phones : results[q] \subseteq results'[q]
    BY <2>1 DEF TypeOK, PhonesOK
  <2>3. \E r \in results'[p] : r.run = runner[p].run
    <3>1. [run |-> runner[p].run, job |-> runner[p].job, sub |-> FALSE] \in results'[p]
      BY <2>1 DEF TypeOK, PhonesOK
    <3> QED
      BY <3>1
  <2> QED
    BY <2>1, <2>2, <2>3 DEF KeptUntilAccepted
<1>5. ASSUME NEW p \in Phones, AppUploads(p) PROVE KeptUntilAccepted'
  BY <1>5 DEF AppUploads, Set, TypeOK, PhonesOK, UploadsAccepted, KeptUntilAccepted,
     Kept, Fresh
<1>6. ASSUME NEW p \in Phones, DeleteApp(p) PROVE KeptUntilAccepted'
  BY <1>6 DEF DeleteApp, Fault, Set, TypeOK, PhonesOK, UploadsAccepted,
     KeptUntilAccepted, Kept, Fresh
<1>7. ASSUME NEW p \in Phones, Connect(p) \/ Refused(p) \/ Looks(p) \/ Idle(p) \/
   Check(p) \/ NoBuild(p) \/ Present(p) \/ Forget(p) \/ Install(p) \/
   InstallFails(p) \/ Verify(p) \/ Snapshot(p) \/ Launch(p) \/ RunEnds(p) \/
   Collect(p) \/ Settled(p) \/ Report(p) \/ Between(p) \/ Beat(p) \/ AppReports(p)
   \/ AppExits(p) PROVE UNCHANGED <<results, made, accepted, wiped>>
  BY <1>7 DEF Connect, Go, phoneVars, history, Refused, Looks, Idle, Check, NoBuild,
     Present, Forget, Set, Install, Bundle, InstallFails, Verify, Snapshot, Launch,
     RunEnds, Collect, Settled, Report, Between, Beat, AppReports, AppExits
<1>8. ASSUME NEW p \in Phones, NEW j \in Jobs, Claim(p, j) PROVE UNCHANGED
   <<results, made, accepted, wiped>>
  BY <1>8 DEF Claim, Set, Go, phoneVars, history
<1>9. ASSUME Start \/ ReadInstalls \/ ReadEnds \/ ReadFails \/ ScanEnds \/ Ends \/
   Crash \/ Signal PROVE UNCHANGED <<results, made, accepted, wiped>>
  BY <1>9 DEF Start, phoneVars, history, ReadInstalls, Set, Bundle, ReadEnds,
     ReadFails, ScanEnds, Ends, Gone, Crash, Fault, Signal
<1>10. ASSUME NEW b \in Paths, Known(b) \/ ReadBegins(b) \/ Rebuild(b) PROVE
   UNCHANGED <<results, made, accepted, wiped>>
  BY <1>10 DEF Known, phoneVars, history, ReadBegins, Set, Rebuild
<1>11. ASSUME NEW j \in Jobs, LeaseLapses(j) PROVE UNCHANGED <<results, made,
   accepted, wiped>>
  BY <1>11 DEF LeaseLapses, Set, phoneVars, history
<1>12. CASE UNCHANGED vars
  BY <1>1, <1>12 DEF vars, phoneVars, history
<1> QED
  BY <1>1, <1>2, <1>3, <1>4, <1>5, <1>6, <1>7, <1>8, <1>9, <1>10, <1>11, <1>12 DEF
     Next, Thread, Calls, App, Process, Outside

-----------------------------------------------------------------------------

\* The invariant holds before the first `run`.
LEMMA InitInv == Init => IInv
<1> SUFFICES ASSUME Init PROVE IInv
  OBVIOUS
<1>1. TypeOK
  <2>1. 0 \in 0 .. MaxClaims /\ 0 \in 0 .. MaxLapses /\ 0 \in 0 .. MaxFaults
    BY BoundsAssumption
  <2>2. ServerOK /\ DiskOK /\ PhonesOK
    BY DEF Init, ServerOK, DiskOK, PhonesOK
  <2>3. ProcOK
    BY DEF Init, ProcOK
  <2>4. ThreadsOK /\ CountsOK
    BY <2>1 DEF Init, ThreadsOK, CountsOK, Threads
  <2> QED
    BY <2>2, <2>3, <2>4 DEF TypeOK
<1>2. InHand /\ Chosen /\ PoolFirst
  BY DEF Init, InHand, Chosen, PoolFirst, Busy, Idling, Threads
<1>3. RecordHonest /\ OwnRun
  BY DEF Init, RecordHonest, OwnRun
<1>4. PostsOwnRun /\ UploadsAccepted /\ KeptUntilAccepted
  BY DEF Init, PostsOwnRun, UploadsAccepted, KeptUntilAccepted
<1> QED
  BY <1>1, <1>2, <1>3, <1>4 DEF IInv

\* Every step of a thread, of an app, of the process and of the world keeps it.
LEMMA Inductive == IInv /\ [Next]_vars => IInv'
<1> SUFFICES ASSUME IInv, [Next]_vars PROVE IInv'
  OBVIOUS
<1>1. TypeOK'
  BY ServerStep, DiskStep, PhonesStep, ProcStep, ThreadsStep, CountsStep
     DEF IInv, TypeOK
<1>2. InHand' /\ Chosen' /\ PoolFirst' /\ RecordHonest'
  BY InHandStep, ChosenStep, PoolStep, RecordStep DEF IInv
<1>3. OwnRun' /\ PostsOwnRun' /\ UploadsAccepted' /\ KeptUntilAccepted'
  BY OwnRunStep, PostedStep, UploadsStep, KeptStep DEF IInv
<1> QED
  BY <1>1, <1>2, <1>3 DEF IInv

\* Hence it always holds.
LEMMA Invariance == Spec => []IInv
BY InitInv, Inductive, PTL DEF Spec

\* The types of the server's, the Mac's, the phones' and the threads' state.
THEOREM TypeCorrect == Spec => []TypeOK
<1>1. IInv => TypeOK
  BY DEF IInv
<1> QED
  BY <1>1, Invariance, PTL

\* installed.json never names a build that is not on the phone: ensure_installed
\* and Pool::refresh forget the record before they change the app.
THEOREM RecordsAreHonest == Spec => []RecordHonest
<1>1. IInv => RecordHonest
  BY DEF IInv
<1> QED
  BY <1>1, Invariance, PTL

\* submit_collected posts under a claim only what that claim's run left on the
\* phone, whatever apps killed processes left running.
THEOREM ClaimsPostTheirOwn == Spec => []PostsOwnRun
<1>1. IInv => PostsOwnRun
  BY DEF IInv
<1> QED
  BY <1>1, Invariance, PTL

\* No result is deleted from a phone before the server accepted it.
THEOREM MeasurementsKept == Spec => []KeptUntilAccepted
<1>1. IInv => KeptUntilAccepted
  BY DEF IInv
<1> QED
  BY <1>1, Invariance, PTL

\* The heartbeat is joined, and what it found is read, before a result or a
\* failure is posted.
THEOREM LeaseSettledFirst == Spec => []SettledBeforePost
<1>1. IInv => SettledBeforePost
  BY DEF IInv, InHand, SettledBeforePost
<1> QED
  BY <1>1, Invariance, PTL


=============================================================================
