----------------------------- MODULE ResultSync -----------------------------
(***************************************************************************)
(* A finished run's result on its way to the server (pipette-cli:          *)
(* results/record.rs, results/store.rs, client/sync.rs, commands/sync.rs). *)
(*                                                                         *)
(* `benchmarks run` saves a result under pending/<id>/ and, with --sync,   *)
(* submits it; `sync` submits every pending one and then asks for the      *)
(* scores of the synced ones.  Any number of these commands may run at     *)
(* once over one workspace, and any may be killed.  What keeps a result    *)
(* from being posted twice is a lock file beside its directory, which is   *)
(* unlinked when the directory has moved, and a marker inside it with the  *)
(* job the server gave it.                                                 *)
(*                                                                         *)
(* The command that saves a result is named by the result.  The n-th job   *)
(* the server opened for a result is the pair <<result, n>>.               *)
(***************************************************************************)
EXTENDS Naturals, FiniteSets

CONSTANTS
    Results,    \* result ids, and the `benchmarks run` that saves each
    Syncers,    \* `sync` commands
    MaxSyncs,   \* bound on runs of `sync`
    MaxFaults,  \* bound on kills, refused posts, lost answers and failed writes
    MaxInodes   \* bound on lock files created for one result

Procs == Results \cup Syncers
Jobs == 1 .. MaxFaults + 2
NoResult == "none"

ASSUME ProcsAssumption ==
    /\ Results \cap Syncers = {}
    /\ NoResult \notin Results
ASSUME BoundsAssumption ==
    /\ MaxSyncs \in Nat
    /\ MaxFaults \in Nat
    /\ MaxInodes \in Nat

VARIABLES
    dir,      \* results whose pending directory exists
    payload,  \* result -> its payload.json there
    extras,   \* results with an extras.json there
    marker,   \* result -> the job in its job_id marker, 0 for none
    path,     \* result -> the file at its lock path, 0 for none
    inodes,   \* result -> lock files created so far
    synced,   \* the jobs with a directory under synced/
    metrics,  \* job -> its metrics.json
    pc,       \* process -> what it does next
    todo,     \* process -> results it has still to submit
    work,     \* process -> the result it is submitting
    handle,   \* process -> the lock file it opened
    holds,    \* processes that hold the lock of their handle
    job,      \* process -> the job it is moving to, or asking about
    refresh,  \* process -> jobs it found without valid metrics
    filed,    \* result -> jobs the server has opened for it
    scored,   \* jobs the server has processed
    syncs,    \* runs of `sync` so far
    faults,   \* faults so far
    \* History, read by the properties and by no action:
    cuts,     \* result -> posts whose job never reached the marker
    killed    \* whether a process was killed

diskVars == <<dir, payload, extras, marker, path, inodes, synced, metrics>>
procVars == <<pc, todo, work, handle, holds, job, refresh>>
vars == <<diskVars, procVars, filed, scored, syncs, faults, cuts, killed>>

-----------------------------------------------------------------------------
(* Saving a result. *)

\* save_payload: the directory is made and the file truncated ...
SaveBegins(r) ==
    /\ pc[r] = "new"
    /\ dir' = dir \cup {r}
    /\ payload' = [payload EXCEPT ![r] = "torn"]
    /\ pc' = [pc EXCEPT ![r] = "payload"]
    /\ UNCHANGED <<extras, marker, path, inodes, synced, metrics, todo, work,
                   handle, holds, job, refresh, filed, scored, syncs, faults, cuts, killed>>

\* ... and then written.
SavePayload(r) ==
    /\ pc[r] = "payload"
    /\ payload' = [payload EXCEPT ![r] = "whole"]
    /\ pc' = [pc EXCEPT ![r] = "extras"]
    /\ UNCHANGED <<dir, extras, marker, path, inodes, synced, metrics, todo, work,
                   handle, holds, job, refresh, filed, scored, syncs, faults, cuts, killed>>

\* save_extras, which makes the directory again if it has to; with --sync the
\* result is submitted next.
SaveExtras(r) ==
    /\ pc[r] = "extras"
    /\ dir' = dir \cup {r}
    /\ extras' = extras \cup {r}
    /\ \/ /\ pc' = [pc EXCEPT ![r] = "next"]
          /\ todo' = [todo EXCEPT ![r] = {r}]
       \/ /\ pc' = [pc EXCEPT ![r] = "done"]
          /\ UNCHANGED todo
    /\ UNCHANGED <<payload, marker, path, inodes, synced, metrics, work, handle,
                   holds, job, refresh, filed, scored, syncs, faults, cuts, killed>>

-----------------------------------------------------------------------------
(* submit_pending_result. *)

\* The process lets go of the result, its file handle and its lock.
LetGo(p) ==
    /\ work' = [work EXCEPT ![p] = NoResult]
    /\ handle' = [handle EXCEPT ![p] = 0]
    /\ holds' = holds \ {p}
    /\ job' = [job EXCEPT ![p] = 0]
    /\ pc' = [pc EXCEPT ![p] = "next"]

\* A kill, or a step that fails.
Fault == faults < MaxFaults /\ faults' = faults + 1

\* Mutant: every process makes a lock file of its own and puts it in place.
MutOpen(p, r) ==
    /\ pc[p] = "next"
    /\ r \in todo[p]
    /\ todo' = [todo EXCEPT ![p] = @ \ {r}]
    /\ work' = [work EXCEPT ![p] = r]
    /\ inodes[r] < MaxInodes
    /\ inodes' = [inodes EXCEPT ![r] = @ + 1]
    /\ path' = [path EXCEPT ![r] = inodes[r] + 1]
    /\ handle' = [handle EXCEPT ![p] = inodes[r] + 1]
    /\ pc' = [pc EXCEPT ![p] = "lock"]
    /\ UNCHANGED <<dir, payload, extras, marker, synced, metrics, holds, job, refresh,
                   filed, scored, syncs, faults, cuts, killed>>

\* File::create: the file at the lock path, made if it is not there.
Open(p, r) ==
    /\ pc[p] = "next"
    /\ r \in todo[p]
    /\ todo' = [todo EXCEPT ![p] = @ \ {r}]
    /\ work' = [work EXCEPT ![p] = r]
    /\ IF path[r] = 0
       THEN /\ inodes[r] < MaxInodes
            /\ inodes' = [inodes EXCEPT ![r] = @ + 1]
            /\ path' = [path EXCEPT ![r] = inodes[r] + 1]
            /\ handle' = [handle EXCEPT ![p] = inodes[r] + 1]
       ELSE /\ handle' = [handle EXCEPT ![p] = path[r]]
            /\ UNCHANGED <<path, inodes>>
    /\ pc' = [pc EXCEPT ![p] = "lock"]
    /\ UNCHANGED <<dir, payload, extras, marker, synced, metrics, holds, job, refresh,
                   filed, scored, syncs, faults, cuts, killed>>

Locked(p) == \E q \in holds : work[q] = work[p] /\ handle[q] = handle[p]

\* try_lock is granted.
TryLock(p) ==
    /\ pc[p] = "lock"
    /\ ~ Locked(p)
    /\ holds' = holds \cup {p}
    /\ pc' = [pc EXCEPT ![p] = "check"]
    /\ UNCHANGED <<diskVars, todo, work, handle, job, refresh, filed, scored, syncs,
                   faults, cuts, killed>>

\* try_lock would block: another process has the result.
Skip(p) ==
    /\ pc[p] = "lock"
    /\ Locked(p)
    /\ LetGo(p)
    /\ UNCHANGED <<diskVars, todo, refresh, filed, scored, syncs, faults, cuts, killed>>

\* Mutant: the lock file of a result that has moved is left.
MutMoved(p) ==
    /\ pc[p] = "check"
    /\ work[p] \notin dir
    /\ LetGo(p)
    /\ UNCHANGED <<diskVars, todo, refresh, filed, scored, syncs, faults, cuts, killed>>

\* The recheck under the lock: a result that has moved leaves only its lock
\* file behind.
Moved(p) ==
    /\ pc[p] = "check"
    /\ work[p] \notin dir
    /\ path' = [path EXCEPT ![work[p]] = 0]
    /\ LetGo(p)
    /\ UNCHANGED <<dir, payload, extras, marker, inodes, synced, metrics, todo,
                   refresh, filed, scored, syncs, faults, cuts, killed>>

\* Mutant: the result's own id is taken for the job's.
MutResume(p) ==
    /\ pc[p] = "check"
    /\ work[p] \in dir
    /\ marker[work[p]] # 0
    /\ job' = [job EXCEPT ![p] = work[p]]
    /\ pc' = [pc EXCEPT ![p] = "move"]
    /\ UNCHANGED <<diskVars, todo, work, handle, holds, refresh, filed, scored, syncs,
                   faults, cuts, killed>>

\* A marker names the job of an earlier post: only the move is left.
Resume(p) ==
    /\ pc[p] = "check"
    /\ work[p] \in dir
    /\ marker[work[p]] # 0
    /\ job' = [job EXCEPT ![p] = marker[work[p]]]
    /\ pc' = [pc EXCEPT ![p] = "move"]
    /\ UNCHANGED <<diskVars, todo, work, handle, holds, refresh, filed, scored, syncs,
                   faults, cuts, killed>>

\* Mutant: the marker is written ahead of the POST.
MutLoad(p) ==
    /\ pc[p] = "check"
    /\ work[p] \in dir
    /\ marker[work[p]] = 0
    /\ IF payload[work[p]] = "whole"
       THEN /\ marker' = [marker EXCEPT ![work[p]] = filed[work[p]] + 1]
            /\ pc' = [pc EXCEPT ![p] = "post"]
            /\ UNCHANGED <<work, handle, holds, job>>
       ELSE LetGo(p) /\ UNCHANGED marker
    /\ UNCHANGED <<dir, payload, extras, path, inodes, synced, metrics, todo, refresh,
                   filed, scored, syncs, faults, cuts, killed>>

\* The payload is read, or does not read.
Load(p) ==
    /\ pc[p] = "check"
    /\ work[p] \in dir
    /\ marker[work[p]] = 0
    /\ IF payload[work[p]] = "whole"
       THEN /\ pc' = [pc EXCEPT ![p] = "post"]
            /\ UNCHANGED <<work, handle, holds, job>>
       ELSE LetGo(p)
    /\ UNCHANGED <<diskVars, todo, refresh, filed, scored, syncs, faults, cuts, killed>>

\* The server opens a job.
File(r) ==
    /\ filed[r] + 1 \in Jobs
    /\ filed' = [filed EXCEPT ![r] = @ + 1]

\* The POST and its answer.
Post(p) ==
    /\ pc[p] = "post"
    /\ File(work[p])
    /\ job' = [job EXCEPT ![p] = filed[work[p]] + 1]
    /\ pc' = [pc EXCEPT ![p] = "mark"]
    /\ UNCHANGED <<diskVars, todo, work, handle, holds, refresh, scored, syncs, faults,
                   cuts, killed>>

\* The POST fails, before the server had it or after.
PostFails(p) ==
    /\ pc[p] = "post"
    /\ Fault
    /\ \/ UNCHANGED <<filed, cuts>>
       \/ /\ File(work[p])
          /\ cuts' = [cuts EXCEPT ![work[p]] = @ + 1]
    /\ LetGo(p)
    /\ UNCHANGED <<diskVars, todo, refresh, scored, syncs, killed>>

\* The marker is renamed into place.
Mark(p) ==
    /\ pc[p] = "mark"
    /\ marker' = [marker EXCEPT ![work[p]] = job[p]]
    /\ pc' = [pc EXCEPT ![p] = "move"]
    /\ UNCHANGED <<dir, payload, extras, path, inodes, synced, metrics, todo, work,
                   handle, holds, job, refresh, filed, scored, syncs, faults, cuts, killed>>

\* It cannot be written: the next submit posts again.
MarkFails(p) ==
    /\ pc[p] = "mark"
    /\ Fault
    /\ cuts' = [cuts EXCEPT ![work[p]] = @ + 1]
    /\ LetGo(p)
    /\ UNCHANGED <<diskVars, todo, refresh, filed, scored, syncs, killed>>

\* Mutant: the directory is copied.
MutMove(p) ==
    /\ pc[p] = "move"
    /\ synced' = synced \cup {<<work[p], job[p]>>}
    /\ pc' = [pc EXCEPT ![p] = "unlink"]
    /\ UNCHANGED <<dir, payload, extras, marker, path, inodes, metrics, todo, work, handle,
                   holds, job, refresh, filed, scored, syncs, faults, cuts, killed>>

\* move_result_dir: one rename, or nothing when the directory is gone.
Move(p) ==
    /\ pc[p] = "move"
    /\ LET r == work[p]
       IN  IF r \in dir
           THEN /\ synced' = synced \cup {<<r, job[p]>>}
                /\ dir' = dir \ {r}
                /\ payload' = [payload EXCEPT ![r] = "none"]
                /\ extras' = extras \ {r}
                /\ marker' = [marker EXCEPT ![r] = 0]
           ELSE UNCHANGED <<synced, dir, payload, extras, marker>>
    /\ pc' = [pc EXCEPT ![p] = "unlink"]
    /\ UNCHANGED <<path, inodes, metrics, todo, work, handle, holds, job, refresh,
                   filed, scored, syncs, faults, cuts, killed>>

\* The rename fails: the marker stays for the next submit.
MoveFails(p) ==
    /\ pc[p] = "move"
    /\ Fault
    /\ LetGo(p)
    /\ UNCHANGED <<diskVars, todo, refresh, filed, scored, syncs, cuts, killed>>

\* The lock file goes, and with the handle the lock.
Unlink(p) ==
    /\ pc[p] = "unlink"
    /\ path' = [path EXCEPT ![work[p]] = 0]
    /\ LetGo(p)
    /\ UNCHANGED <<dir, payload, extras, marker, inodes, synced, metrics, todo,
                   refresh, filed, scored, syncs, faults, cuts, killed>>

-----------------------------------------------------------------------------
(* The commands around it. *)

\* `sync` lists the pending directories, or is given one of them.
SyncStart(p) ==
    /\ pc[p] = "idle"
    /\ syncs < MaxSyncs
    /\ syncs' = syncs + 1
    /\ \E S \in {dir} \cup {{r} : r \in dir} : todo' = [todo EXCEPT ![p] = S]
    /\ pc' = [pc EXCEPT ![p] = "next"]
    /\ UNCHANGED <<diskVars, work, handle, holds, job, refresh, filed, scored, faults,
                   cuts, killed>>

\* score_refresh_state: a score on disk is final.
NeedsRefresh == {j \in synced : metrics[j] # "whole"}

\* The drain is over.  A run ends here, a `sync` goes on to the scores: it looks
\* first which synced jobs have no valid metrics.
Drained(p) ==
    /\ pc[p] = "next"
    /\ todo[p] = {}
    /\ IF p \in Results
       THEN pc' = [pc EXCEPT ![p] = "done"] /\ UNCHANGED refresh
       ELSE /\ pc' = [pc EXCEPT ![p] = "score"]
            /\ refresh' = [refresh EXCEPT ![p] = NeedsRefresh]
    /\ UNCHANGED <<diskVars, todo, work, handle, holds, job, filed, scored, syncs, faults,
                   cuts, killed>>

\* refresh_scored_job for one of them, which another `sync` may have served since:
\* a processed job's score is written, over a truncated file first.
ScoreBegins(p) ==
    /\ pc[p] = "score"
    /\ \E j \in refresh[p] \cap scored :
        /\ refresh' = [refresh EXCEPT ![p] = @ \ {j}]
        /\ metrics' = [metrics EXCEPT ![j] = "torn"]
        /\ work' = [work EXCEPT ![p] = j[1]]
        /\ job' = [job EXCEPT ![p] = j[2]]
    /\ pc' = [pc EXCEPT ![p] = "metrics"]
    /\ UNCHANGED <<dir, payload, extras, marker, path, inodes, synced, todo, handle,
                   holds, filed, scored, syncs, faults, cuts, killed>>

ScoreEnds(p) ==
    /\ pc[p] = "metrics"
    /\ metrics' = [metrics EXCEPT ![<<work[p], job[p]>>] = "whole"]
    /\ work' = [work EXCEPT ![p] = NoResult]
    /\ job' = [job EXCEPT ![p] = 0]
    /\ pc' = [pc EXCEPT ![p] = "score"]
    /\ UNCHANGED <<dir, payload, extras, marker, path, inodes, synced, todo, handle,
                   holds, refresh, filed, scored, syncs, faults, cuts, killed>>

\* `sync` exits.
SyncEnds(p) ==
    /\ pc[p] = "score"
    /\ pc' = [pc EXCEPT ![p] = "idle"]
    /\ refresh' = [refresh EXCEPT ![p] = {}]
    /\ UNCHANGED <<diskVars, todo, work, handle, holds, job, filed, scored, syncs, faults,
                   cuts, killed>>

\* The server processes a job.
ServerScores(j) ==
    /\ j[2] <= filed[j[1]]
    /\ j \notin scored
    /\ scored' = scored \cup {j}
    /\ UNCHANGED <<diskVars, procVars, filed, syncs, faults, cuts, killed>>

\* A process is killed; the system drops its locks.
Kill(p) ==
    /\ pc[p] \notin {"idle", "new", "done"}
    /\ Fault
    /\ killed' = TRUE
    /\ cuts' = IF pc[p] = "mark" THEN [cuts EXCEPT ![work[p]] = @ + 1] ELSE cuts
    /\ pc' = [pc EXCEPT ![p] = IF p \in Results THEN "done" ELSE "idle"]
    /\ todo' = [todo EXCEPT ![p] = {}]
    /\ work' = [work EXCEPT ![p] = NoResult]
    /\ handle' = [handle EXCEPT ![p] = 0]
    /\ holds' = holds \ {p}
    /\ job' = [job EXCEPT ![p] = 0]
    /\ refresh' = [refresh EXCEPT ![p] = {}]
    /\ UNCHANGED <<diskVars, filed, scored, syncs>>

-----------------------------------------------------------------------------

Init ==
    /\ dir = {}
    /\ payload = [r \in Results |-> "none"]
    /\ extras = {}
    /\ marker = [r \in Results |-> 0]
    /\ path = [r \in Results |-> 0]
    /\ inodes = [r \in Results |-> 0]
    /\ synced = {}
    /\ metrics = [j \in Results \X Jobs |-> "none"]
    /\ pc = [p \in Procs |-> IF p \in Results THEN "new" ELSE "idle"]
    /\ todo = [p \in Procs |-> {}]
    /\ work = [p \in Procs |-> NoResult]
    /\ handle = [p \in Procs |-> 0]
    /\ holds = {}
    /\ job = [p \in Procs |-> 0]
    /\ refresh = [p \in Procs |-> {}]
    /\ filed = [r \in Results |-> 0]
    /\ scored = {}
    /\ syncs = 0
    /\ faults = 0
    /\ cuts = [r \in Results |-> 0]
    /\ killed = FALSE

Save(r) == SaveBegins(r) \/ SavePayload(r) \/ SaveExtras(r)

Submit(p) ==
    \/ \E r \in Results : Open(p, r)
    \/ TryLock(p)
    \/ Skip(p)
    \/ Moved(p)
    \/ Resume(p)
    \/ Load(p)
    \/ Post(p)
    \/ PostFails(p)
    \/ Mark(p)
    \/ MarkFails(p)
    \/ Move(p)
    \/ MoveFails(p)
    \/ Unlink(p)
    \/ Drained(p)

Sync(p) == SyncStart(p) \/ ScoreBegins(p) \/ ScoreEnds(p) \/ SyncEnds(p)

Next ==
    \/ \E r \in Results : Save(r)
    \/ \E p \in Procs : Submit(p) \/ Kill(p)
    \/ \E p \in Syncers : Sync(p)
    \/ \E j \in Results \X Jobs : ServerScores(j)

Spec == Init /\ [][Next]_vars

-----------------------------------------------------------------------------
(* Properties. *)

\* The type invariant: files, processes, and what is counted.
DiskOK ==
    /\ dir \subseteq Results
    /\ payload \in [Results -> {"none", "torn", "whole"}]
    /\ extras \subseteq Results
    /\ marker \in [Results -> Jobs \cup {0}]
    /\ path \in [Results -> 0 .. MaxInodes]
    /\ inodes \in [Results -> 0 .. MaxInodes]
    /\ synced \subseteq Results \X Jobs
    /\ metrics \in [Results \X Jobs -> {"none", "torn", "whole"}]

ProcsOK ==
    /\ pc \in [Procs -> {"new", "payload", "extras", "idle", "next", "lock", "check",
                         "post", "mark", "move", "unlink", "score", "metrics", "done"}]
    /\ todo \in [Procs -> SUBSET Results]
    /\ work \in [Procs -> Results \cup {NoResult}]
    /\ handle \in [Procs -> 0 .. MaxInodes]
    /\ holds \subseteq Procs
    /\ job \in [Procs -> Jobs \cup {0}]
    /\ refresh \in [Procs -> SUBSET (Results \X Jobs)]

CountsOK ==
    /\ filed \in [Results -> Jobs \cup {0}]
    /\ scored \subseteq Results \X Jobs
    /\ syncs \in 0 .. MaxSyncs
    /\ faults \in 0 .. MaxFaults
    /\ cuts \in [Results -> 0 .. MaxFaults]
    /\ killed \in BOOLEAN

TypeOK == DiskOK /\ ProcsOK /\ CountsOK

\* However many commands submit it, a result is posted once more only after a
\* post whose job never reached the marker: the lock file that the mover
\* unlinks under the others' handles still lets one of them post at a time.
PostedOnce == \A r \in Results : filed[r] <= 1 + cuts[r]

Copies(r) == {j \in synced : j[1] = r}

\* A result whose payload was saved is in one place, whoever was killed: pending
\* with the payload whole, or synced under one job.
OnePlace ==
    \A r \in Results :
        pc[r] \notin {"new", "payload"} /\ payload[r] # "torn"
        => Cardinality(Copies(r)) + (IF payload[r] = "whole" THEN 1 ELSE 0) = 1

\* What is filed as synced is filed under a job the server opened for that very
\* result; a marker names such a job, also after a kill; and a score on disk is
\* one the server gave.
SyncedIsFiled ==
    /\ \A j \in synced : j[2] <= filed[j[1]]
    /\ \A r \in Results : marker[r] <= filed[r]
    /\ \A j \in Results \X Jobs : metrics[j] = "whole" => j \in scored \cap synced

\* When every command has ended and none was killed, a lock file is left only
\* beside a result that is still pending.
NoLockFileLeft ==
    ~ killed /\ (\A p \in Procs : pc[p] \in {"idle", "new", "done"})
    => \A r \in Results : path[r] # 0 => r \in dir

-----------------------------------------------------------------------------
(* The inductive invariant behind the properties. *)

Working == {"lock", "check", "post", "mark", "move", "unlink"}
Holding == {"check", "post", "mark", "move", "unlink"}
Posting == {"post", "mark", "move"}

\* What a process has in its hands at each of its steps.
Scopes ==
    \A p \in Procs :
        /\ p \in holds <=> pc[p] \in Holding
        /\ pc[p] \in Working => work[p] \in Results
        /\ pc[p] \in {"mark", "move"} => job[p] \in Jobs /\ job[p] <= filed[work[p]]
        /\ refresh[p] \subseteq synced
        /\ pc[p] = "metrics" => <<work[p], job[p]>> \in synced \cap scored

\* A result nobody has begun to save is nowhere; one that was saved has its
\* payload in the pending directory, or has moved, once.
InPlace ==
    \A r \in Results :
        /\ pc[r] = "new" => /\ r \notin dir /\ payload[r] = "none" /\ path[r] = 0
                           /\ Copies(r) = {}
                           /\ \A p \in Procs : /\ r \notin todo[p]
                                               /\ ~ (pc[p] \in Working /\ work[p] = r)
        /\ pc[r] = "payload" => payload[r] = "torn"
        /\ payload[r] # "none" => r \in dir /\ Copies(r) = {}
        /\ pc[r] # "new" /\ payload[r] = "none" => \E n \in Jobs : Copies(r) = {<<r, n>>}
        /\ marker[r] # 0 => payload[r] = "whole"

\* One process holds a lock file; and as long as a result has not moved, its
\* lock file is not unlinked, so all who work on it have the same one open.
Exclusive ==
    /\ \A p, q \in holds : work[p] = work[q] /\ handle[p] = handle[q] => p = q
    /\ \A p \in Procs :
        /\ pc[p] \in Working /\ payload[work[p]] # "none"
            => handle[p] = path[work[p]] /\ path[work[p]] # 0
        /\ pc[p] \in Posting => payload[work[p]] = "whole"
        /\ pc[p] \in {"post", "mark"} => marker[work[p]] = 0
        /\ pc[p] = "move" => marker[work[p]] = job[p]
        /\ pc[p] = "unlink" => payload[work[p]] = "none"

\* No job is on record for the result: not filed here, not about to be.
Unrecorded(r) ==
    /\ Copies(r) = {}
    /\ marker[r] = 0
    /\ \A p \in Procs : ~ (pc[p] = "mark" /\ work[p] = r)

\* Every job the server opened but one was cut off from its marker; every one,
\* if none is on record.
Accounted ==
    \A r \in Results :
        /\ cuts[r] <= faults
        /\ filed[r] <= 1 + cuts[r]
        /\ Unrecorded(r) => filed[r] <= cuts[r]

\* A lock file beside a result that has moved has someone to unlink it.
Unlinker ==
    ~ killed => \A r \in Results :
        path[r] # 0 /\ r \notin dir
        => \E p \in Procs : work[p] = r /\ pc[p] \in {"lock", "check", "unlink"}

IInv ==
    /\ TypeOK
    /\ Scopes
    /\ InPlace
    /\ Exclusive
    /\ Accounted
    /\ SyncedIsFiled
    /\ Unlinker

=============================================================================
