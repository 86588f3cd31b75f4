---------------------------- MODULE ArtifactStore ----------------------------
(***************************************************************************)
(* The artifact store several `pipette` processes share                    *)
(* (pipette-artifacts: entry.rs, ensure.rs, quota.rs, model/store.rs;      *)
(* runtime/store.rs follows the same protocol): find-or-fetch of an entry, *)
(* its publish from a staged directory, the in-use lock of a run, and the  *)
(* sweep that brings the store back under its quota.                       *)
(*                                                                         *)
(* The processes meet only in the file system. One action is one operation *)
(* on it that another process can see, and a process may die between two.  *)
(* A lock is an OS file lock: it goes with its process, its file does not. *)
(*                                                                         *)
(* Every entry has size one, and time is the order of last use.            *)
(***************************************************************************)
EXTENDS Naturals, Sequences, FiniteSets

CONSTANTS
    Procs,      \* processes sharing the store
    NoProc,     \* not a process
    Keys,       \* storage keys
    NoKey,      \* not a key
    Names,      \* names of staged directories; a live one is never given twice
    NoName,     \* not a name
    Torn,       \* keys whose entry starts with a manifest that does not parse
    Quota,      \* the cap, in entries
    LockTries,  \* STAGING_LOCK_ATTEMPTS
    MaxStarts,  \* bound on the commands started
    MaxCrashes, \* bound on the processes that die
    MaxDeletes  \* bound on the steps of deletes by hand

ASSUME SentinelAssumption ==
    NoProc \notin Procs /\ NoKey \notin Keys /\ NoName \notin Names
ASSUME StoreAssumption ==
    /\ Torn \subseteq Keys
    /\ Quota \in Nat /\ LockTries \in Nat \ {0}
    /\ MaxStarts \in Nat /\ MaxCrashes \in Nat /\ MaxDeletes \in Nat

VARIABLES
    \* The file system
    entry,    \* key -> what its directory holds
    recency,  \* published keys, least recently used first (last_used_at)
    dir,      \* staging name -> its directory
    file,     \* staging names with a lock file
    \* The OS locks
    elock,    \* key -> holder of .locks/<key>.lock
    shared,   \* key -> holders of a shared lock on .locks/<key>.use
    excl,     \* key -> exclusive holder of .locks/<key>.use
    slock,    \* staging name -> holder of its lock
    \* The processes
    pc,
    key,      \* the entry being resolved, NoKey for a bare sweep
    back,     \* where a lookup returns to
    collect,  \* whether this resolve published, so it sweeps (collecting_policy)
    name,     \* the staging name in use
    victim,   \* the entry a sweep is removing
    tries,    \* staging names spent
    pins,     \* the sweep's pins
    trash,    \* garbage planned and not yet tried
    live,     \* live evictions planned and not yet tried, with their order
    again,    \* a removal failed on an entry not yet pinned
    \* Bounds and history
    starts, crashes, deletes,
    swept     \* processes whose lookup failed on an entry that went under it

fileVars == <<entry, recency, dir, file>>
lockVars == <<elock, shared, excl, slock>>
sweepVars == <<victim, pins, trash, live, again>>
procVars == <<pc, key, back, collect, name, tries>>
boundVars == <<starts, crashes, deletes>>
vars == <<fileVars, lockVars, procVars, sweepVars, boundVars, swept>>

\* "whole" is a manifest with all of its payload, "part" one without, "torn" a
\* manifest that does not parse, "husk" a directory without a manifest.
Contents == {"absent", "husk", "torn", "part", "whole"}

\* "open" holds what its fetch put there, "cut" lost some of it, "doomed" is an
\* entry a sweep moved out.
Staged == {"none", "open", "cut", "doomed"}

PC == {"idle", "exists", "read", "touch", "elock", "repair", "stage", "slock",
       "fetch", "clear", "wipe", "publish", "unstage", "hold", "survey",
       "apply", "move", "delete", "rmdir", "rmlock", "run"}

\* Garbage a survey reports: an entry, an orphaned staged directory, or an
\* orphaned staging lock.
Trash == ({"entry"} \X Keys) \cup ({"dir", "lock"} \X Names)

FilesOK ==
    /\ entry \in [Keys -> Contents]
    /\ recency \in Seq(Keys)
    /\ dir \in [Names -> Staged]
    /\ file \in SUBSET Names

LocksOK ==
    /\ elock \in [Keys -> Procs \cup {NoProc}]
    /\ shared \in [Keys -> SUBSET Procs]
    /\ excl \in [Keys -> Procs \cup {NoProc}]
    /\ slock \in [Names -> Procs \cup {NoProc}]

ProcsOK ==
    /\ pc \in [Procs -> PC]
    /\ key \in [Procs -> Keys \cup {NoKey}]
    /\ back \in [Procs -> {"first", "ensure", "relook", "check"}]
    /\ collect \in [Procs -> BOOLEAN]
    /\ name \in [Procs -> Names \cup {NoName}]
    /\ tries \in [Procs -> 0 .. LockTries - 1]

SweepsOK ==
    /\ victim \in [Procs -> Keys \cup {NoKey}]
    /\ pins \in [Procs -> SUBSET Keys]
    /\ trash \in [Procs -> SUBSET Trash]
    /\ live \in [Procs -> SUBSET (Nat \X Keys)]
    /\ again \in [Procs -> BOOLEAN]

BoundsOK ==
    /\ starts \in 0 .. MaxStarts
    /\ crashes \in 0 .. MaxCrashes
    /\ deletes \in 0 .. MaxDeletes
    /\ swept \in SUBSET Procs

TypeOK == FilesOK /\ LocksOK /\ ProcsOK /\ SweepsOK /\ BoundsOK

Init ==
    /\ entry = [k \in Keys |-> IF k \in Torn THEN "torn" ELSE "absent"]
    /\ recency = <<>>
    /\ dir = [n \in Names |-> "none"] /\ file = {}
    /\ elock = [k \in Keys |-> NoProc] /\ shared = [k \in Keys |-> {}]
    /\ excl = [k \in Keys |-> NoProc] /\ slock = [n \in Names |-> NoProc]
    /\ pc = [p \in Procs |-> "idle"] /\ key = [p \in Procs |-> NoKey]
    /\ back = [p \in Procs |-> "first"] /\ collect = [p \in Procs |-> FALSE]
    /\ name = [p \in Procs |-> NoName] /\ tries = [p \in Procs |-> 0]
    /\ victim = [p \in Procs |-> NoKey] /\ pins = [p \in Procs |-> {}]
    /\ trash = [p \in Procs |-> {}] /\ live = [p \in Procs |-> {}]
    /\ again = [p \in Procs |-> FALSE]
    /\ starts = 0 /\ crashes = 0 /\ deletes = 0 /\ swept = {}

-----------------------------------------------------------------------------
(* Helpers                                                                 *)

Goto(p, l) == pc' = [pc EXCEPT ![p] = l]

\* The OS drops every lock of a process that closes its files or dies.
DropLocks(p) ==
    /\ elock' = [k \in Keys |-> IF elock[k] = p THEN NoProc ELSE elock[k]]
    /\ shared' = [k \in Keys |-> shared[k] \ {p}]
    /\ excl' = [k \in Keys |-> IF excl[k] = p THEN NoProc ELSE excl[k]]
    /\ slock' = [n \in Names |-> IF slock[n] = p THEN NoProc ELSE slock[n]]

\* The process of a command is gone, or the command is over.
Forgotten(p) ==
    /\ DropLocks(p)
    /\ Goto(p, "idle")
    /\ key' = [key EXCEPT ![p] = NoKey]
    /\ back' = [back EXCEPT ![p] = "first"]
    /\ collect' = [collect EXCEPT ![p] = FALSE]
    /\ name' = [name EXCEPT ![p] = NoName]
    /\ tries' = [tries EXCEPT ![p] = 0]
    /\ victim' = [victim EXCEPT ![p] = NoKey]
    /\ pins' = [pins EXCEPT ![p] = {}]
    /\ trash' = [trash EXCEPT ![p] = {}]
    /\ live' = [live EXCEPT ![p] = {}]
    /\ again' = [again EXCEPT ![p] = FALSE]
Ends(p) == Forgotten(p) /\ UNCHANGED boundVars

\* A resolve fails, leaving no file of its own.
Fails(p) == Ends(p) /\ UNCHANGED fileVars

HasManifest(k) == entry[k] \in {"torn", "part", "whole"}

\* k becomes the last used; it is in the sequence at most once.
Touched(k) ==
    LET at == {i \in 1 .. Len(recency) : recency[i] = k}
        i == CHOOSE i \in at : TRUE
        others == IF at = {} THEN recency
                  ELSE SubSeq(recency, 1, i - 1) \o SubSeq(recency, i + 1, Len(recency))
    IN  Append(others, k)

\* A name carries 32 random bits: none in use, or remembered, comes again.
Fresh(n) ==
    /\ dir[n] = "none" /\ n \notin file /\ slock[n] = NoProc
    /\ \A p \in Procs :
        name[p] # n /\ <<"dir", n>> \notin trash[p] /\ <<"lock", n>> \notin trash[p]

Fetching(p) == pc[p] \in {"fetch", "clear", "wipe", "publish"}

-----------------------------------------------------------------------------
(* find, in its four uses: the first look of ensure_model, the look of     *)
(* `ensure`, the second look under the fetch lock, and the look under the  *)
(* in-use lock. It tests for the manifest, then reads it.                  *)

Resolve(p) ==
    /\ pc[p] = "idle" /\ starts < MaxStarts
    /\ \E k \in Keys : key' = [key EXCEPT ![p] = k]
    /\ Goto(p, "exists")
    /\ starts' = starts + 1
    /\ UNCHANGED <<fileVars, lockVars, back, collect, name, tries, sweepVars,
                   crashes, deletes, swept>>

\* What each use does with a missing or unparsable entry, and with a good one.
Missing(p) ==
    CASE back[p] = "first" ->
            /\ Goto(p, "exists")
            /\ back' = [back EXCEPT ![p] = "ensure"]
            /\ collect' = [collect EXCEPT ![p] = TRUE]
            /\ UNCHANGED shared
      [] back[p] = "ensure" -> Goto(p, "elock") /\ UNCHANGED <<back, collect, shared>>
      [] back[p] = "relook" ->
            /\ Goto(p, IF entry[key[p]] = "torn" THEN "repair" ELSE "stage")
            /\ UNCHANGED <<back, collect, shared>>
      [] back[p] = "check" ->
            /\ Goto(p, "exists")
            /\ back' = [back EXCEPT ![p] = "ensure"]
            /\ collect' = [collect EXCEPT ![p] = TRUE]
            /\ shared' = [shared EXCEPT ![key[p]] = @ \ {p}]

Present(p) ==
    /\ CASE back[p] = "first" ->
                Goto(p, "exists") /\ back' = [back EXCEPT ![p] = "ensure"]
         [] back[p] = "check" ->
                Goto(p, IF collect[p] THEN "survey" ELSE "run") /\ UNCHANGED back
         [] OTHER -> Goto(p, "touch") /\ UNCHANGED back
    /\ UNCHANGED <<collect, shared>>

FindExists(p) ==
    /\ pc[p] = "exists"
    /\ IF HasManifest(key[p])
       THEN Goto(p, "read") /\ UNCHANGED <<back, collect, shared>>
       ELSE Missing(p)
    /\ UNCHANGED <<fileVars, elock, excl, slock, key, name, tries, sweepVars,
                   boundVars, swept>>

FindRead(p) ==
    /\ pc[p] = "read"
    /\ HasManifest(key[p])
    /\ IF entry[key[p]] = "torn" THEN Missing(p) ELSE Present(p)
    /\ UNCHANGED <<fileVars, elock, excl, slock, key, name, tries, sweepVars,
                   boundVars, swept>>

\* The entry went between the two: the read is an Io error, not a miss.
FindReadFails(p) ==
    /\ pc[p] = "read"
    /\ ~HasManifest(key[p])
    /\ Fails(p)
    /\ swept' = swept \cup {p}

\* Best effort, and never creates the directory: an entry that went stays gone.
\* A stamp on one that is being deleted leaves a manifest without its payload.
Touch(p) ==
    /\ pc[p] = "touch"
    /\ IF entry[key[p]] = "absent"
       THEN UNCHANGED <<entry, recency>>
       ELSE /\ recency' = Touched(key[p])
            /\ entry' = [entry EXCEPT ![key[p]] =
                            IF @ = "whole" THEN "whole" ELSE "part"]
    /\ elock' = [k \in Keys |-> IF elock[k] = p THEN NoProc ELSE elock[k]]
    /\ Goto(p, "hold")
    /\ UNCHANGED <<dir, file, shared, excl, slock, key, back, collect, name,
                   tries, sweepVars, boundVars, swept>>

-----------------------------------------------------------------------------
(* ensure: fetch and publish under the entry's lock                        *)

\* The fetch lock without the second look.
MutLockEntry(p) ==
    /\ pc[p] = "elock"
    /\ elock[key[p]] = NoProc
    /\ elock' = [elock EXCEPT ![key[p]] = p]
    /\ Goto(p, "stage")
    /\ UNCHANGED <<fileVars, shared, excl, slock, key, back, collect, name,
                   tries, sweepVars, boundVars, swept>>

\* lock_entry: waits for the process that fetches it, then looks again.
LockEntry(p) ==
    /\ pc[p] = "elock"
    /\ elock[key[p]] = NoProc
    /\ elock' = [elock EXCEPT ![key[p]] = p]
    /\ Goto(p, "exists")
    /\ back' = [back EXCEPT ![p] = "relook"]
    /\ UNCHANGED <<fileVars, shared, excl, slock, key, collect, name, tries,
                   sweepVars, boundVars, swept>>

\* An entry whose manifest does not parse is removed before the fetch, without
\* its in-use lock. It tests for the directory before it removes it.
Repair(p) ==
    /\ pc[p] = "repair"
    /\ entry' = [entry EXCEPT ![key[p]] = "absent"]
    /\ Goto(p, "stage")
    /\ UNCHANGED <<recency, dir, file, lockVars, key, back, collect, name,
                   tries, sweepVars, boundVars, swept>>

RepairFails(p) ==
    /\ pc[p] = "repair"
    /\ entry[key[p]] = "absent"
    /\ Fails(p)
    /\ UNCHANGED swept

\* StagedDir::create: the lock file first, then its lock, then the directory.
CreateLockFile(p) ==
    /\ pc[p] = "stage"
    /\ \E n \in Names :
        /\ Fresh(n)
        /\ file' = file \cup {n}
        /\ name' = [name EXCEPT ![p] = n]
    /\ Goto(p, "slock")
    /\ UNCHANGED <<entry, recency, dir, lockVars, key, back, collect, tries,
                   sweepVars, boundVars, swept>>

\* A lock file a sweep removed before it was locked is trusted.
MutLockStaged(p) ==
    /\ pc[p] = "slock"
    /\ slock[name[p]] = NoProc
    /\ slock' = [slock EXCEPT ![name[p]] = p]
    /\ dir' = [dir EXCEPT ![name[p]] = "open"]
    /\ Goto(p, "fetch")
    /\ UNCHANGED <<entry, recency, file, elock, shared, excl, key, back,
                   collect, name, tries, sweepVars, boundVars, swept>>

\* Names are tried without end.
MutLockStagedTries(p) ==
    /\ pc[p] = "slock"
    /\ slock[name[p]] = NoProc
    /\ name[p] \notin file
    /\ tries' = [tries EXCEPT ![p] = @ + 1]
    /\ name' = [name EXCEPT ![p] = NoName]
    /\ Goto(p, "stage")
    /\ UNCHANGED <<fileVars, lockVars, key, back, collect, sweepVars,
                   boundVars, swept>>

\* The lock waits for a sweep that holds it. A file that sweep removed spends
\* the name; a name too many fails the fetch.
LockStaged(p) ==
    /\ pc[p] = "slock"
    /\ slock[name[p]] = NoProc
    /\ IF name[p] \in file
       THEN /\ slock' = [slock EXCEPT ![name[p]] = p]
            /\ dir' = [dir EXCEPT ![name[p]] = "open"]
            /\ Goto(p, "fetch")
            /\ UNCHANGED <<name, tries>>
       ELSE /\ tries[p] + 1 < LockTries
            /\ tries' = [tries EXCEPT ![p] = @ + 1]
            /\ name' = [name EXCEPT ![p] = NoName]
            /\ Goto(p, "stage")
            /\ UNCHANGED <<slock, dir>>
    /\ UNCHANGED <<entry, recency, file, elock, shared, excl, key, back,
                   collect, sweepVars, boundVars, swept>>

LockStagedFails(p) ==
    /\ pc[p] = "slock"
    /\ slock[name[p]] = NoProc
    /\ name[p] \notin file
    /\ tries[p] + 1 = LockTries
    /\ Fails(p)
    /\ UNCHANGED swept

\* The payload arrives and is synced, or the fetch fails and cleans up.
FetchDone(p) ==
    /\ pc[p] = "fetch"
    /\ Goto(p, "clear")
    /\ UNCHANGED <<fileVars, lockVars, key, back, collect, name, tries,
                   sweepVars, boundVars, swept>>

FetchFails(p) ==
    /\ pc[p] = "fetch"
    /\ Ends(p)
    /\ dir' = [dir EXCEPT ![name[p]] = "none"]
    /\ file' = file \ {name[p]}
    /\ UNCHANGED <<entry, recency, swept>>

\* replace_staged_path: whatever is at the target goes first.
ClearTarget(p) ==
    /\ pc[p] = "clear"
    /\ Goto(p, IF entry[key[p]] = "absent" THEN "publish" ELSE "wipe")
    /\ UNCHANGED <<fileVars, lockVars, key, back, collect, name, tries,
                   sweepVars, boundVars, swept>>

WipeTarget(p) ==
    /\ pc[p] = "wipe"
    /\ entry' = [entry EXCEPT ![key[p]] = "absent"]
    /\ Goto(p, "publish")
    /\ UNCHANGED <<recency, dir, file, lockVars, key, back, collect, name,
                   tries, sweepVars, boundVars, swept>>

WipeFails(p) ==
    /\ pc[p] = "wipe"
    /\ entry[key[p]] = "absent"
    /\ Ends(p)
    /\ dir' = [dir EXCEPT ![name[p]] = "none"]
    /\ file' = file \ {name[p]}
    /\ UNCHANGED <<entry, recency, swept>>

\* The rename that publishes.
Publish(p) ==
    /\ pc[p] = "publish"
    /\ entry' = [entry EXCEPT ![key[p]] =
                    IF dir[name[p]] = "open" THEN "whole" ELSE "part"]
    /\ recency' = Touched(key[p])
    /\ dir' = [dir EXCEPT ![name[p]] = "none"]
    /\ Goto(p, "unstage")
    /\ UNCHANGED <<file, lockVars, key, back, collect, name, tries, sweepVars,
                   boundVars, swept>>

\* Drop of StagedDir: its lock file goes while locked; then the fetch lock.
Unstage(p) ==
    /\ pc[p] = "unstage"
    /\ file' = file \ {name[p]}
    /\ slock' = [slock EXCEPT ![name[p]] = NoProc]
    /\ elock' = [elock EXCEPT ![key[p]] = NoProc]
    /\ name' = [name EXCEPT ![p] = NoName]
    /\ tries' = [tries EXCEPT ![p] = 0]
    /\ Goto(p, "hold")
    /\ UNCHANGED <<entry, recency, dir, shared, excl, key, back, collect,
                   sweepVars, boundVars, swept>>

\* The run skips the lookup under the in-use lock.
MutHold(p) ==
    /\ pc[p] = "hold"
    /\ excl[key[p]] = NoProc
    /\ shared' = [shared EXCEPT ![key[p]] = @ \cup {p}]
    /\ Goto(p, IF collect[p] THEN "survey" ELSE "run")
    /\ back' = [back EXCEPT ![p] = "check"]
    /\ UNCHANGED <<fileVars, elock, excl, slock, key, collect, name, tries,
                   sweepVars, boundVars, swept>>

\* hold_entry: waits for a sweep that is moving the entry, then looks again.
Hold(p) ==
    /\ pc[p] = "hold"
    /\ excl[key[p]] = NoProc
    /\ shared' = [shared EXCEPT ![key[p]] = @ \cup {p}]
    /\ Goto(p, "exists")
    /\ back' = [back EXCEPT ![p] = "check"]
    /\ UNCHANGED <<fileVars, elock, excl, slock, key, collect, name, tries,
                   sweepVars, boundVars, swept>>

\* The cell is over: the in-use lock goes.
FinishRun(p) ==
    /\ pc[p] = "run"
    /\ Ends(p)
    /\ UNCHANGED <<fileVars, swept>>

-----------------------------------------------------------------------------
(* The sweep, after a resolve that published or on `pipette storage gc`    *)

StartGc(p) ==
    /\ pc[p] = "idle" /\ starts < MaxStarts
    /\ Goto(p, "survey")
    /\ starts' = starts + 1
    /\ UNCHANGED <<fileVars, lockVars, key, back, collect, name, tries,
                   sweepVars, crashes, deletes, swept>>

\* A staging child without a lock file is taken for a running fetch.
MutLockable(n) == n \in file /\ slock[n] = NoProc

\* Whether a sweep can take the lock that guards a staging child; without a
\* lock file there is no fetch.
Lockable(n) == n \notin file \/ slock[n] = NoProc

\* A running fetch is no garbage, and a lock file goes with its directory.
Garbage ==
    ({"entry"} \X {k \in Keys : entry[k] \in {"husk", "torn", "part"}})
    \cup ({"dir"} \X {n \in Names : dir[n] # "none" /\ Lockable(n)})
    \cup ({"lock"} \X {n \in file : dir[n] = "none" /\ Lockable(n)})

\* plan: the least recently used entries that are not pinned, as many as the
\* store is over its quota once the garbage is gone.
Evictions(pinned) ==
    LET held == Cardinality({k \in Keys : entry[k] = "whole"})
        over == IF held <= Quota THEN 0 ELSE held - Quota
        order == {i \in 1 .. Len(recency) :
                    entry[recency[i]] = "whole" /\ recency[i] \notin pinned}
    IN  {<<i, recency[i]>> : i \in {i \in order : Cardinality({j \in order : j < i}) < over}}

Survey(p) ==
    /\ pc[p] = "survey"
    /\ LET pinned == pins[p] \cup ({key[p]} \ {NoKey})
       IN  /\ pins' = [pins EXCEPT ![p] = pinned]
           /\ live' = [live EXCEPT ![p] = Evictions(pinned)]
    /\ trash' = [trash EXCEPT ![p] = Garbage]
    /\ again' = [again EXCEPT ![p] = FALSE]
    /\ Goto(p, "apply")
    /\ UNCHANGED <<fileVars, lockVars, key, back, collect, name, tries, victim,
                   boundVars, swept>>

\* The entry goes without its in-use lock when a process runs from it.
MutTakeInUse(p, k, garbage) ==
    /\ excl[k] = NoProc
    /\ excl' = [excl EXCEPT ![k] = p]
    /\ victim' = [victim EXCEPT ![p] = k]
    /\ Goto(p, "move")
    /\ UNCHANGED <<pins, again>>

\* lock() in the place of try_lock().
MutTakeInUseWaits(p, k, garbage) ==
    /\ shared[k] = {} /\ excl[k] = NoProc
    /\ excl' = [excl EXCEPT ![k] = p]
    /\ victim' = [victim EXCEPT ![p] = k]
    /\ Goto(p, "move")
    /\ UNCHANGED <<pins, again>>

\* take_in_use_lock: an entry in use stays; a live one is pinned and the plan
\* made again.
TakeInUse(p, k, garbage) ==
    IF shared[k] = {} /\ excl[k] = NoProc
    THEN /\ excl' = [excl EXCEPT ![k] = p]
         /\ victim' = [victim EXCEPT ![p] = k]
         /\ Goto(p, "move")
         /\ UNCHANGED <<pins, again>>
    ELSE /\ IF garbage
            THEN UNCHANGED <<pins, again>>
            ELSE /\ pins' = [pins EXCEPT ![p] = @ \cup {k}]
                 /\ again' = [again EXCEPT ![p] = again[p] \/ k \notin pins[p]]
         /\ UNCHANGED <<pc, excl, victim>>

RemoveGarbageEntry(p) ==
    /\ pc[p] = "apply"
    /\ \E k \in Keys :
        /\ <<"entry", k>> \in trash[p]
        /\ trash' = [trash EXCEPT ![p] = @ \ {<<"entry", k>>}]
        /\ TakeInUse(p, k, TRUE)
    /\ UNCHANGED <<fileVars, elock, shared, slock, key, back, collect, name,
                   tries, live, boundVars, swept>>

RemoveLive(p) ==
    /\ pc[p] = "apply"
    /\ trash[p] = {}
    /\ \E next \in live[p] :
        /\ \A other \in live[p] : next[1] <= other[1]
        /\ live' = [live EXCEPT ![p] = @ \ {next}]
        /\ TakeInUse(p, next[2], FALSE)
    /\ UNCHANGED <<fileVars, elock, shared, slock, key, back, collect, name,
                   tries, trash, boundVars, swept>>

\* Under the lock, rename the entry into staging; then let the lock go.
MoveOut(p) ==
    /\ pc[p] = "move"
    /\ IF entry[victim[p]] = "absent"
       THEN Goto(p, "apply") /\ UNCHANGED <<entry, dir, name>>
       ELSE /\ \E n \in Names :
                /\ Fresh(n)
                /\ dir' = [dir EXCEPT ![n] = "doomed"]
                /\ name' = [name EXCEPT ![p] = n]
            /\ entry' = [entry EXCEPT ![victim[p]] = "absent"]
            /\ Goto(p, "delete")
    /\ excl' = [excl EXCEPT ![victim[p]] = NoProc]
    /\ victim' = [victim EXCEPT ![p] = NoKey]
    /\ UNCHANGED <<recency, file, elock, shared, slock, key, back, collect,
                   tries, pins, trash, live, again, boundVars, swept>>

DeleteDoomed(p) ==
    /\ pc[p] = "delete"
    /\ dir' = [dir EXCEPT ![name[p]] = "none"]
    /\ name' = [name EXCEPT ![p] = NoName]
    /\ Goto(p, "apply")
    /\ UNCHANGED <<entry, recency, file, lockVars, key, back, collect, tries,
                   sweepVars, boundVars, swept>>

\* take_staging_lock, again at the removal: a lock that is held is a fetch.
TakeStagingLock(p, n, what) ==
    /\ Lockable(n)
    /\ slock' = IF n \in file THEN [slock EXCEPT ![n] = p] ELSE slock
    /\ Goto(p, IF what = "dir" THEN "rmdir" ELSE "rmlock")

RemoveStaged(p) ==
    /\ pc[p] = "apply"
    /\ \E n \in Names, what \in {"dir", "lock"} :
        /\ <<what, n>> \in trash[p]
        /\ TakeStagingLock(p, n, what)
        /\ trash' = [trash EXCEPT ![p] = @ \ {<<what, n>>}]
        /\ name' = [name EXCEPT ![p] = n]
    /\ UNCHANGED <<fileVars, elock, shared, excl, key, back, collect, tries,
                   victim, pins, live, again, boundVars, swept>>

SkipStaged(p) ==
    /\ pc[p] = "apply"
    /\ \E n \in Names, what \in {"dir", "lock"} :
        /\ <<what, n>> \in trash[p]
        /\ ~Lockable(n)
        /\ trash' = [trash EXCEPT ![p] = @ \ {<<what, n>>}]
    /\ UNCHANGED <<fileVars, lockVars, procVars, victim, pins, live, again,
                   boundVars, swept>>

\* Files a running fetch still writes there come back without the ones removed.
RemoveStagedDir(p) ==
    /\ pc[p] = "rmdir"
    /\ dir' = [dir EXCEPT ![name[p]] =
                IF \E q \in Procs \ {p} : Fetching(q) /\ name[q] = name[p]
                THEN "cut" ELSE "none"]
    /\ Goto(p, "rmlock")
    /\ UNCHANGED <<entry, recency, file, lockVars, key, back, collect, name,
                   tries, sweepVars, boundVars, swept>>

RemoveStagingLock(p) ==
    /\ pc[p] = "rmlock"
    /\ file' = file \ {name[p]}
    /\ slock' = [slock EXCEPT ![name[p]] = IF @ = p THEN NoProc ELSE @]
    /\ name' = [name EXCEPT ![p] = NoName]
    /\ Goto(p, "apply")
    /\ UNCHANGED <<entry, recency, dir, elock, shared, excl, key, back,
                   collect, tries, sweepVars, boundVars, swept>>

\* Nothing left to remove: plan again past a new pin, or return.
SweepRound(p) ==
    /\ pc[p] = "apply"
    /\ trash[p] = {} /\ live[p] = {}
    /\ IF again[p]
       THEN /\ Goto(p, "survey")
            /\ UNCHANGED <<lockVars, key, back, collect, name, tries,
                           sweepVars, boundVars>>
       ELSE IF key[p] = NoKey
       THEN Ends(p)
       ELSE /\ Goto(p, "run")
            /\ pins' = [pins EXCEPT ![p] = {}]
            /\ UNCHANGED <<lockVars, key, back, collect, name, tries, victim,
                           trash, live, again, boundVars>>
    /\ UNCHANGED <<fileVars, swept>>

-----------------------------------------------------------------------------
(* Crashes and the operator                                                *)

\* A process dies between two operations. The removal of a torn entry, not
\* atomic, may be half done.
Crash(p) ==
    /\ pc[p] # "idle" /\ crashes < MaxCrashes
    /\ Forgotten(p)
    /\ crashes' = crashes + 1
    /\ \/ entry' = entry
       \/ /\ pc[p] = "repair" /\ entry[key[p]] = "torn"
          /\ entry' = [entry EXCEPT ![key[p]] = "husk"]
    /\ UNCHANGED <<recency, dir, file, starts, deletes, swept>>

\* `pipette models delete` takes no lock, and removes the manifest or some of
\* the payload before the rest.
Delete(k) ==
    /\ deletes < MaxDeletes
    /\ deletes' = deletes + 1
    /\ entry[k] # "absent"
    /\ \E left \in IF entry[k] = "whole" THEN {"part", "husk"} ELSE {"absent"} :
        entry' = [entry EXCEPT ![k] = left]
    /\ UNCHANGED <<recency, dir, file, lockVars, procVars, sweepVars,
                   starts, crashes, swept>>

-----------------------------------------------------------------------------
ResolveStep(p) ==
    \/ FindExists(p) \/ FindRead(p) \/ FindReadFails(p) \/ Touch(p)
    \/ LockEntry(p) \/ Repair(p) \/ RepairFails(p) \/ CreateLockFile(p)
    \/ LockStaged(p) \/ LockStagedFails(p) \/ FetchDone(p) \/ FetchFails(p)
    \/ ClearTarget(p) \/ WipeTarget(p) \/ WipeFails(p) \/ Publish(p)
    \/ Unstage(p) \/ Hold(p) \/ FinishRun(p)
SweepStep(p) ==
    \/ Survey(p) \/ RemoveGarbageEntry(p) \/ RemoveLive(p) \/ MoveOut(p)
    \/ DeleteDoomed(p) \/ RemoveStaged(p) \/ SkipStaged(p)
    \/ RemoveStagedDir(p) \/ RemoveStagingLock(p) \/ SweepRound(p)
Step(p) == ResolveStep(p) \/ SweepStep(p)

Next == \/ \E p \in Procs : Step(p) \/ Resolve(p) \/ StartGc(p) \/ Crash(p)
        \/ \E k \in Keys : Delete(k)

Spec == Init /\ [][Next]_vars

\* A process keeps running; a file lock that comes free again and again is
\* given to who waits for it (the only steps of Step that wait are the locks).
Fairness == \A p \in Procs : SF_vars(Step(p))

FairSpec == Spec /\ Fairness

-----------------------------------------------------------------------------
(* Properties                                                              *)

\* A fetch has a staging name.
Staging == {"slock", "fetch", "clear", "wipe", "publish", "unstage"}

Sweeping == {"survey", "apply", "move", "delete", "rmdir", "rmlock"}

\* The resolve of p has returned, or is sweeping before it does.
InUse(p) == key[p] # NoKey /\ pc[p] \in Sweeping \cup {"run"}

\* A process that got an entry from ensure_model runs from all of it: no sweep,
\* repair or publish of another process takes any of it away while it runs
\* (hold_entry, move_out_and_remove, lock_entry).
HeldEntryWhole ==
    deletes = 0 => \A p \in Procs : InUse(p) => entry[key[p]] = "whole"

\* No sweep removes what a running fetch has staged, so no fetch publishes what
\* was left of it (StagedDir and take_staging_lock).
StagedFetchSafe ==
    \A p \in Procs : Fetching(p) => dir[name[p]] = "open" /\ name[p] \in file

\* Of two processes that miss an entry one fetches it: an entry that is stored
\* is not fetched again (lock_entry and the second look).
FetchOnlyMissing == \A p \in Procs : Fetching(p) => entry[key[p]] # "whole"

\* Whatever a dead process left in staging is garbage to the next survey: a
\* directory or a lock file without a process is never taken for a running
\* fetch (staging_orphans).
OrphansAreGarbage ==
    \A n \in Names :
        (\A p \in Procs : name[p] # n) =>
            /\ dir[n] # "none" => <<"dir", n>> \in Garbage
            /\ n \in file => \/ <<"lock", n>> \in Garbage
                             \/ <<"dir", n>> \in Garbage

\* Every command ends: no wait for a lock, and no round of the sweep or of the
\* resolve, goes on for ever.
CommandsEnd == \A p \in Procs : pc[p] # "idle" ~> pc[p] = "idle"

\* The store as its users see it: entries that stay while they are in use.
Cache == INSTANCE HeldCache WITH
    present <- {k \in Keys : entry[k] = "whole"},
    users <- [k \in Keys |-> {p \in Procs : InUse(p) /\ key[p] = k}]

CacheSpec == Cache!Spec

\* "one a sweep removed in between is fetched again" (docs/storage-quota.md): no
\* lookup of a resolve fails because another process's sweep removed the entry
\* while it looked. Refuted by a run.
SweepFailsNoLookup == swept = {}

-----------------------------------------------------------------------------
(* The inductive invariant                                                 *)

\* A process has the names its place calls for, and one at rest holds none.
Scopes ==
    \A p \in Procs :
        /\ pc[p] = "idle" => key[p] = NoKey /\ back[p] = "first"
        /\ pc[p] \notin Sweeping \cup {"idle"} => key[p] \in Keys
        /\ pc[p] \in Staging \cup {"delete", "rmdir", "rmlock"} => name[p] \in Names
        /\ pc[p] = "move" => victim[p] \in Keys

\* From the second look to the publish, an entry is its fetcher's.
Locking(p) ==
    \/ pc[p] \in {"repair", "stage"} \cup Staging
    \/ pc[p] \in {"exists", "read", "touch"} /\ back[p] = "relook"
FetchLocked == \A p \in Procs : Locking(p) => elock[key[p]] = p

\* A fetch that has locked its name keeps lock, lock file and directory.
StagingKept ==
    \A p \in Procs :
        /\ pc[p] \in Staging \ {"slock"} => slock[name[p]] = p /\ name[p] \in file
        /\ Fetching(p) => dir[name[p]] = "open"
        /\ pc[p] = "slock" => dir[name[p]] = "none"

\* No sweep takes a fetch's directory for garbage, and one that shares its name
\* is removing the lock file before the fetch has locked it.
StagingApart ==
    \A p \in Procs : pc[p] \in Staging =>
        \A q \in Procs \ {p} :
            /\ <<"dir", name[p]>> \notin trash[q]
            /\ name[q] = name[p] => pc[p] = "slock" /\ pc[q] = "rmlock"

\* A sweep removes staging under its lock, or without a lock file.
RemoverLocked ==
    \A p \in Procs :
        pc[p] \in {"rmdir", "rmlock"} => slock[name[p]] = p \/ name[p] \notin file

\* A staging lock belongs to a process that is at work under its name.
LockNamed ==
    \A p \in Procs, n \in Names :
        slock[n] = p => name[p] = n /\ pc[p] \in (Staging \ {"slock"}) \cup {"rmdir", "rmlock"}

\* An entry is in use under its shared lock, from before the last look at it.
UseLocked ==
    \A p \in Procs :
        InUse(p) \/ (pc[p] \in {"exists", "read"} /\ back[p] = "check")
        => p \in shared[key[p]]

\* A sweep moves an entry out under an exclusive lock.
MoveLocked ==
    /\ \A p \in Procs : pc[p] = "move" => excl[victim[p]] = p
    /\ \A k \in Keys : excl[k] # NoProc => shared[k] = {}

\* Without deletes by hand nothing is left in part, and what was found readable
\* is whole or gone.
EntriesSound ==
    deletes = 0 =>
        /\ \A k \in Keys : entry[k] # "part"
        /\ \A p \in Procs : pc[p] = "touch" => entry[key[p]] \in {"absent", "whole"}

\* What a fetcher found missing stays so until it publishes.
MissingStays ==
    \A p \in Procs :
        pc[p] \in {"repair", "stage"} \cup (Staging \ {"unstage"}) => entry[key[p]] # "whole"

IInv == /\ TypeOK /\ Scopes /\ FetchLocked
        /\ StagingKept /\ StagingApart /\ RemoverLocked /\ LockNamed
        /\ UseLocked /\ MoveLocked /\ EntriesSound /\ MissingStays /\ HeldEntryWhole
=============================================================================
